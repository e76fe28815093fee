--------------------------- MODULE OccupancyProofs ---------------------------
(***************************************************************************)
(* TLAPS proofs about Occupancy and OccupancyHistory, for any number of     *)
(* listings, leases, marks, users and overlapping requests.                 *)
(***************************************************************************)
EXTENDS OccupancyHistory, TLAPS

USE ConstantsAssumption

-----------------------------------------------------------------------------
(* The inductive invariant                                                  *)

\* A row that exists has its foreign keys.
RowsOK ==
  /\ \A l \in Leases : LeaseRowExists(l) =>
       leaseProperty[l] \in Properties /\ leaseTenant[l] \in Users
  /\ \A t \in Tenancies : RowExists(t) => tenancyProperty[t] \in Properties

\* What the owner's pause and an admin's change of status can write.
ButtonStatuses == {"ACTIVE", "INACTIVE", "SUSPENDED", "REJECTED"}

\* What a handler still relies on when it comes to write: the columns it read
\* from its lease never change, a lease it saw ACTIVE was signed, a tenancy it
\* saw unconfirmed was one of markTenant's, and no button writes OCCUPIED
\* without a tenant.
RequestOK(r) ==
  /\ r.op \in {"toggle", "setStatus"} => r.next \in ButtonStatuses
  /\ r.op = "mark" => r.user \in Users
  /\ r.op \in {"sign", "reject", "terminate"} =>
       /\ r.id \in Leases
       /\ r.user \in Users
       /\ leaseStatus[r.id] # "none"
       /\ LeaseRowExists(r.id) =>
            leaseProperty[r.id] = r.property /\ leaseTenant[r.id] = r.user
  /\ r.op = "terminate" /\ LeaseRowExists(r.id) => signed[r.id]
  /\ r.op = "decline" => r.id \in Marks

RequestsOK == \A w \in Workers : inflight[w] # Null => RequestOK(inflight[w])

\* A lease's tenancy is born confirmed, so no decline can ever have seen it
\* unconfirmed; a lease that took effect was signed.
LeaseRecords ==
  /\ \A l \in Leases : RowExists(l) => confirmed[l]
  /\ \A l \in Leases : leaseStatus[l] \in {"ACTIVE", "TERMINATED"} => signed[l]
  /\ \A l \in Leases : signed[l] => LeaseRowExists(l)
  /\ SignedLeaseRecorded
  /\ TerminatedLeaseEnded

IInv == TypeOK /\ RowsOK /\ RequestsOK /\ LeaseRecords /\ OccupancyRecorded

\* The empty database satisfies the invariant.
LEMMA InitInv == Init => IInv
BY DEF Init, IInv, TypeOK, Status, Moderation, LeaseStatus, TenancyState, Tenancies,
       RowsOK, RowExists, LeaseRowExists, RequestsOK, LeaseRecords,
       SignedLeaseRecorded, TerminatedLeaseEnded, OccupancyRecorded

-----------------------------------------------------------------------------
(* Read steps: the tables stand still, and the request satisfies RequestOK.  *)

\* Every request a Read* action can leave in flight is a Request.
LEMMA ReqType ==
  ASSUME NEW o \in Ops, NEW p \in Properties
  PROVE  /\ Req(o, p) \in Request
         /\ \A s \in Status : [Req(o, p) EXCEPT !.next = s] \in Request
         /\ \A u \in Users : [Req(o, p) EXCEPT !.user = u] \in Request
         /\ \A s \in Status, b \in BOOLEAN :
              [Req(o, p) EXCEPT !.next = s, !.stamp = b] \in Request
         /\ \A b \in BOOLEAN : [Req(o, p) EXCEPT !.stamp = b] \in Request
         /\ \A t \in Tenancies : [Req(o, p) EXCEPT !.id = t] \in Request
         /\ \A t \in Tenancies, u \in Users :
              [Req(o, p) EXCEPT !.id = t, !.user = u] \in Request
BY DEF Req, Request

\* A handler that passed its checks only adds its request.
LEMMA StartInv ==
  ASSUME IInv, NEW w \in Workers, NEW r \in Request, RequestOK(r), Start(w, r)
  PROVE  IInv'
<1> USE DEF IInv, Start, listingVars, leaseVars, tenancyVars
<1>1. TypeOK'
  BY DEF TypeOK
<1>2. RowsOK' /\ LeaseRecords' /\ OccupancyRecorded'
  BY DEF RowsOK, LeaseRecords, OccupancyRecorded, RecordsOccupant, RowExists, LeaseRowExists,
         SignedLeaseRecorded, TerminatedLeaseEnded
<1>3. RequestsOK'
  BY DEF RequestsOK, RequestOK, LeaseRowExists, TypeOK
<1>4. QED BY <1>1, <1>2, <1>3

\* Every Read* step about a listing leaves an acceptable request.
LEMMA ReadInv ==
  ASSUME IInv, NEW w \in Workers, NEW p \in Properties,
         \/ ReadPublish(w, p)
         \/ ReadToggle(w, p)
         \/ \E u \in Users : ReadMark(w, p, u)
         \/ ReadVacate(w, p)
         \/ ReadDelete(w, p)
         \/ \E s \in Status : ReadSetStatus(w, p, s)
         \/ ReadVerify(w, p)
  PROVE  IInv'
<1> USE DEF Ops
<1>1. CASE ReadPublish(w, p)
  BY <1>1, ReqType, StartInv DEF ReadPublish, RequestOK, Req
<1>2. CASE ReadToggle(w, p)
  <2> DEFINE s == IF status[p] = "ACTIVE" THEN "INACTIVE" ELSE "ACTIVE"
             r == [Req("toggle", p) EXCEPT !.next = s]
  <2>1. s \in ButtonStatuses /\ s \in Status
    BY DEF Status, ButtonStatuses
  <2>2. r \in Request /\ RequestOK(r)
    BY <2>1, ReqType DEF RequestOK, Req
  <2>3. QED BY <1>2, <2>2, StartInv DEF ReadToggle
<1>3. ASSUME NEW u \in Users, ReadMark(w, p, u) PROVE IInv'
  <2> DEFINE r == [Req("mark", p) EXCEPT !.user = u]
  <2>1. r \in Request /\ RequestOK(r)
    BY ReqType DEF RequestOK, Req
  <2>2. QED BY <1>3, <2>1, StartInv DEF ReadMark
<1>4. CASE ReadVacate(w, p)
  BY <1>4, ReqType, StartInv DEF ReadVacate, RequestOK, Req
<1>5. CASE ReadDelete(w, p)
  BY <1>5, ReqType, StartInv DEF ReadDelete, RequestOK, Req
<1>6. ASSUME NEW s \in Status, ReadSetStatus(w, p, s) PROVE IInv'
  <2> DEFINE b == s = "ACTIVE" /\ FirstPublishStamp(p)
             r == [Req("setStatus", p) EXCEPT !.next = s, !.stamp = b]
  <2>1. b \in BOOLEAN /\ s \in ButtonStatuses
    BY <1>6 DEF ReadSetStatus, ButtonStatuses
  <2>2. r \in Request /\ RequestOK(r)
    BY <2>1, ReqType DEF RequestOK, Req
  <2>3. QED BY <1>6, <2>2, StartInv DEF ReadSetStatus
<1>7. CASE ReadVerify(w, p)
  <2> DEFINE b == FirstPublishStamp(p)
             r == [Req("verify", p) EXCEPT !.stamp = b]
  <2>1. b \in BOOLEAN
    BY DEF FirstPublishStamp
  <2>2. r \in Request /\ RequestOK(r)
    BY <2>1, ReqType DEF RequestOK, Req
  <2>3. QED BY <1>7, <2>2, StartInv DEF ReadVerify
<1>8. QED BY <1>1, <1>2, <1>3, <1>4, <1>5, <1>6, <1>7

\* So does every Read* step about a lease, whose columns it copies.
LEMMA ReadLeaseInv ==
  ASSUME IInv, NEW w \in Workers, NEW l \in Leases,
         ReadSign(w, l) \/ ReadReject(w, l) \/ ReadTerminate(w, l)
  PROVE  IInv'
<1> PICK o \in {"sign", "reject", "terminate"}, s \in {"OFFERED", "ACTIVE"} :
      ReadLease(w, l, o, s) /\ (o = "terminate" => s = "ACTIVE")
  BY DEF ReadSign, ReadReject, ReadTerminate
<1> DEFINE r == [Req(o, leaseProperty[l]) EXCEPT !.id = l, !.user = leaseTenant[l]]
<1>1. LeaseRowExists(l) /\ leaseStatus[l] = s
  BY DEF ReadLease, LeaseRowExists
<1>2. leaseProperty[l] \in Properties /\ leaseTenant[l] \in Users
  BY <1>1 DEF IInv, RowsOK
<1>3. r \in Request
  BY <1>2, ReqType DEF Ops, Tenancies
<1>4. o = "terminate" => signed[l]
  BY <1>1 DEF IInv, LeaseRecords
<1>5. RequestOK(r)
  BY <1>1, <1>2, <1>4 DEF RequestOK, Req, LeaseRowExists
<1>6. QED BY <1>3, <1>5, StartInv DEF ReadLease

\* So does ReadDecline: what it saw unconfirmed is not a lease's tenancy.
LEMMA ReadDeclineInv ==
  ASSUME IInv, NEW w \in Workers, NEW t \in Tenancies, ReadDecline(w, t)
  PROVE  IInv'
<1> DEFINE r == [Req("decline", tenancyProperty[t]) EXCEPT !.id = t]
<1>1. t \in Marks /\ tenancyProperty[t] \in Properties
  BY DEF ReadDecline, IInv, LeaseRecords, RowsOK, Tenancies
<1>2. r \in Request /\ RequestOK(r)
  BY <1>1, ReqType DEF RequestOK, Req, Ops
<1>3. QED BY <1>2, StartInv DEF ReadDecline

-----------------------------------------------------------------------------
(* Write steps.  Each one's conjuncts: types, rows, the requests left in     *)
(* flight, the lease records, and the record of each occupied listing.       *)

\* Finishing a request leaves the others as they were.
LEMMA FinishOthers ==
  ASSUME IInv, NEW w \in Workers, Finish(w)
  PROVE  /\ inflight' \in [Workers -> Request \cup {Null}]
         /\ \A v \in Workers : inflight'[v] # Null => inflight'[v] = inflight[v]
BY DEF IInv, TypeOK, Finish

\* Steps that move no lease row and delete or create no tenancy: a listing may
\* change status, but to OCCUPIED only from itself, and not its tenant.
LEMMA StatusOnlyInv ==
  ASSUME IInv,
         TypeOK',
         UNCHANGED <<accounts, currentTenant, leaseVars, tenancyVars>>,
         \A p \in Properties : status'[p] = "OCCUPIED" => status[p] = "OCCUPIED",
         \A v \in Workers : inflight'[v] # Null => inflight'[v] = inflight[v]
  PROVE  IInv'
<1> USE DEF IInv, leaseVars, tenancyVars
<1>1. RowsOK' /\ LeaseRecords'
  BY DEF RowsOK, LeaseRecords, SignedLeaseRecorded, TerminatedLeaseEnded,
         LeaseRowExists, RowExists
<1>2. RequestsOK'
  BY DEF RequestsOK, RequestOK, LeaseRowExists
<1>3. OccupancyRecorded'
  BY DEF OccupancyRecorded, RecordsOccupant
<1>4. QED BY <1>1, <1>2, <1>3

\* Stamp keeps publishedAt in its range.
LEMMA StampType ==
  ASSUME publishedAt \in [Properties -> 0..MaxStamps],
         NEW p \in Properties, NEW wanted \in BOOLEAN, Stamp(p, wanted)
  PROVE  publishedAt' \in [Properties -> 0..MaxStamps]
<1> DEFINE n == publishedAt[p]
           v == IF wanted /\ n < MaxStamps THEN n + 1 ELSE n
<1>1. n \in 0..MaxStamps
  OBVIOUS
<1>2. v \in 0..MaxStamps
  BY <1>1
<1>3. publishedAt' = [publishedAt EXCEPT ![p] = v]
  BY DEF Stamp
<1> HIDE DEF v
<1>4. QED BY <1>2, <1>3

\* The writes of submit, pause, moderation and verification, and an abandoned
\* request, only move a listing's status, and never to OCCUPIED.
LEMMA ListingStatusInv ==
  ASSUME IInv, NEW w \in Workers,
         WritePublish(w) \/ WriteToggle(w) \/ WriteSetStatus(w) \/ WriteVerify(w) \/ Abandon(w)
  PROVE  IInv'
<1>1. inflight' \in [Workers -> Request \cup {Null}]
      /\ \A v \in Workers : inflight'[v] # Null => inflight'[v] = inflight[v]
  BY FinishOthers DEF WritePublish, WriteToggle, WriteSetStatus, WriteVerify, Abandon
<1>2. inflight[w] \in Request /\ inflight[w].property \in Properties /\ RequestOK(inflight[w])
  BY DEF WritePublish, WriteToggle, WriteSetStatus, WriteVerify, Abandon, Running,
         IInv, TypeOK, RequestsOK, Request
<1>3. CASE WritePublish(w)
  <2>1. TypeOK'
    BY <1>1, <1>2, <1>3 DEF WritePublish, IInv, TypeOK, leaseVars, tenancyVars, Status, Moderation
  <2>2. \A p \in Properties : status'[p] = "OCCUPIED" => status[p] = "OCCUPIED"
    BY <1>2, <1>3 DEF WritePublish, IInv, TypeOK
  <2>3. QED BY <1>1, <1>3, <2>1, <2>2, StatusOnlyInv DEF WritePublish
<1>4. CASE WriteToggle(w)
  <2>1. inflight[w].next \in Status \ {"OCCUPIED"}
    BY <1>2, <1>4 DEF WriteToggle, Running, RequestOK, ButtonStatuses, Status
  <2>2. TypeOK'
    BY <1>1, <1>2, <1>4, <2>1 DEF WriteToggle, IInv, TypeOK, leaseVars, tenancyVars
  <2>3. \A p \in Properties : status'[p] = "OCCUPIED" => status[p] = "OCCUPIED"
    BY <1>2, <1>4, <2>1 DEF WriteToggle, IInv, TypeOK
  <2>4. QED BY <1>1, <1>4, <2>2, <2>3, StatusOnlyInv DEF WriteToggle
<1>5. CASE WriteSetStatus(w)
  <2>1. inflight[w].next \in Status \ {"OCCUPIED"}
    BY <1>2, <1>5 DEF WriteSetStatus, Running, RequestOK, ButtonStatuses, Status
  <2>2. publishedAt' \in [Properties -> 0..MaxStamps]
    BY <1>2, <1>5, StampType DEF WriteSetStatus, IInv, TypeOK, Request
  <2>3. TypeOK'
    BY <1>1, <1>2, <1>5, <2>1, <2>2
       DEF WriteSetStatus, IInv, TypeOK, leaseVars, tenancyVars, Moderation
  <2>4. \A p \in Properties : status'[p] = "OCCUPIED" => status[p] = "OCCUPIED"
    BY <1>2, <1>5, <2>1 DEF WriteSetStatus, IInv, TypeOK
  <2>5. QED BY <1>1, <1>5, <2>3, <2>4, StatusOnlyInv DEF WriteSetStatus
<1>6. CASE WriteVerify(w)
  <2>1. publishedAt' \in [Properties -> 0..MaxStamps]
    BY <1>2, <1>6, StampType DEF WriteVerify, IInv, TypeOK, Request
  <2>2. TypeOK'
    BY <1>1, <1>2, <1>6, <2>1 DEF WriteVerify, IInv, TypeOK, leaseVars, tenancyVars, Status
  <2>3. \A p \in Properties : status'[p] = "OCCUPIED" => status[p] = "OCCUPIED"
    BY <1>2, <1>6 DEF WriteVerify, IInv, TypeOK
  <2>4. QED BY <1>1, <1>6, <2>2, <2>3, StatusOnlyInv DEF WriteVerify
<1>7. CASE Abandon(w)
  <2>1. TypeOK'
    BY <1>1, <1>7 DEF Abandon, IInv, TypeOK, listingVars, leaseVars, tenancyVars
  <2>2. QED BY <1>1, <1>7, <2>1, StatusOnlyInv DEF Abandon, listingVars
<1>8. QED BY <1>3, <1>4, <1>5, <1>6, <1>7

\* The single-statement writes of a listing do as much.
LEMMA SingleListingInv ==
  ASSUME IInv,
         \/ \E p \in Properties : CreateProperty(p) \/ UpdateProperty(p) \/ SuspendReported(p)
         \/ \E u \in Users : BlockOwner(u)
  PROVE  IInv'
<1>1. TypeOK'
  BY DEF CreateProperty, UpdateProperty, SuspendReported, BlockOwner, IInv, TypeOK,
         leaseVars, tenancyVars, Status, Moderation
<1>2. \A p \in Properties : status'[p] = "OCCUPIED" => status[p] = "OCCUPIED"
  BY DEF CreateProperty, UpdateProperty, SuspendReported, BlockOwner, IInv, TypeOK
<1>3. UNCHANGED <<accounts, currentTenant, leaseVars, tenancyVars, inflight>>
  BY DEF CreateProperty, UpdateProperty, SuspendReported, BlockOwner
<1>4. QED BY <1>1, <1>2, <1>3, StatusOnlyInv

\* markTenant creates the record of the tenant it names.
LEMMA WriteMarkInv ==
  ASSUME IInv, NEW w \in Workers, NEW m \in Marks, WriteMark(w, m)
  PROVE  IInv'
<1> DEFINE p == inflight[w].property
           u == inflight[w].user
<1> USE DEF IInv, WriteMark
<1>1. p \in Properties /\ u \in Users /\ m \in Tenancies /\ m \notin Leases
  BY DEF Running, TypeOK, RequestsOK, RequestOK, Request, Tenancies
<1>2. inflight' \in [Workers -> Request \cup {Null}]
      /\ \A v \in Workers : inflight'[v] # Null => inflight'[v] = inflight[v]
  BY FinishOthers
<1>3. TypeOK'
  BY <1>1, <1>2 DEF TypeOK, leaseVars, Status, TenancyState
<1>4. \A t \in Tenancies : t # m =>
        /\ tenancy'[t] = tenancy[t]
        /\ tenancyProperty'[t] = tenancyProperty[t]
        /\ tenancyTenant'[t] = tenancyTenant[t]
  BY DEF TypeOK
<1>5. RowsOK' /\ RequestsOK' /\ LeaseRecords'
  BY <1>1, <1>2, <1>4 DEF RowsOK, RequestsOK, RequestOK, LeaseRecords, SignedLeaseRecorded,
     TerminatedLeaseEnded, LeaseRowExists, RowExists, TypeOK, leaseVars, Tenancies
<1>6. ASSUME NEW q \in Properties, status'[q] = "OCCUPIED"
      PROVE  \E t \in Tenancies : RecordsOccupant(t, q)'
  <2>1. CASE q = p
    BY <1>1, <2>1 DEF TypeOK, RecordsOccupant
  <2>2. CASE q # p
    <3>1. status[q] = "OCCUPIED" /\ currentTenant'[q] = currentTenant[q]
      BY <1>1, <1>6, <2>2 DEF TypeOK
    <3>2. PICK t \in Tenancies : RecordsOccupant(t, q)
      BY <3>1 DEF OccupancyRecorded
    <3>3. t # m
      BY <3>2 DEF RecordsOccupant
    <3>4. QED BY <1>4, <3>1, <3>2, <3>3 DEF RecordsOccupant
  <2>3. QED BY <2>1, <2>2
<1>7. OccupancyRecorded'
  BY <1>6 DEF OccupancyRecorded
<1>8. QED BY <1>3, <1>5, <1>7

\* signLease creates the record of the tenant who signs, confirmed.
LEMMA WriteSignInv ==
  ASSUME IInv, NEW w \in Workers, WriteSign(w)
  PROVE  IInv'
<1> DEFINE l == inflight[w].id
           p == inflight[w].property
           u == inflight[w].user
<1> USE DEF IInv, WriteSign
<1>1. /\ p \in Properties /\ u \in Users /\ l \in Leases /\ l \in Tenancies
      /\ leaseProperty[l] = p /\ leaseTenant[l] = u
  BY DEF Running, TypeOK, RequestsOK, RequestOK, Request, Tenancies
<1>2. inflight' \in [Workers -> Request \cup {Null}]
      /\ \A v \in Workers : inflight'[v] # Null => inflight'[v] = inflight[v]
  BY FinishOthers
<1>3. TypeOK'
  BY <1>1, <1>2 DEF TypeOK, Status, LeaseStatus, TenancyState
<1>4. \A t \in Tenancies : t # l =>
        /\ tenancy'[t] = tenancy[t]
        /\ tenancyProperty'[t] = tenancyProperty[t]
        /\ tenancyTenant'[t] = tenancyTenant[t]
        /\ confirmed'[t] = confirmed[t]
  BY DEF TypeOK
<1>5. /\ \A k \in Leases : k # l => leaseStatus'[k] = leaseStatus[k] /\ signed'[k] = signed[k]
      /\ leaseStatus'[l] = "ACTIVE" /\ signed'[l] = TRUE
  BY <1>1 DEF TypeOK
<1>6. /\ tenancy'[l] = "open" /\ confirmed'[l] = TRUE
      /\ tenancyProperty'[l] = p /\ tenancyTenant'[l] = u
  BY <1>1 DEF TypeOK
<1>7. RowsOK' /\ RequestsOK'
  BY <1>1, <1>2, <1>4, <1>5, <1>6 DEF RowsOK, RequestsOK, RequestOK, LeaseRowExists, RowExists
<1>8. LeaseRecords'
  BY <1>1, <1>4, <1>5, <1>6 DEF LeaseRecords, SignedLeaseRecorded, TerminatedLeaseEnded,
     LeaseRowExists, RowExists, Tenancies
<1>9. ASSUME NEW q \in Properties, status'[q] = "OCCUPIED"
      PROVE  \E t \in Tenancies : RecordsOccupant(t, q)'
  <2>1. CASE q = p
    BY <1>1, <1>6, <2>1 DEF TypeOK, RecordsOccupant
  <2>2. CASE q # p
    <3>1. status[q] = "OCCUPIED" /\ currentTenant'[q] = currentTenant[q]
      BY <1>1, <1>9, <2>2 DEF TypeOK
    <3>2. PICK t \in Tenancies : RecordsOccupant(t, q)
      BY <3>1 DEF OccupancyRecorded
    <3>3. t # l
      BY <3>2 DEF RecordsOccupant, NoTenancyYet
    <3>4. QED BY <1>4, <3>1, <3>2, <3>3 DEF RecordsOccupant
  <2>3. QED BY <2>1, <2>2
<1>10. OccupancyRecorded'
  BY <1>9 DEF OccupancyRecorded
<1>11. QED BY <1>3, <1>7, <1>8, <1>10

\* vacateProperty ends the records and clears OCCUPIED together.
LEMMA WriteVacateInv ==
  ASSUME IInv, NEW w \in Workers, WriteVacate(w)
  PROVE  IInv'
<1> DEFINE p == inflight[w].property
<1> USE DEF IInv, WriteVacate, EndTenancies, TenanciesAt
<1>1. p \in Properties
  BY DEF Running, TypeOK, Request
<1>2. inflight' \in [Workers -> Request \cup {Null}]
      /\ \A v \in Workers : inflight'[v] # Null => inflight'[v] = inflight[v]
  BY FinishOthers
<1>3. TypeOK'
  BY <1>1, <1>2 DEF TypeOK, leaseVars, Status, TenancyState
<1>4. \A t \in Tenancies :
        /\ RowExists(t)' <=> RowExists(t)
        /\ tenancy[t] = "ended" => tenancy'[t] = "ended"
        /\ tenancyProperty[t] # p => tenancy'[t] = tenancy[t]
  BY DEF RowExists, TypeOK
<1>5. RowsOK' /\ RequestsOK' /\ LeaseRecords'
  <2>1. UNCHANGED <<leaseStatus, leaseProperty, leaseTenant, signed, confirmed,
                    tenancyProperty, tenancyTenant>>
    BY DEF leaseVars
  <2>2. RowsOK' /\ RequestsOK'
    BY <1>2, <1>4, <2>1 DEF RowsOK, RequestsOK, RequestOK, LeaseRowExists, RowExists
  <2>3. LeaseRecords'
    BY <1>4, <2>1 DEF LeaseRecords, SignedLeaseRecorded, TerminatedLeaseEnded, RowExists,
       LeaseRowExists, Tenancies
  <2>4. QED BY <2>2, <2>3
<1>6. \A q \in Properties : status'[q] = "OCCUPIED" =>
        q # p /\ status[q] = "OCCUPIED" /\ currentTenant'[q] = currentTenant[q]
  BY <1>1 DEF TypeOK
<1>7. OccupancyRecorded'
  BY <1>4, <1>6 DEF OccupancyRecorded, RecordsOccupant
<1>8. QED BY <1>3, <1>5, <1>7

\* terminateLease ends the record of its lease, and OCCUPIED with it.
LEMMA WriteTerminateInv ==
  ASSUME IInv, NEW w \in Workers, WriteTerminate(w)
  PROVE  IInv'
<1> DEFINE l == inflight[w].id
           p == inflight[w].property
<1> USE DEF IInv, WriteTerminate, EndTenancies
<1>1. /\ p \in Properties /\ l \in Leases /\ l \in Tenancies
      /\ leaseProperty[l] = p /\ signed[l]
  BY DEF Running, TypeOK, RequestsOK, RequestOK, Request, Tenancies
<1>2. inflight' \in [Workers -> Request \cup {Null}]
      /\ \A v \in Workers : inflight'[v] # Null => inflight'[v] = inflight[v]
  BY FinishOthers
<1>3. RowExists(l) /\ tenancyProperty[l] = p
  BY <1>1 DEF LeaseRecords, SignedLeaseRecorded
<1>4. TypeOK'
  BY <1>1, <1>2 DEF TypeOK, Status, LeaseStatus, TenancyState
<1>5. /\ \A t \in Tenancies :
           /\ RowExists(t)' <=> RowExists(t)
           /\ t # l => tenancy'[t] = tenancy[t]
      /\ tenancy'[l] = "ended"
  BY <1>1, <1>3 DEF RowExists, TypeOK
<1>6. /\ \A k \in Leases : k # l => leaseStatus'[k] = leaseStatus[k]
      /\ leaseStatus'[l] = "TERMINATED"
  BY <1>1 DEF TypeOK
<1>7. RowsOK' /\ RequestsOK' /\ LeaseRecords'
  <2>1. UNCHANGED <<leaseProperty, leaseTenant, signed, confirmed, tenancyProperty,
                    tenancyTenant>>
    OBVIOUS
  <2>2. RowsOK' /\ RequestsOK'
    BY <1>1, <1>2, <1>5, <1>6, <2>1
       DEF RowsOK, RequestsOK, RequestOK, LeaseRowExists, RowExists
  <2>3. LeaseRecords'
    BY <1>1, <1>5, <1>6, <2>1 DEF LeaseRecords, SignedLeaseRecorded, TerminatedLeaseEnded,
       RowExists, LeaseRowExists, Tenancies
  <2>4. QED BY <2>2, <2>3
<1>8. \A q \in Properties : status'[q] = "OCCUPIED" =>
        q # p /\ status[q] = "OCCUPIED" /\ currentTenant'[q] = currentTenant[q]
  BY <1>1 DEF TypeOK
<1>9. OccupancyRecorded'
  BY <1>3, <1>5, <1>8 DEF OccupancyRecorded, RecordsOccupant
<1>10. QED BY <1>4, <1>7, <1>9

\* A cascade that takes the leases and the tenancies of the same homes, or of
\* the same tenant, keeps leases and records in step.
LEMMA EraseRecords ==
  ASSUME IInv, NEW L \in SUBSET Leases, NEW T \in SUBSET Tenancies,
         EraseLeases(L), EraseTenancies(T),
         \A l \in Leases : signed[l] => (l \in L <=> l \in T)
  PROVE  LeaseRecords'
<1> USE DEF IInv, EraseLeases, EraseTenancies
<1>1. \A t \in Tenancies : RowExists(t)' => RowExists(t) /\ t \notin T /\ confirmed'[t] = confirmed[t]
  BY DEF RowExists, TypeOK
<1>2. \A l \in Leases : signed'[l] =>
        /\ signed[l] /\ l \notin L /\ l \notin T
        /\ leaseStatus'[l] = leaseStatus[l] /\ leaseProperty'[l] = leaseProperty[l]
        /\ leaseTenant'[l] = leaseTenant[l]
  BY DEF TypeOK, LeaseRecords, LeaseRowExists
<1>3. \A l \in Leases : leaseStatus'[l] \in {"ACTIVE", "TERMINATED"} =>
        leaseStatus'[l] = leaseStatus[l] /\ l \notin L
  BY DEF TypeOK
<1>4. \A l \in Leases : leaseStatus'[l] \in {"ACTIVE", "TERMINATED"} => signed'[l]
  BY <1>3 DEF LeaseRecords, TypeOK
<1>5. \A l \in Leases : signed'[l] =>
        tenancy'[l] = tenancy[l] /\ confirmed'[l] = confirmed[l] /\ l \in Tenancies
  BY <1>2 DEF TypeOK, Tenancies
<1>6. SignedLeaseRecorded' /\ TerminatedLeaseEnded'
  BY <1>2, <1>3, <1>4, <1>5
     DEF LeaseRecords, SignedLeaseRecorded, TerminatedLeaseEnded, RowExists
<1>7. (\A l \in Leases : RowExists(l) => confirmed[l])'
  BY <1>1 DEF LeaseRecords, RowExists, Tenancies
<1>8. (\A l \in Leases : signed[l] => LeaseRowExists(l))'
  BY <1>2 DEF LeaseRecords, LeaseRowExists
<1>9. QED BY <1>4, <1>6, <1>7, <1>8 DEF LeaseRecords

\* A cascade keeps the columns in their types.
LEMMA EraseType ==
  ASSUME TypeOK, NEW P \in SUBSET Properties, NEW L \in SUBSET Leases,
         NEW T \in SUBSET Tenancies, EraseListings(P), EraseLeases(L), EraseTenancies(T)
  PROVE  /\ status' \in [Properties -> Status]
         /\ moderation' \in [Properties -> Moderation]
         /\ leaseStatus' \in [Leases -> LeaseStatus]
         /\ leaseProperty' \in [Leases -> Properties \cup {Null}]
         /\ leaseTenant' \in [Leases -> Users \cup {Null}]
         /\ signed' \in [Leases -> BOOLEAN]
         /\ tenancy' \in [Tenancies -> TenancyState]
         /\ confirmed' \in [Tenancies -> BOOLEAN]
         /\ UNCHANGED <<tenancyProperty, tenancyTenant>>
BY DEF TypeOK, EraseListings, EraseLeases, EraseTenancies, Status, Moderation,
       LeaseStatus, TenancyState

\* The rows a cascade leaves, and the requests still in flight about them.
LEMMA EraseRows ==
  ASSUME IInv, NEW L \in SUBSET Leases, NEW T \in SUBSET Tenancies,
         EraseLeases(L), EraseTenancies(T),
         \A v \in Workers : inflight'[v] # Null => inflight'[v] = inflight[v]
  PROVE  RowsOK' /\ RequestsOK'
<1> USE DEF IInv, EraseLeases, EraseTenancies
<1>1. \A l \in Leases : LeaseRowExists(l)' =>
        /\ LeaseRowExists(l) /\ leaseProperty'[l] = leaseProperty[l]
        /\ leaseTenant'[l] = leaseTenant[l] /\ signed'[l] = signed[l]
  BY DEF LeaseRowExists, TypeOK
<1>2. \A t \in Tenancies : RowExists(t)' => RowExists(t)
  BY DEF RowExists, TypeOK
<1>3. \A l \in Leases : leaseStatus[l] # "none" => leaseStatus'[l] # "none"
  BY DEF TypeOK
<1>4. RowsOK'
  BY <1>1, <1>2 DEF RowsOK, LeaseRowExists, RowExists
<1>5. RequestsOK'
  BY <1>1, <1>3 DEF RequestsOK, RequestOK, LeaseRowExists
<1>6. QED BY <1>4, <1>5

\* Deleting a listing takes its leases and tenancies along.
LEMMA WriteDeleteInv ==
  ASSUME IInv, NEW w \in Workers, WriteDelete(w)
  PROVE  IInv'
<1> DEFINE p == inflight[w].property
           L == {l \in Leases : leaseProperty[l] = p}
           T == TenanciesAt(p)
<1> USE DEF IInv, WriteDelete
<1>1. p \in Properties
  BY DEF Running, TypeOK, Request
<1>2. inflight' \in [Workers -> Request \cup {Null}]
      /\ \A v \in Workers : inflight'[v] # Null => inflight'[v] = inflight[v]
  BY FinishOthers
<1>3. EraseListings({p}) /\ EraseLeases(L) /\ EraseTenancies(T) /\ T \in SUBSET Tenancies
  BY DEF TenanciesAt
<1>4. TypeOK'
  BY <1>1, <1>2, <1>3, EraseType DEF TypeOK
<1>5. RowsOK' /\ RequestsOK'
  BY <1>2, <1>3, EraseRows
<1>6. \A l \in Leases : signed[l] => (l \in L <=> l \in T)
  BY DEF LeaseRecords, SignedLeaseRecorded, TenanciesAt, Tenancies
<1>7. LeaseRecords'
  BY <1>3, <1>6, EraseRecords
<1>8. \A q \in Properties : status'[q] = "OCCUPIED" =>
        q # p /\ status[q] = "OCCUPIED" /\ currentTenant'[q] = currentTenant[q]
  BY <1>1 DEF TypeOK, EraseListings
<1>9. \A t \in Tenancies : tenancyProperty[t] # p => tenancy'[t] = tenancy[t]
  BY DEF EraseTenancies, TenanciesAt
<1>10. OccupancyRecorded'
  BY <1>3, <1>8, <1>9 DEF OccupancyRecorded, RecordsOccupant, EraseTenancies
<1>11. QED BY <1>4, <1>5, <1>7, <1>10

\* Deleting an account takes its listings, leases and tenancies along.
LEMMA DeleteAccountInv ==
  ASSUME IInv, NEW u \in Users, DeleteAccount(u)
  PROVE  IInv'
<1> DEFINE P == {p \in Properties : OwnerOf[p] = u}
           L == {l \in Leases : leaseTenant[l] = u \/ leaseProperty[l] \in P}
           T == {t \in Tenancies : tenancyTenant[t] = u \/ tenancyProperty[t] \in P}
<1> USE DEF IInv, DeleteAccount
<1>1. EraseListings(P) /\ EraseLeases(L) /\ EraseTenancies(T)
  OBVIOUS
<1>2. TypeOK'
  BY <1>1, EraseType DEF TypeOK
<1>3. RowsOK' /\ RequestsOK'
  BY <1>1, EraseRows
<1>4. \A l \in Leases : signed[l] => (l \in L <=> l \in T)
  BY DEF LeaseRecords, SignedLeaseRecorded, Tenancies
<1>5. LeaseRecords'
  BY <1>1, <1>4, EraseRecords
<1>6. ASSUME NEW q \in Properties, status'[q] = "OCCUPIED"
      PROVE  \E t \in Tenancies : RecordsOccupant(t, q)'
  <2>1. OwnerOf[q] # u /\ status[q] = "OCCUPIED"
    BY <1>1, <1>6 DEF EraseListings, TypeOK, Exists
  <2>2. PICK t \in Tenancies : RecordsOccupant(t, q)
    BY <2>1 DEF OccupancyRecorded
  <2>3. t \in T <=> tenancyTenant[t] = u
    BY <2>1, <2>2 DEF RecordsOccupant
  <2>4. /\ tenancyTenant'[t] = tenancyTenant[t] /\ tenancyProperty'[t] = q
        /\ tenancy'[t] = IF t \in T /\ tenancy[t] \in {"open", "ended"} THEN "erased" ELSE tenancy[t]
    BY <1>1, <2>2 DEF EraseTenancies, RecordsOccupant
  <2>5. currentTenant'[q] = IF currentTenant[q] = u THEN Null ELSE currentTenant[q]
    BY <2>1
  <2>6. u \notin accounts' /\ (tenancyTenant[t] \notin accounts => tenancyTenant[t] \notin accounts')
    OBVIOUS
  <2>7. QED BY <2>2, <2>3, <2>4, <2>5, <2>6 DEF RecordsOccupant
<1>7. OccupancyRecorded'
  BY <1>6 DEF OccupancyRecorded
<1>8. QED BY <1>2, <1>3, <1>5, <1>7

\* An offer touches nothing but its own row.
LEMMA CreateLeaseInv ==
  ASSUME IInv, NEW l \in Leases, NEW p \in Properties, NEW u \in Users, CreateLease(l, p, u)
  PROVE  IInv'
<1> USE DEF IInv, CreateLease, listingVars, tenancyVars
<1>1. TypeOK'
  BY DEF TypeOK, LeaseStatus
<1>2. /\ leaseStatus'[l] = "OFFERED" /\ leaseProperty'[l] = p /\ leaseTenant'[l] = u
      /\ \A k \in Leases : k # l =>
           /\ leaseStatus'[k] = leaseStatus[k] /\ leaseProperty'[k] = leaseProperty[k]
           /\ leaseTenant'[k] = leaseTenant[k]
  BY DEF TypeOK
<1>3. ~signed[l]
  BY DEF LeaseRecords, LeaseRowExists
<1>4. RowsOK' /\ RequestsOK'
  BY <1>2 DEF RowsOK, RequestsOK, RequestOK, LeaseRowExists, RowExists
<1>5. LeaseRecords' /\ OccupancyRecorded'
  BY <1>2, <1>3 DEF LeaseRecords, SignedLeaseRecorded, TerminatedLeaseEnded, LeaseRowExists,
     RowExists, OccupancyRecorded, RecordsOccupant
<1>6. QED BY <1>1, <1>4, <1>5

\* A rejection, even one that comes after the signature, keeps the record.
LEMMA WriteRejectInv ==
  ASSUME IInv, NEW w \in Workers, WriteReject(w)
  PROVE  IInv'
<1> DEFINE l == inflight[w].id
<1> USE DEF IInv, WriteReject, listingVars, tenancyVars
<1>1. l \in Leases
  BY DEF Running, RequestsOK, RequestOK
<1>2. inflight' \in [Workers -> Request \cup {Null}]
      /\ \A v \in Workers : inflight'[v] # Null => inflight'[v] = inflight[v]
  BY FinishOthers
<1>3. TypeOK'
  BY <1>1, <1>2 DEF TypeOK, LeaseStatus
<1>4. /\ leaseStatus'[l] = "REJECTED" /\ LeaseRowExists(l)
      /\ \A k \in Leases : k # l => leaseStatus'[k] = leaseStatus[k]
  BY <1>1 DEF TypeOK
<1>5. RowsOK' /\ RequestsOK'
  BY <1>2, <1>4 DEF RowsOK, RequestsOK, RequestOK, LeaseRowExists, RowExists
<1>6. LeaseRecords' /\ OccupancyRecorded'
  BY <1>4 DEF LeaseRecords, SignedLeaseRecorded, TerminatedLeaseEnded, LeaseRowExists,
     RowExists, OccupancyRecorded, RecordsOccupant
<1>7. QED BY <1>3, <1>5, <1>6

\* Confirming changes one flag.
LEMMA ConfirmInv ==
  ASSUME IInv, NEW t \in Tenancies, ConfirmTenancy(t)
  PROVE  IInv'
<1> USE DEF IInv, ConfirmTenancy, listingVars, leaseVars
<1>1. TypeOK'
  BY DEF TypeOK
<1>2. \A s \in Tenancies : confirmed[s] => confirmed'[s]
  BY DEF TypeOK
<1>3. RowsOK' /\ RequestsOK'
  BY DEF RowsOK, RequestsOK, RequestOK, LeaseRowExists, RowExists
<1>4. LeaseRecords'
  BY <1>2 DEF LeaseRecords, SignedLeaseRecorded, TerminatedLeaseEnded, LeaseRowExists,
     RowExists, Tenancies
<1>5. OccupancyRecorded'
  BY DEF OccupancyRecorded, RecordsOccupant
<1>6. QED BY <1>1, <1>3, <1>4, <1>5

\* A decline removes one of markTenant's rows and no lease's.
LEMMA WriteDeclineInv ==
  ASSUME IInv, NEW w \in Workers, WriteDecline(w)
  PROVE  IInv'
<1> DEFINE m == inflight[w].id
<1> USE DEF IInv, WriteDecline, listingVars, leaseVars
<1>1. m \in Marks /\ m \in Tenancies /\ m \notin Leases
  BY DEF Running, RequestsOK, RequestOK, Tenancies
<1>2. inflight' \in [Workers -> Request \cup {Null}]
      /\ \A v \in Workers : inflight'[v] # Null => inflight'[v] = inflight[v]
  BY FinishOthers
<1>3. TypeOK'
  BY <1>1, <1>2 DEF TypeOK, TenancyState
<1>4. /\ tenancy'[m] = "declined"
      /\ \A t \in Tenancies : t # m =>
           tenancy'[t] = tenancy[t] /\ confirmed'[t] = confirmed[t]
  BY <1>1 DEF TypeOK
<1>5. RowsOK' /\ RequestsOK'
  BY <1>2, <1>4 DEF RowsOK, RequestsOK, RequestOK, LeaseRowExists, RowExists
<1>6. LeaseRecords'
  BY <1>1, <1>4 DEF LeaseRecords, SignedLeaseRecorded, TerminatedLeaseEnded, LeaseRowExists,
     RowExists, Tenancies
<1>7. OccupancyRecorded'
  BY <1>4 DEF OccupancyRecorded, RecordsOccupant
<1>8. QED BY <1>3, <1>5, <1>6, <1>7

-----------------------------------------------------------------------------
(* The invariant and what follows from it                                   *)

\* Every step keeps the invariant.
LEMMA NextInv == IInv /\ [Next]_vars => IInv'
<1> SUFFICES ASSUME IInv, [Next]_vars PROVE IInv'
  OBVIOUS
<1>1. CASE UNCHANGED vars
  BY <1>1, StatusOnlyInv DEF vars, listingVars, IInv, TypeOK, leaseVars, tenancyVars
<1>2. CASE SingleStatement
  BY <1>2, SingleListingInv, DeleteAccountInv, CreateLeaseInv, ConfirmInv DEF SingleStatement
<1>3. ASSUME NEW w \in Workers, ListingStep(w) PROVE IInv'
  BY <1>3, ReadInv, ListingStatusInv, WriteMarkInv, WriteVacateInv, WriteDeleteInv
     DEF ListingStep
<1>4. ASSUME NEW w \in Workers, ModerationStep(w) PROVE IInv'
  BY <1>4, ReadInv, ListingStatusInv DEF ModerationStep
<1>5. ASSUME NEW w \in Workers, LeaseStep(w) PROVE IInv'
  BY <1>5, ReadLeaseInv, WriteSignInv, WriteRejectInv, WriteTerminateInv DEF LeaseStep
<1>6. ASSUME NEW w \in Workers, DeclineStep(w) PROVE IInv'
  BY <1>6, ReadDeclineInv, WriteDeclineInv DEF DeclineStep
<1>7. ASSUME NEW w \in Workers, Abandon(w) PROVE IInv'
  BY <1>7, ListingStatusInv
<1>8. QED BY <1>1, <1>2, <1>3, <1>4, <1>5, <1>6, <1>7 DEF Next

\* The inductive invariant holds in every reachable state.
THEOREM Invariance == Spec => []IInv
BY InitInv, NextInv, PTL DEF Spec

\* Every column keeps its type, whatever requests overlap.
THEOREM TypeCorrect == Spec => []TypeOK
<1>1. IInv => TypeOK
  BY DEF IInv
<1>2. QED BY <1>1, Invariance, PTL

\* An OCCUPIED listing always has the tenancy record of the tenant it shows.
THEOREM OccupancyIsRecorded == Spec => []OccupancyRecorded
<1>1. IInv => OccupancyRecorded
  BY DEF IInv
<1>2. QED BY <1>1, Invariance, PTL

\* A signed lease never loses its confirmed tenancy record.
THEOREM SignedLeaseIsRecorded == Spec => []SignedLeaseRecorded
<1>1. IInv => SignedLeaseRecorded
  BY DEF IInv, LeaseRecords
<1>2. QED BY <1>1, Invariance, PTL

\* The record of a terminated lease has ended.
THEOREM TerminatedLeaseHasEnded == Spec => []TerminatedLeaseEnded
<1>1. IInv => TerminatedLeaseEnded
  BY DEF IInv, LeaseRecords
<1>2. QED BY <1>1, Invariance, PTL

\* The steps that write a tenancy row or a lease's status.
LEMMA TenancyWriters ==
  ASSUME [Next]_vars
  PROVE  \/ UNCHANGED <<leaseStatus, tenancyVars>>
         \/ \E w \in Workers :
              \/ WriteSign(w) \/ WriteReject(w) \/ WriteTerminate(w) \/ WriteVacate(w)
              \/ WriteDelete(w) \/ WriteDecline(w) \/ \E m \in Marks : WriteMark(w, m)
         \/ \E l \in Leases, p \in Properties, u \in Users : CreateLease(l, p, u)
         \/ \E u \in Users : DeleteAccount(u)
         \/ \E t \in Tenancies : ConfirmTenancy(t)
<1> USE DEF Start, leaseVars
<1> DEFINE quiet == UNCHANGED <<leaseStatus, tenancyVars>>
<1>1. CASE UNCHANGED vars
  BY <1>1 DEF vars
<1>2. CASE SingleStatement
  BY <1>2 DEF SingleStatement, CreateProperty, UpdateProperty, SuspendReported, BlockOwner
<1>3. ASSUME NEW w \in Workers, ListingStep(w)
      PROVE  \/ quiet \/ WriteVacate(w) \/ WriteDelete(w) \/ \E m \in Marks : WriteMark(w, m)
  BY <1>3 DEF ListingStep, ReadPublish, WritePublish, ReadToggle, WriteToggle, ReadMark,
     ReadVacate, ReadDelete
<1>4. ASSUME NEW w \in Workers, ModerationStep(w) PROVE quiet
  BY <1>4 DEF ModerationStep, ReadSetStatus, WriteSetStatus, ReadVerify, WriteVerify
<1>5. ASSUME NEW w \in Workers, LeaseStep(w)
      PROVE  quiet \/ WriteSign(w) \/ WriteReject(w) \/ WriteTerminate(w)
  BY <1>5 DEF LeaseStep, ReadSign, ReadReject, ReadTerminate, ReadLease
<1>6. ASSUME NEW w \in Workers, DeclineStep(w) \/ Abandon(w) PROVE quiet \/ WriteDecline(w)
  BY <1>6 DEF DeclineStep, ReadDecline, Abandon
<1>7. QED BY <1>1, <1>2, <1>3, <1>4, <1>5, <1>6 DEF Next

\* No step turns a terminated lease ACTIVE again: only WriteSign writes ACTIVE,
\* and the tenancy of a terminated lease makes its transaction abort.
THEOREM TerminationIsFinal == Spec => TerminatedIsFinal
<1>1. ASSUME IInv, [Next]_vars, NEW l \in Leases, leaseStatus[l] = "TERMINATED"
      PROVE  leaseStatus'[l] # "ACTIVE"
  <2>1. tenancy[l] = "ended"
    BY <1>1 DEF IInv, LeaseRecords, TerminatedLeaseEnded
  <2>2. CASE UNCHANGED leaseStatus
    BY <1>1, <2>2
  <2>3. ASSUME NEW w \in Workers, WriteSign(w) PROVE leaseStatus'[l] # "ACTIVE"
    <3>1. inflight[w].id # l
      BY <2>1, <2>3 DEF WriteSign, NoTenancyYet
    <3>2. QED BY <1>1, <2>3, <3>1 DEF WriteSign, IInv, TypeOK
  <2>4. ASSUME NEW w \in Workers, WriteReject(w) \/ WriteTerminate(w) \/ WriteDelete(w)
        PROVE  leaseStatus'[l] # "ACTIVE"
    BY <1>1, <2>4 DEF WriteReject, WriteTerminate, WriteDelete, EraseLeases, IInv, TypeOK
  <2>5. ASSUME NEW k \in Leases, NEW p \in Properties, NEW u \in Users, CreateLease(k, p, u)
        PROVE  leaseStatus'[l] # "ACTIVE"
    BY <1>1, <2>5 DEF CreateLease, IInv, TypeOK
  <2>6. ASSUME NEW u \in Users, DeleteAccount(u) PROVE leaseStatus'[l] # "ACTIVE"
    BY <1>1, <2>6 DEF DeleteAccount, EraseLeases
  <2>7. \/ UNCHANGED leaseStatus
        \/ \E w \in Workers :
             WriteSign(w) \/ WriteReject(w) \/ WriteTerminate(w) \/ WriteDelete(w)
        \/ \E k \in Leases, p \in Properties, u \in Users : CreateLease(k, p, u)
        \/ \E u \in Users : DeleteAccount(u)
    BY <1>1, TenancyWriters DEF WriteVacate, WriteDecline, WriteMark, ConfirmTenancy, leaseVars
  <2>8. QED BY <2>2, <2>3, <2>4, <2>5, <2>6, <2>7
<1>2. IInv /\ [Next]_vars =>
        [\A l \in Leases : leaseStatus[l] = "TERMINATED" => leaseStatus'[l] # "ACTIVE"]_vars
  BY <1>1
<1>3. QED BY <1>2, Invariance, PTL DEF Spec, TerminatedIsFinal

-----------------------------------------------------------------------------
(* The tables implement the book of tenancies                               *)

\* The leases that run.
ActiveLeases == {l \in Leases : leaseStatus[l] = "ACTIVE"}

\* Tenancy row t keeps its columns.
SameRow(t) ==
  /\ tenancy'[t] = tenancy[t]
  /\ tenancyProperty'[t] = tenancyProperty[t]
  /\ tenancyTenant'[t] = tenancyTenant[t]
  /\ confirmed'[t] = confirmed[t]

\* Only a row that exists is confirmed: a deleted one's flag is cleared, so no page
\* is opened with a stranger's agreement.
ConfirmedExist == \A t \in Tenancies : confirmed[t] => RowExists(t)

\* Every step that confirms a row finds or creates it; one that deletes a row
\* clears its flag.
LEMMA ConfirmedExistInv ==
  ASSUME IInv, ConfirmedExist, [Next]_vars
  PROVE  ConfirmedExist'
<1> USE DEF IInv, TypeOK
<1>1. CASE UNCHANGED tenancyVars
  BY <1>1 DEF ConfirmedExist, RowExists, tenancyVars
<1>2. ASSUME NEW w \in Workers, NEW m \in Marks, WriteMark(w, m) PROVE ConfirmedExist'
  BY <1>2 DEF WriteMark, ConfirmedExist, RowExists, Tenancies
<1>3. ASSUME NEW w \in Workers, WriteSign(w) PROVE ConfirmedExist'
  BY <1>3 DEF WriteSign, ConfirmedExist, RowExists
<1>4. ASSUME NEW S, EndTenancies(S), UNCHANGED confirmed PROVE ConfirmedExist'
  BY <1>4 DEF EndTenancies, ConfirmedExist, RowExists
<1>5. ASSUME NEW S, EraseTenancies(S) PROVE ConfirmedExist'
  BY <1>5 DEF EraseTenancies, ConfirmedExist, RowExists
<1>6. ASSUME NEW w \in Workers, WriteDecline(w) PROVE ConfirmedExist'
  BY <1>6 DEF WriteDecline, ConfirmedExist, RowExists
<1>7. ASSUME NEW t \in Tenancies, ConfirmTenancy(t) PROVE ConfirmedExist'
  BY <1>7 DEF ConfirmTenancy, ConfirmedExist, RowExists
<1>8. ASSUME NEW w \in Workers, WriteVacate(w) \/ WriteTerminate(w)
      PROVE  ConfirmedExist'
  BY <1>4, <1>8 DEF WriteVacate, WriteTerminate
<1>9. ASSUME NEW w \in Workers, WriteDelete(w) PROVE ConfirmedExist'
  BY <1>5, <1>9 DEF WriteDelete
<1>10. ASSUME NEW u \in Users, DeleteAccount(u) PROVE ConfirmedExist'
  BY <1>5, <1>10 DEF DeleteAccount
<1>11. ASSUME NEW w \in Workers, WriteReject(w) PROVE ConfirmedExist'
  BY <1>1, <1>11 DEF WriteReject
<1>12. ASSUME NEW l \in Leases, NEW p \in Properties, NEW u \in Users, CreateLease(l, p, u)
       PROVE  ConfirmedExist'
  BY <1>1, <1>12 DEF CreateLease
<1>13. QED
  BY <1>1, <1>2, <1>3, <1>6, <1>7, <1>8, <1>9, <1>10,
     <1>11, <1>12, TenancyWriters

\* The tenancies are always such.
LEMMA ConfirmedInvariance == Spec => []ConfirmedExist
<1>1. Init => ConfirmedExist
  BY DEF Init, ConfirmedExist
<1>2. QED BY <1>1, ConfirmedExistInv, Invariance, PTL DEF Spec

\* A row that keeps its columns keeps its page.
LEMMA SamePage ==
  ASSUME NEW t, SameRow(t)
  PROVE  PageOf(t)' = PageOf(t)
BY DEF SameRow, PageOf, RowExists

\* What is written of a page, in terms of its row.
LEMMA PageReads ==
  ASSUME NEW t
  PROVE  /\ RowExists(t) <=> PageOf(t).state \in {"open", "past"}
         /\ tenancy[t] = "open" <=> PageOf(t).state = "open"
         /\ RowExists(t) => /\ PageOf(t).home = tenancyProperty[t]
                            /\ PageOf(t).tenant = tenancyTenant[t]
         /\ ~RowExists(t) => PageOf(t).home = Null /\ PageOf(t).tenant = Null
         /\ tenancy[t] = "none" => PageOf(t) = Book!Blank
BY DEF PageOf, RowExists, Book!Blank, Book!Page

\* A lease that runs has a page with its home and tenant.
LEMMA RunningLeasePage ==
  ASSUME IInv, NEW l \in ActiveLeases
  PROVE  /\ RowExists(l)
         /\ PageOf(l).home = leaseProperty[l]
         /\ PageOf(l).tenant = leaseTenant[l]
BY PageReads DEF ActiveLeases, IInv, LeaseRecords, SignedLeaseRecorded

\* A step that leaves the tenancies and the running leases alone leaves the book.
LEMMA BookStands ==
  ASSUME UNCHANGED tenancyVars, ActiveLeases' = ActiveLeases
  PROVE  UNCHANGED Book!bookVars
<1>1. \A t \in Tenancies : PageOf(t)' = PageOf(t)
  BY SamePage DEF tenancyVars, SameRow
<1>2. QED BY <1>1 DEF Book!bookVars, ActiveLeases

\* Most handlers touch neither.
LEMMA BookUntouched ==
  ASSUME UNCHANGED <<leaseStatus, tenancyVars>>
  PROVE  UNCHANGED Book!bookVars
BY BookStands DEF ActiveLeases

\* A step that changes one row writes one page.
LEMMA OnePage ==
  ASSUME NEW t \in Tenancies, \A s \in Tenancies : s # t => SameRow(s)
  PROVE  [s \in Tenancies |-> PageOf(s)]' =
           [[s \in Tenancies |-> PageOf(s)] EXCEPT ![t] = PageOf(t)']
<1>1. \A s \in Tenancies : s # t => PageOf(s)' = PageOf(s)
  BY SamePage
<1>2. QED BY <1>1

\* signLease opens an agreed page in the step that puts the lease into force.
LEMMA SignMaps ==
  ASSUME IInv, NEW w \in Workers, WriteSign(w)
  PROVE  \E l \in Leases, p \in Properties, u \in Users : Book!Sign(l, p, u)
<1> USE DEF IInv, TypeOK
<1>1. PICK l \in Leases, p \in Properties, u \in Users :
        inflight[w].id = l /\ inflight[w].property = p /\ inflight[w].user = u
  BY DEF WriteSign, Running, RequestsOK, RequestOK, Request
<1>2. l \in Tenancies
  BY DEF Tenancies
<1>3. PageOf(l) = Book!Blank
  BY <1>1, PageReads DEF WriteSign, NoTenancyYet
<1>4. PageOf(l)' = Book!Page("open", p, u, TRUE)
  BY <1>1, <1>2 DEF WriteSign, PageOf, RowExists, Book!Page
<1>5. \A t \in Tenancies : t # l => SameRow(t)
  BY <1>1, <1>2 DEF WriteSign, SameRow
<1>6. ActiveLeases' = ActiveLeases \cup {l}
  BY <1>1 DEF WriteSign, ActiveLeases
<1>7. Book!Sign(l, p, u)
  BY <1>2, <1>3, <1>4, <1>5, <1>6, OnePage DEF Book!Sign, ActiveLeases
<1>8. QED BY <1>7

\* markTenant opens a page nobody has agreed to.
LEMMA MarkMaps ==
  ASSUME IInv, ConfirmedExist, NEW w \in Workers, NEW m \in Marks, WriteMark(w, m)
  PROVE  \E p \in Properties, u \in Users : Book!Mark(m, p, u)
<1> USE DEF IInv, TypeOK
<1>1. PICK p \in Properties, u \in Users :
        inflight[w].property = p /\ inflight[w].user = u
  BY DEF WriteMark, Running, RequestsOK, RequestOK, Request
<1>2. m \in Tenancies
  BY DEF Tenancies
<1>3. PageOf(m) = Book!Blank
  BY <1>1, PageReads DEF WriteMark
<1>4. ~confirmed[m]
  BY <1>2 DEF WriteMark, ConfirmedExist, RowExists
<1>5. PageOf(m)' = Book!Page("open", p, u, FALSE)
  BY <1>1, <1>2, <1>4 DEF WriteMark, PageOf, RowExists, Book!Page
<1>6. \A t \in Tenancies : t # m => SameRow(t)
  BY <1>1, <1>2 DEF WriteMark, SameRow
<1>7. ActiveLeases' = ActiveLeases
  BY DEF WriteMark, ActiveLeases, leaseVars
<1>8. Book!Mark(m, p, u)
  BY <1>2, <1>3, <1>5, <1>6, <1>7, OnePage DEF Book!Mark, ActiveLeases
<1>9. QED BY <1>8

\* Ending a set of tenancies turns the page of each one that was open.
LEMMA EndMaps ==
  ASSUME IInv, NEW S, EndTenancies(S),
         UNCHANGED <<tenancyProperty, tenancyTenant, confirmed>>
  PROVE  \A t \in Tenancies :
           PageOf(t)' = IF t \in S /\ PageOf(t).state = "open"
                          THEN [PageOf(t) EXCEPT !.state = "past"] ELSE PageOf(t)
<1> SUFFICES ASSUME NEW t \in Tenancies
             PROVE  PageOf(t)' = IF t \in S /\ PageOf(t).state = "open"
                                   THEN [PageOf(t) EXCEPT !.state = "past"] ELSE PageOf(t)
  OBVIOUS
<1>1. CASE t \in S /\ tenancy[t] = "open"
  <2>1. tenancy'[t] = "ended"
    BY <1>1 DEF EndTenancies
  <2>2. QED BY <1>1, <2>1 DEF PageOf, RowExists
<1>2. CASE ~(t \in S /\ tenancy[t] = "open")
  <2>1. SameRow(t)
    BY <1>2 DEF EndTenancies, SameRow
  <2>2. QED BY <1>2, <2>1, SamePage, PageReads
<1>3. QED BY <1>1, <1>2

\* vacateProperty ends what is open on the home.
LEMMA VacateMaps ==
  ASSUME IInv, NEW w \in Workers, WriteVacate(w)
  PROVE  \E p \in Properties : Book!Vacate(p)
<1>1. PICK p \in Properties : inflight[w].property = p
  BY DEF WriteVacate, Running, Request, IInv, TypeOK
<1>2. EndTenancies(TenanciesAt(p)) /\ ActiveLeases' = ActiveLeases
  BY <1>1 DEF WriteVacate, leaseVars, ActiveLeases
<1>3. \A t \in Tenancies : PageOf(t).state = "open" =>
        (t \in TenanciesAt(p) <=> PageOf(t).home = p)
  BY PageReads DEF TenanciesAt
<1>4. \A t \in Tenancies :
        PageOf(t)' = IF PageOf(t).home = p /\ PageOf(t).state = "open"
                       THEN [PageOf(t) EXCEPT !.state = "past"] ELSE PageOf(t)
  BY <1>2, <1>3, EndMaps DEF WriteVacate
<1>5. Book!Vacate(p)
  BY <1>2, <1>4 DEF Book!Vacate, Book!End, Book!Pages, ActiveLeases, Tenancies
<1>6. QED BY <1>5

\* terminateLease ends the lease's own page in the step that ends the lease.
LEMMA TerminateMaps ==
  ASSUME IInv, NEW w \in Workers, WriteTerminate(w)
  PROVE  \E l \in Leases : Book!Terminate(l)
<1>1. PICK l \in Leases : inflight[w].id = l
  BY DEF WriteTerminate, Running, IInv, RequestsOK, RequestOK
<1>2. RowExists(l)
  BY <1>1 DEF WriteTerminate, Running, IInv, RequestsOK, RequestOK, LeaseRecords,
     SignedLeaseRecorded
<1>3. PageOf(l).state \in {"open", "past"}
  BY <1>2, PageReads
<1>4. \A t \in Tenancies :
        PageOf(t)' = IF t \in {l} /\ PageOf(t).state = "open"
                       THEN [PageOf(t) EXCEPT !.state = "past"] ELSE PageOf(t)
  BY <1>1, EndMaps DEF WriteTerminate
<1>5. ActiveLeases' = ActiveLeases \ {l}
  BY <1>1 DEF WriteTerminate, ActiveLeases, IInv, TypeOK
<1>6. Book!Terminate(l)
  BY <1>3, <1>4, <1>5
     DEF Book!Terminate, Book!End, Book!Written, Book!Pages, ActiveLeases, Tenancies
<1>7. QED BY <1>6

\* A refusal that comes after the signature takes the lease out of force alone.
LEMMA RefuseMaps ==
  ASSUME IInv, NEW w \in Workers, WriteReject(w)
  PROVE  \E l \in Leases : Book!Refuse(l)
<1>1. PICK l \in Leases : inflight[w].id = l
  BY DEF WriteReject, Running, IInv, RequestsOK, RequestOK
<1>2. \A t \in Tenancies : PageOf(t)' = PageOf(t)
  BY SamePage DEF WriteReject, tenancyVars, SameRow
<1>3. ActiveLeases' = ActiveLeases \ {l}
  BY <1>1 DEF WriteReject, ActiveLeases, IInv, TypeOK
<1>4. Book!Refuse(l)
  BY <1>2, <1>3 DEF Book!Refuse, ActiveLeases
<1>5. QED BY <1>4

\* The tenant's confirmation agrees to one page.
LEMMA ConfirmMaps ==
  ASSUME IInv, NEW t \in Tenancies, ConfirmTenancy(t)
  PROVE  Book!Confirm(t)
<1> USE DEF IInv, TypeOK
<1>1. PageOf(t).state \in {"open", "past"}
  BY PageReads DEF ConfirmTenancy
<1>2. PageOf(t)' = Book!Page(PageOf(t).state, PageOf(t).home, PageOf(t).tenant, TRUE)
  BY DEF ConfirmTenancy, PageOf, RowExists, Book!Page
<1>3. \A s \in Tenancies : s # t => SameRow(s)
  BY DEF ConfirmTenancy, SameRow
<1>4. ActiveLeases' = ActiveLeases
  BY DEF ConfirmTenancy, ActiveLeases, leaseVars
<1>5. QED BY <1>1, <1>2, <1>3, <1>4, OnePage DEF Book!Confirm, Book!Written, ActiveLeases

\* A decline strikes one page an owner wrote, and never a lease's.
LEMMA DeclineMaps ==
  ASSUME IInv, NEW w \in Workers, WriteDecline(w)
  PROVE  \E m \in Marks : Book!Decline(m)
<1> USE DEF IInv, TypeOK
<1>1. PICK m \in Marks : inflight[w].id = m
  BY DEF WriteDecline, Running, RequestsOK, RequestOK
<1>2. m \in Tenancies
  BY DEF Tenancies
<1>3. PageOf(m).state \in {"open", "past"}
  BY <1>1, PageReads DEF WriteDecline
<1>4. PageOf(m)' = Book!Struck
  BY <1>1, <1>2 DEF WriteDecline, PageOf, RowExists, Book!Struck, Book!Page
<1>5. \A s \in Tenancies : s # m => SameRow(s)
  BY <1>1, <1>2 DEF WriteDecline, SameRow
<1>6. ActiveLeases' = ActiveLeases
  BY DEF WriteDecline, ActiveLeases, leaseVars
<1>7. Book!Decline(m)
  BY <1>2, <1>3, <1>4, <1>5, <1>6, OnePage DEF Book!Decline, Book!Written, ActiveLeases
<1>8. QED BY <1>7

\* Deleting a set of tenancies strikes the page of each one that existed.
LEMMA EraseMaps ==
  ASSUME IInv, NEW S, EraseTenancies(S)
  PROVE  \A t \in Tenancies :
           PageOf(t)' = IF t \in S /\ PageOf(t).state \in {"open", "past"}
                          THEN Book!Struck ELSE PageOf(t)
<1> SUFFICES ASSUME NEW t \in Tenancies
             PROVE  PageOf(t)' = IF t \in S /\ PageOf(t).state \in {"open", "past"}
                                   THEN Book!Struck ELSE PageOf(t)
  OBVIOUS
<1>1. CASE t \in S /\ RowExists(t)
  <2>1. tenancy'[t] = "erased"
    BY <1>1 DEF EraseTenancies, RowExists
  <2>2. PageOf(t)' = Book!Struck
    BY <2>1 DEF PageOf, RowExists, Book!Struck, Book!Page
  <2>3. QED BY <1>1, <2>2, PageReads
<1>2. CASE ~(t \in S /\ RowExists(t))
  <2>1. SameRow(t)
    BY <1>2 DEF EraseTenancies, SameRow, RowExists, IInv, TypeOK
  <2>2. QED BY <1>2, <2>1, SamePage, PageReads
<1>3. QED BY <1>1, <1>2

\* Deleting a set of leases takes the ones that run out of force.
LEMMA EraseLeasesMaps ==
  ASSUME IInv, NEW S \in SUBSET Leases, EraseLeases(S)
  PROVE  ActiveLeases' = ActiveLeases \ S
BY DEF EraseLeases, ActiveLeases, IInv, TypeOK

\* A deleted listing takes its pages and its running lease with it.
LEMMA DeleteMaps ==
  ASSUME IInv, NEW w \in Workers, WriteDelete(w)
  PROVE  \E p \in Properties : Book!Delete(p)
<1>1. PICK p \in Properties : inflight[w].property = p
  BY DEF WriteDelete, Running, Request, IInv, TypeOK
<1> DEFINE L == {l \in Leases : leaseProperty[l] = p}
           S == {t \in Tenancies : PageOf(t).home = p}
<1>2. EraseLeases(L) /\ EraseTenancies(TenanciesAt(p))
  BY <1>1 DEF WriteDelete
<1>3. \A t \in Tenancies : PageOf(t).state \in {"open", "past"} =>
        (t \in TenanciesAt(p) <=> t \in S)
  BY PageReads DEF TenanciesAt
<1>4. \A t \in Tenancies :
        PageOf(t)' = IF t \in S /\ PageOf(t).state \in {"open", "past"}
                       THEN Book!Struck ELSE PageOf(t)
  BY <1>2, <1>3, EraseMaps
<1>5. ActiveLeases' = ActiveLeases \ L
  BY <1>2, EraseLeasesMaps
<1>6. \A l \in ActiveLeases : l \in L <=> l \in S
  BY RunningLeasePage DEF ActiveLeases, Tenancies
<1>7. ActiveLeases' = ActiveLeases \ S
  BY <1>5, <1>6
<1>8. Book!Delete(p)
  BY <1>4, <1>7
     DEF Book!Delete, Book!Strike, Book!Written, Book!Pages, ActiveLeases, Tenancies
<1>9. QED BY <1>8

\* A deleted account takes the pages that name it or one of its homes.
LEMMA LeaveMaps ==
  ASSUME IInv, NEW u \in Users, DeleteAccount(u)
  PROVE  \E owned \in SUBSET Properties : Book!Leave(u, owned)
<1> DEFINE owned == {p \in Properties : OwnerOf[p] = u}
           L == {l \in Leases : leaseTenant[l] = u \/ leaseProperty[l] \in owned}
           T == {t \in Tenancies : tenancyTenant[t] = u \/ tenancyProperty[t] \in owned}
           S == {t \in Tenancies : PageOf(t).tenant = u \/ PageOf(t).home \in owned}
<1>1. EraseLeases(L) /\ EraseTenancies(T)
  BY DEF DeleteAccount
<1>2. \A t \in Tenancies : PageOf(t).state \in {"open", "past"} => (t \in T <=> t \in S)
  BY PageReads
<1>3. \A t \in Tenancies :
        PageOf(t)' = IF t \in S /\ PageOf(t).state \in {"open", "past"}
                       THEN Book!Struck ELSE PageOf(t)
  BY <1>1, <1>2, EraseMaps
<1>4. ActiveLeases' = ActiveLeases \ L
  BY <1>1, EraseLeasesMaps
<1>5. \A l \in ActiveLeases : l \in L <=> l \in S
  BY RunningLeasePage DEF ActiveLeases, Tenancies
<1>6. ActiveLeases' = ActiveLeases \ S
  BY <1>4, <1>5
<1>7. Book!Leave(u, owned)
  BY <1>3, <1>6
     DEF Book!Leave, Book!Strike, Book!Written, Book!Pages, ActiveLeases, Tenancies
<1>8. owned \in SUBSET Properties
  OBVIOUS
<1>9. QED BY <1>7, <1>8

\* Every step of the tables is one step of the book, or none.
LEMMA BookStep ==
  ASSUME IInv, ConfirmedExist, [Next]_vars
  PROVE  [Book!Next]_(Book!bookVars)
<1> USE DEF Book!Next, Book!Pages
<1>1. CASE UNCHANGED <<leaseStatus, tenancyVars>>
  BY <1>1, BookUntouched
<1>2. ASSUME NEW l \in Leases, NEW p \in Properties, NEW u \in Users, CreateLease(l, p, u)
      PROVE  [Book!Next]_(Book!bookVars)
  <2>1. UNCHANGED tenancyVars /\ ActiveLeases' = ActiveLeases
    BY <1>2 DEF CreateLease, ActiveLeases, IInv, TypeOK
  <2>2. QED BY <2>1, BookStands
<1>3. ASSUME NEW w \in Workers, WriteSign(w) \/ \E m \in Marks : WriteMark(w, m)
      PROVE  Book!Next
  BY <1>3, SignMaps, MarkMaps
<1>4. ASSUME NEW w \in Workers, WriteVacate(w) \/ WriteDelete(w) PROVE Book!Next
  BY <1>4, VacateMaps, DeleteMaps
<1>5. ASSUME NEW w \in Workers, WriteTerminate(w) \/ WriteReject(w) PROVE Book!Next
  BY <1>5, TerminateMaps, RefuseMaps
<1>6. ASSUME NEW w \in Workers, WriteDecline(w) PROVE Book!Next
  BY <1>6, DeclineMaps
<1>7. ASSUME NEW t \in Tenancies, ConfirmTenancy(t) PROVE Book!Next
  BY <1>7, ConfirmMaps DEF Tenancies
<1>8. ASSUME NEW u \in Users, DeleteAccount(u) PROVE Book!Next
  BY <1>8, LeaveMaps
<1>9. QED BY <1>1, <1>2, <1>3, <1>4, <1>5, <1>6, <1>7, <1>8, TenancyWriters

\* The lease, listing and account handlers implement the book of tenancies, whatever
\* requests overlap, are late or die.
THEOREM OccupancyImplementsBook == Spec => BookSpec
<1>1. Init => Book!Init
  <2> SUFFICES ASSUME Init PROVE Book!Init
    OBVIOUS
  <2>1. \A t \in Tenancies : PageOf(t) = Book!Blank
    BY PageReads DEF Init
  <2>2. {l \in Leases : leaseStatus[l] = "ACTIVE"} = {}
    BY DEF Init
  <2>3. QED BY <2>1, <2>2 DEF Book!Init, Book!Pages, Tenancies
<1>2. IInv /\ ConfirmedExist /\ [Next]_vars => [Book!Next]_(Book!bookVars)
  BY BookStep
<1>3. QED BY <1>1, <1>2, Invariance, ConfirmedInvariance, PTL DEF Spec, BookSpec, Book!Spec

-----------------------------------------------------------------------------
(* Late writes.  Whatever overlaps, what a handler read still holds when it  *)
(* writes unless it was overtaken; so the rules that overlapping requests    *)
(* break (the run occupancy_delete_race shows one broken) are broken by late *)
(* writes alone.                                                            *)

\* The history variable restrains nothing.
LEMMA HistoryAdds == HistorySpec => Spec
<1>1. HistoryInit => Init
  BY DEF HistoryInit
<1>2. [HistoryNext]_historyVars => [Next]_vars
  BY DEF HistoryNext, historyVars
<1>3. QED BY <1>1, <1>2, PTL DEF HistorySpec, Spec

\* What the handler of request r saw when it read.
StillTrue(r) ==
  /\ r.op = "publish" => status[r.property] \in {"DRAFT", "REJECTED"}
  /\ r.op = "toggle" => status[r.property] \in {"ACTIVE", "INACTIVE"}
  /\ r.op = "mark" => status[r.property] = "ACTIVE"
  /\ r.op = "vacate" => status[r.property] = "OCCUPIED"
  /\ r.op = "verify" => status[r.property] = "PENDING"
  /\ r.op = "delete" => status[r.property] # "SUSPENDED" /\ InForceAt(r.property) = {}
  /\ r.op \in {"setStatus", "verify"} /\ r.stamp => publishedAt[r.property] = 0
  /\ r.op = "decline" => ~confirmed[r.id]

\* What a request read that nothing overtook has not changed.
FreshReads ==
  \A w \in Workers : inflight[w] # Null /\ w \notin overtaken => StillTrue(inflight[w])

\* An admin's change of status stamps publishedAt only if it was null.
LEMMA ReadSetStatusFresh ==
  ASSUME NEW w \in Workers, NEW p \in Properties, NEW s \in Status, ReadSetStatus(w, p, s)
  PROVE  \E r : Start(w, r) /\ StillTrue(r)
<1> DEFINE b == s = "ACTIVE" /\ FirstPublishStamp(p)
           r == [Req("setStatus", p) EXCEPT !.next = s, !.stamp = b]
<1>1. b => publishedAt[p] = 0
  BY DEF FirstPublishStamp
<1>2. StillTrue(r)
  BY <1>1 DEF Req, StillTrue
<1>3. QED BY <1>2 DEF ReadSetStatus

\* Every Read* leaves a request whose handler saw what StillTrue says.
LEMMA ReadsFresh ==
  ASSUME NEW w \in Workers,
         \/ \E p \in Properties : \/ ReadPublish(w, p)
                                  \/ ReadToggle(w, p)
                                  \/ \E u \in Users : ReadMark(w, p, u)
                                  \/ ReadVacate(w, p)
                                  \/ ReadDelete(w, p)
                                  \/ \E s \in Status : ReadSetStatus(w, p, s)
                                  \/ ReadVerify(w, p)
         \/ \E l \in Leases : ReadSign(w, l) \/ ReadReject(w, l) \/ ReadTerminate(w, l)
         \/ \E t \in Tenancies : ReadDecline(w, t)
  PROVE  \E r : Start(w, r) /\ StillTrue(r)
<1>1. ASSUME NEW p \in Properties, ReadPublish(w, p) PROVE \E r : Start(w, r) /\ StillTrue(r)
  BY <1>1 DEF ReadPublish, Req, StillTrue
<1>2. ASSUME NEW p \in Properties, ReadToggle(w, p) PROVE \E r : Start(w, r) /\ StillTrue(r)
  <2> DEFINE s == IF status[p] = "ACTIVE" THEN "INACTIVE" ELSE "ACTIVE"
             r == [Req("toggle", p) EXCEPT !.next = s]
  <2>1. StillTrue(r)
    BY <1>2 DEF ReadToggle, Req, StillTrue
  <2>2. QED BY <1>2, <2>1 DEF ReadToggle
<1>3. ASSUME NEW p \in Properties, NEW u \in Users, ReadMark(w, p, u)
      PROVE  \E r : Start(w, r) /\ StillTrue(r)
  <2> DEFINE r == [Req("mark", p) EXCEPT !.user = u]
  <2>1. StillTrue(r)
    BY <1>3 DEF ReadMark, Req, StillTrue
  <2>2. QED BY <1>3, <2>1 DEF ReadMark
<1>4. ASSUME NEW p \in Properties, ReadVacate(w, p) PROVE \E r : Start(w, r) /\ StillTrue(r)
  BY <1>4 DEF ReadVacate, Req, StillTrue
<1>5. ASSUME NEW p \in Properties, ReadDelete(w, p) PROVE \E r : Start(w, r) /\ StillTrue(r)
  BY <1>5 DEF ReadDelete, Req, StillTrue, InForceAt
<1>6. ASSUME NEW p \in Properties, NEW s \in Status, ReadSetStatus(w, p, s)
      PROVE  \E r : Start(w, r) /\ StillTrue(r)
  BY <1>6, ReadSetStatusFresh
<1>7. ASSUME NEW p \in Properties, ReadVerify(w, p) PROVE \E r : Start(w, r) /\ StillTrue(r)
  <2> DEFINE b == FirstPublishStamp(p)
             r == [Req("verify", p) EXCEPT !.stamp = b]
  <2>1. FirstPublishStamp(p) => publishedAt[p] = 0
    BY DEF FirstPublishStamp
  <2>2. StillTrue(r)
    BY <1>7, <2>1 DEF ReadVerify, Req, StillTrue
  <2>3. QED BY <1>7, <2>2 DEF ReadVerify
<1>8. ASSUME NEW l \in Leases, ReadSign(w, l) \/ ReadReject(w, l) \/ ReadTerminate(w, l)
      PROVE  \E r : Start(w, r) /\ StillTrue(r)
  <2> PICK o \in {"sign", "reject", "terminate"}, s \in {"OFFERED", "ACTIVE"} : ReadLease(w, l, o, s)
    BY <1>8 DEF ReadSign, ReadReject, ReadTerminate
  <2> DEFINE r == [Req(o, leaseProperty[l]) EXCEPT !.id = l, !.user = leaseTenant[l]]
  <2>1. StillTrue(r)
    BY DEF Req, StillTrue
  <2>2. QED BY <2>1 DEF ReadLease
<1>9. ASSUME NEW t \in Tenancies, ReadDecline(w, t) PROVE \E r : Start(w, r) /\ StillTrue(r)
  BY <1>9 DEF ReadDecline, Req, StillTrue
<1>10. QED BY <1>1, <1>2, <1>3, <1>4, <1>5, <1>6, <1>7, <1>8, <1>9

\* A step begins a request, ends one, or is a single statement.
LEMMA StepKinds ==
  ASSUME Next
  PROVE  \/ \E w \in Workers : \E r : Start(w, r) /\ StillTrue(r)
         \/ \E w \in Workers : inflight[w] # Null /\ Finish(w)
         \/ UNCHANGED inflight
<1>1. CASE SingleStatement
  BY <1>1 DEF SingleStatement, CreateProperty, UpdateProperty, SuspendReported, BlockOwner,
     DeleteAccount, CreateLease, ConfirmTenancy
<1>2. ASSUME NEW w \in Workers,
             ListingStep(w) \/ ModerationStep(w) \/ LeaseStep(w) \/ DeclineStep(w) \/ Abandon(w)
      PROVE  \/ \E r : Start(w, r) /\ StillTrue(r)
             \/ inflight[w] # Null /\ Finish(w)
  <2>1. \/ WritePublish(w) \/ WriteToggle(w) \/ (\E m \in Marks : WriteMark(w, m))
        \/ WriteVacate(w) \/ WriteDelete(w) \/ WriteSetStatus(w) \/ WriteVerify(w)
        \/ WriteSign(w) \/ WriteReject(w) \/ WriteTerminate(w) \/ WriteDecline(w) \/ Abandon(w)
        \/ \E r : Start(w, r) /\ StillTrue(r)
    BY <1>2, ReadsFresh DEF ListingStep, ModerationStep, LeaseStep, DeclineStep
  <2>2. QED
    BY <2>1 DEF WritePublish, WriteToggle, WriteMark, WriteVacate, WriteDelete,
       WriteSetStatus, WriteVerify, WriteSign, WriteReject, WriteTerminate, WriteDecline,
       Abandon, Running
<1>3. QED BY <1>1, <1>2 DEF Next

\* What is not overtaken in a step stays true in it.
LEMMA StillTrueStands ==
  ASSUME NEW r, StillTrue(r), ~Overtakes(r)
  PROVE  StillTrue(r)'
<1>1. r.op \notin LeaseOps \cup {"decline"} =>
        /\ status'[r.property] = status[r.property]
        /\ publishedAt'[r.property] = publishedAt[r.property]
  BY DEF Overtakes
<1>2. r.op = "delete" => InForceAt(r.property)' = InForceAt(r.property)
  BY DEF Overtakes, InForceAt
<1>3. r.op = "decline" => confirmed'[r.id] = confirmed[r.id]
  BY DEF Overtakes
<1>4. QED BY <1>1, <1>2, <1>3 DEF StillTrue, LeaseOps

\* A step leaves every request it did not overtake with its reads true.
LEMMA FreshInv ==
  ASSUME IInv, FreshReads, [HistoryNext]_historyVars
  PROVE  FreshReads'
<1> inflight \in [Workers -> Request \cup {Null}]
  BY DEF IInv, TypeOK
<1>1. CASE UNCHANGED historyVars
  BY <1>1 DEF FreshReads, StillTrue, InForceAt, historyVars, vars, listingVars, leaseVars,
     tenancyVars
<1>2. ASSUME HistoryNext, NEW w \in Workers, inflight'[w] # Null, w \notin overtaken'
      PROVE  StillTrue(inflight[w])'
  <2> PICK r : r = inflight'[w]
    OBVIOUS
  <2>1. CASE inflight[w] = r
    <3>1. w \notin overtaken /\ ~Overtakes(inflight[w])
      BY <1>2, <2>1 DEF HistoryNext, Overtake
    <3>2. StillTrue(r)
      BY <1>2, <2>1, <3>1 DEF FreshReads
    <3>3. StillTrue(r)'
      BY <2>1, <3>1, <3>2, StillTrueStands
    <3>4. QED BY <3>3
  <2>2. CASE inflight[w] # r
    <3>1. PICK v \in Workers : \/ \E q : Start(v, q) /\ StillTrue(q)
                              \/ Finish(v)
      BY <1>2, <2>2, StepKinds DEF HistoryNext
    <3>2. ~Finish(v)
      BY <1>2, <2>2 DEF Finish
    <3>3. PICK q : Start(v, q) /\ StillTrue(q)
      BY <3>1, <3>2
    <3>4. v = w /\ q = r
      BY <2>2, <3>3 DEF Start
    <3>5. StillTrue(r)'
      BY <3>3, <3>4 DEF StillTrue, Start, InForceAt, listingVars, leaseVars, tenancyVars
    <3>6. QED BY <3>5
  <2>3. QED BY <2>1, <2>2
<1>3. QED BY <1>1, <1>2 DEF FreshReads

\* However requests overlap and die, what one that nothing overtook read is
\* still so.
THEOREM FreshReadsHold == HistorySpec => []FreshReads
<1>1. HistoryInit => FreshReads
  BY DEF HistoryInit, Init, FreshReads
<1>2. IInv /\ FreshReads /\ [HistoryNext]_historyVars => FreshReads'
  BY FreshInv
<1>3. QED BY <1>1, <1>2, HistoryAdds, Invariance, PTL DEF HistorySpec

\* publishedAt moves in the two approvals alone, and there only with a stamp.
LEMMA WhoStamps ==
  ASSUME IInv, [Next]_vars, NEW p \in Properties, publishedAt'[p] # publishedAt[p]
  PROVE  \E w \in Workers : /\ inflight[w] # Null
                            /\ inflight'[w] = Null
                            /\ inflight[w].op \in {"setStatus", "verify"}
                            /\ inflight[w].property = p
                            /\ inflight[w].stamp
<1>1. ~UNCHANGED publishedAt
  OBVIOUS
<1>2. \E w \in Workers : WriteSetStatus(w) \/ WriteVerify(w)
  <2> USE <1>1 DEF Start, listingVars
  <2>1. ~UNCHANGED vars
    BY DEF vars
  <2>2. ~SingleStatement
    BY DEF SingleStatement, CreateProperty, UpdateProperty, SuspendReported, BlockOwner,
       ConfirmTenancy, CreateLease, DeleteAccount
  <2>3. ASSUME NEW w \in Workers PROVE ~ListingStep(w)
    BY DEF ListingStep, ReadPublish, WritePublish, ReadToggle, WriteToggle, ReadMark,
       WriteMark, ReadVacate, WriteVacate, ReadDelete, WriteDelete
  <2>4. ASSUME NEW w \in Workers, ModerationStep(w) PROVE WriteSetStatus(w) \/ WriteVerify(w)
    BY <2>4 DEF ModerationStep, ReadSetStatus, ReadVerify
  <2>5. ASSUME NEW w \in Workers PROVE ~LeaseStep(w)
    BY DEF LeaseStep, ReadSign, WriteSign, ReadReject, WriteReject, ReadTerminate,
       WriteTerminate, ReadLease
  <2>6. ASSUME NEW w \in Workers PROVE ~DeclineStep(w) /\ ~Abandon(w)
    BY DEF DeclineStep, ReadDecline, WriteDecline, Abandon
  <2>7. QED BY <2>1, <2>2, <2>3, <2>4, <2>5, <2>6 DEF Next
<1>3. PICK w \in Workers : WriteSetStatus(w) \/ WriteVerify(w)
  BY <1>2
<1>4. /\ inflight[w] # Null
      /\ Finish(w)
      /\ inflight[w].op \in {"setStatus", "verify"}
      /\ Stamp(inflight[w].property, inflight[w].stamp)
  BY <1>3 DEF WriteSetStatus, WriteVerify, Running
<1>5. inflight[w].property = p /\ inflight[w].stamp
  BY <1>4 DEF Stamp, IInv, TypeOK
<1>6. inflight'[w] = Null
  BY <1>4 DEF Finish, IInv, TypeOK
<1>7. QED BY <1>4, <1>5, <1>6

\* Of the approvals of a listing only one that was overtaken stamps it again.
THEOREM RestampsAreLate == HistorySpec => RestampIsLate
<1>1. ASSUME IInv, FreshReads, [HistoryNext]_historyVars,
             NEW p \in Properties, publishedAt[p] # 0, publishedAt'[p] # publishedAt[p]
      PROVE  WrittenBy(overtaken, {"setStatus", "verify"}, p)
  <2>1. [Next]_vars
    BY <1>1 DEF HistoryNext, historyVars
  <2>2. PICK w \in Workers : /\ inflight[w] # Null
                             /\ inflight'[w] = Null
                             /\ inflight[w].op \in {"setStatus", "verify"}
                             /\ inflight[w].property = p
                             /\ inflight[w].stamp
    BY <1>1, <2>1, WhoStamps
  <2>3. w \in overtaken
    BY <1>1, <2>2 DEF FreshReads, StillTrue
  <2>4. QED BY <2>2, <2>3 DEF WrittenBy
<1>2. IInv /\ FreshReads /\ [HistoryNext]_historyVars =>
        [\A p \in Properties : publishedAt[p] # 0 /\ publishedAt'[p] # publishedAt[p] =>
           WrittenBy(overtaken, {"setStatus", "verify"}, p)]_historyVars
  BY <1>1
<1>3. QED BY <1>2, HistoryAdds, Invariance, FreshReadsHold, PTL DEF HistorySpec, RestampIsLate

\* The requests whose write moves a listing's status.
Movers == {"publish", "toggle", "mark", "vacate", "delete", "setStatus", "verify",
           "sign", "terminate"}

\* The handler of worker w finishes and moves the status of p.
Moves(w, p) ==
  /\ inflight[w] # Null
  /\ inflight'[w] = Null
  /\ inflight[w].op \in Movers
  /\ inflight[w].property = p
  /\ status'[p] = "gone" => inflight[w].op = "delete"

\* A write of the owner's or of an admin's moves the status of its own listing.
LEMMA ButtonMoves ==
  ASSUME IInv, NEW w \in Workers, NEW p \in Properties, status'[p] # status[p],
         \/ WritePublish(w) \/ WriteToggle(w) \/ WriteVacate(w) \/ WriteDelete(w)
         \/ WriteSetStatus(w) \/ WriteVerify(w) \/ \E m \in Marks : WriteMark(w, m)
  PROVE  Moves(w, p)
<1> USE DEF Moves, Movers, Running, Finish, IInv, TypeOK
<1>1. CASE WritePublish(w)
  BY <1>1 DEF WritePublish
<1>2. CASE WriteToggle(w)
  BY <1>2 DEF WriteToggle, RequestsOK, RequestOK, ButtonStatuses
<1>3. CASE WriteVacate(w)
  BY <1>3 DEF WriteVacate
<1>4. CASE WriteDelete(w)
  BY <1>4 DEF WriteDelete, EraseListings
<1>5. CASE WriteSetStatus(w)
  BY <1>5 DEF WriteSetStatus, RequestsOK, RequestOK, ButtonStatuses
<1>6. CASE WriteVerify(w)
  BY <1>6 DEF WriteVerify
<1>7. ASSUME NEW m \in Marks, WriteMark(w, m) PROVE Moves(w, p)
  BY <1>7 DEF WriteMark
<1>8. QED BY <1>1, <1>2, <1>3, <1>4, <1>5, <1>6, <1>7

\* So do a signature and a termination.
LEMMA LeaseMoves ==
  ASSUME IInv, NEW w \in Workers, NEW p \in Properties, status'[p] # status[p],
         WriteSign(w) \/ WriteTerminate(w)
  PROVE  Moves(w, p)
BY DEF Moves, Movers, Running, Finish, IInv, TypeOK, WriteSign, WriteTerminate

\* A listing's status is moved by its creation, by a suspension, with its owner's
\* account, or by one of those writes.
LEMMA WhoMoves ==
  ASSUME IInv, [Next]_vars, NEW p \in Properties, status'[p] # status[p]
  PROVE  \/ status[p] = "none" /\ status'[p] = "DRAFT"
         \/ status'[p] = "SUSPENDED"
         \/ OwnerOf[p] \notin accounts'
         \/ \E w \in Workers : Moves(w, p)
<1> DEFINE Goal == \/ status[p] = "none" /\ status'[p] = "DRAFT"
                   \/ status'[p] = "SUSPENDED"
                   \/ OwnerOf[p] \notin accounts'
                   \/ \E w \in Workers : Moves(w, p)
<1>1. ~UNCHANGED status
  OBVIOUS
<1>2. Next
  BY <1>1 DEF vars, listingVars
<1>3. CASE SingleStatement
  <2>1. ASSUME NEW q \in Properties, CreateProperty(q) PROVE Goal
    BY <2>1 DEF CreateProperty, IInv, TypeOK
  <2>2. ASSUME NEW q \in Properties, SuspendReported(q) PROVE Goal
    BY <2>2 DEF SuspendReported, IInv, TypeOK
  <2>3. ASSUME NEW u \in Users, BlockOwner(u) PROVE Goal
    BY <2>3 DEF BlockOwner
  <2>4. ASSUME NEW u \in Users, DeleteAccount(u) PROVE Goal
    BY <2>4 DEF DeleteAccount, EraseListings
  <2>5. QED
    BY <1>1, <1>3, <2>1, <2>2, <2>3, <2>4
       DEF SingleStatement, UpdateProperty, CreateLease, ConfirmTenancy, listingVars
<1>4. ASSUME NEW w \in Workers,
             ListingStep(w) \/ ModerationStep(w) \/ LeaseStep(w) \/ DeclineStep(w) \/ Abandon(w)
      PROVE  Goal
  <2> USE <1>1 DEF Start, listingVars
  <2>1. ASSUME ListingStep(w)
        PROVE  \/ WritePublish(w) \/ WriteToggle(w) \/ WriteVacate(w) \/ WriteDelete(w)
               \/ \E m \in Marks : WriteMark(w, m)
    BY <2>1 DEF ListingStep, ReadPublish, ReadToggle, ReadMark, ReadVacate, ReadDelete
  <2>2. ASSUME ModerationStep(w) PROVE WriteSetStatus(w) \/ WriteVerify(w)
    BY <2>2 DEF ModerationStep, ReadSetStatus, ReadVerify
  <2>3. ASSUME LeaseStep(w) PROVE WriteSign(w) \/ WriteTerminate(w)
    BY <2>3 DEF LeaseStep, ReadSign, ReadReject, WriteReject, ReadTerminate, ReadLease
  <2>4. ~DeclineStep(w) /\ ~Abandon(w)
    BY DEF DeclineStep, ReadDecline, WriteDecline, Abandon
  <2>5. QED BY <1>4, <2>1, <2>2, <2>3, <2>4, ButtonMoves, LeaseMoves
<1>5. QED BY <1>2, <1>3, <1>4 DEF Next

\* A listing leaves SUSPENDED by a moderator, a signature, a termination or with
\* its owner's account; by anyone else only if the suspension came after the read.
THEOREM SuspensionIsLifted == HistorySpec => SuspensionLifted
<1> DEFINE Lifted(p) ==
      \/ OwnerOf[p] \notin accounts'
      \/ WrittenBy(Workers, {"setStatus", "sign", "terminate"}, p)
      \/ WrittenBy(overtaken, {"publish", "toggle", "mark", "vacate", "verify", "delete"}, p)
<1>1. ASSUME IInv, FreshReads, [HistoryNext]_historyVars,
             NEW p \in Properties, status[p] = "SUSPENDED", status'[p] # "SUSPENDED"
      PROVE  Lifted(p)
  <2>1. [Next]_vars
    BY <1>1 DEF HistoryNext, historyVars
  <2>2. CASE OwnerOf[p] \notin accounts'
    BY <2>2
  <2>3. ASSUME NEW w \in Workers, Moves(w, p) PROVE Lifted(p)
    <3>1. CASE inflight[w].op \in {"setStatus", "sign", "terminate"}
      BY <2>3, <3>1 DEF Moves, WrittenBy
    <3>2. CASE inflight[w].op \notin {"setStatus", "sign", "terminate"}
      <4>1. inflight[w].op \in {"publish", "toggle", "mark", "vacate", "verify", "delete"}
        BY <2>3, <3>2 DEF Moves, Movers
      <4>2. w \in overtaken
        BY <1>1, <2>3, <4>1 DEF Moves, FreshReads, StillTrue
      <4>3. QED BY <2>3, <4>1, <4>2 DEF Moves, WrittenBy
    <3>3. QED BY <3>1, <3>2
  <2>4. QED BY <1>1, <2>1, <2>2, <2>3, WhoMoves
<1>2. IInv /\ FreshReads /\ [HistoryNext]_historyVars =>
        [\A p \in Properties : status[p] = "SUSPENDED" /\ status'[p] # "SUSPENDED" =>
           Lifted(p)]_historyVars
  BY <1>1
<1>3. QED BY <1>2, HistoryAdds, Invariance, FreshReadsHold, PTL
      DEF HistorySpec, SuspensionLifted

\* A listing under a signed lease is deleted only by a request that read it
\* before the signature, or with its owner's account.
LEMMA DeletionIsLate ==
  ASSUME IInv, FreshReads, [Next]_vars, NEW p \in Properties,
         InForceAt(p) # {}, Exists(p), status'[p] = "gone"
  PROVE  OwnerOf[p] \notin accounts' \/ WrittenBy(overtaken, {"delete"}, p)
<1>1. status'[p] # status[p]
  BY DEF Exists
<1>2. ASSUME NEW w \in Workers, Moves(w, p) PROVE WrittenBy(overtaken, {"delete"}, p)
  <2>1. inflight[w].op = "delete"
    BY <1>2 DEF Moves
  <2>2. w \in overtaken
    BY <1>2, <2>1 DEF Moves, FreshReads, StillTrue
  <2>3. QED BY <1>2, <2>1, <2>2 DEF Moves, WrittenBy
<1>3. QED BY <1>1, <1>2, WhoMoves

\* A confirmed tenancy is declined only by a request that read it unconfirmed.
LEMMA DeclineIsLate ==
  ASSUME IInv, ConfirmedExist, FreshReads, [Next]_vars, NEW t \in Tenancies,
         confirmed[t], tenancy'[t] = "declined"
  PROVE  \E w \in overtaken : Running(w, "decline") /\ inflight[w].id = t
<1>1. tenancy[t] \in {"open", "ended"}
  BY DEF ConfirmedExist, RowExists
<1>2. \E w \in Workers : WriteDecline(w)
  <2> USE <1>1 DEF IInv, TypeOK
  <2>1. ASSUME NEW w \in Workers, WriteSign(w) PROVE FALSE
    BY <2>1 DEF WriteSign
  <2>2. ASSUME NEW w \in Workers, NEW m \in Marks, WriteMark(w, m) PROVE FALSE
    BY <2>2 DEF WriteMark
  <2>3. ASSUME NEW S, EndTenancies(S) PROVE FALSE
    BY <2>3 DEF EndTenancies
  <2>4. ASSUME NEW S, EraseTenancies(S) PROVE FALSE
    BY <2>4 DEF EraseTenancies
  <2>5. ASSUME NEW w \in Workers, WriteVacate(w) \/ WriteTerminate(w) PROVE FALSE
    BY <2>3, <2>5 DEF WriteVacate, WriteTerminate
  <2>6. ASSUME NEW w \in Workers, WriteDelete(w) PROVE FALSE
    BY <2>4, <2>6 DEF WriteDelete
  <2>7. ASSUME NEW u \in Users, DeleteAccount(u) PROVE FALSE
    BY <2>4, <2>7 DEF DeleteAccount
  <2>8. UNCHANGED tenancy => FALSE
    BY <1>1
  <2>9. QED
    BY <2>1, <2>2, <2>5, <2>6, <2>7, <2>8, TenancyWriters
       DEF WriteReject, CreateLease, ConfirmTenancy, tenancyVars
<1>3. PICK w \in Workers : WriteDecline(w)
  BY <1>2
<1>4. Running(w, "decline") /\ inflight[w].id = t
  BY <1>1, <1>3 DEF WriteDecline, IInv, TypeOK
<1>5. w \in overtaken
  BY <1>4 DEF Running, FreshReads, StillTrue
<1>6. QED BY <1>4, <1>5

\* Evidence of a tenancy is lost to late writes alone, or with an account.
THEOREM EvidenceLossesAreLate == HistorySpec => EvidenceLossIsLate
<1> DEFINE Late ==
      /\ \A p \in Properties :
           InForceAt(p) # {} /\ Exists(p) /\ status'[p] = "gone" =>
             OwnerOf[p] \notin accounts' \/ WrittenBy(overtaken, {"delete"}, p)
      /\ \A t \in Tenancies :
           confirmed[t] /\ tenancy'[t] = "declined" =>
             \E w \in overtaken : Running(w, "decline") /\ inflight[w].id = t
<1>1. ASSUME IInv, ConfirmedExist, FreshReads, [HistoryNext]_historyVars
      PROVE  Late
  <2>1. [Next]_vars
    BY <1>1 DEF HistoryNext, historyVars
  <2>2. QED BY <1>1, <2>1, DeletionIsLate, DeclineIsLate
<1>2. IInv /\ ConfirmedExist /\ FreshReads /\ [HistoryNext]_historyVars => [Late]_historyVars
  BY <1>1
<1>3. QED BY <1>2, HistoryAdds, Invariance, ConfirmedInvariance, FreshReadsHold, PTL
      DEF HistorySpec, EvidenceLossIsLate
=============================================================================
