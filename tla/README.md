# StayOnMap in TLA+

StayOnMap is a rental marketplace: a Node/Express backend over Postgres (through
Prisma), a React web client and an Expo mobile client, with a WhatsApp bot that
files listings. The rules of the product (who may publish, who lives where, which
visit was answered, whose number it is, who may read what) are all enforced in
`backend/src/features`. These modules model that part: TLC checks them on small
instances, and TLAPS proves the main results for every size.

Paths below are relative to `src/`; `features/` is `backend/src/features/`.

## How the backend runs, and what that means for a model

Every operation is an async HTTP handler of the same shape: it reads rows
(`findUnique`), checks them with early returns, and after one or more `await`s
writes by primary key. No row is locked, nothing is versioned, and isolation is
Postgres' default; only a Prisma `$transaction([...])` or a single statement is
atomic. So between the read and the write of one request any other request can
commit. This is where the hard behaviour lies: the per-handler unit tests of
`backend/tests` run one handler at a time against a mocked Prisma and cannot reach
it.

Hence the convention of every module here:

* `Read*` is the handler up to its last check. It leaves a record in `inflight`
  holding what the handler carries over the await (never more than that).
* `Write*` is the update, or the whole `$transaction`, and what follows.
* A handler that is one conditional statement (`updateMany ... where`) is one action.
* `Abandon`, `Crash`, `Refused`, `Drop*`, `Die` end a request between two steps: the
  process dies, or the database refuses the write.

Rules of such a system come in three strengths, and each property says which it has:

1. It holds **whatever overlaps and dies**. These are the invariants stated plainly,
   and all of them are proved.
2. It holds **for a step that nothing overtook**: between the handler's read and its
   write no other request committed to the row. `Handlers` keeps the set `overtaken`
   for this, and `FreshStep` says that no overtaken request takes part in a step. Such
   a property shows that the handler's checks are the right ones, and that the read-write
   window is the *only* way past them. `OccupancyHistory` and `VisitsHistory` do the same
   for the two modules that are not built on `Handlers`. There the properties are about
   every step of every overlapping behaviour, and name the late writers that break the
   rule (`RestampIsLate`, `EvidenceLossIsLate`, ...).
3. It holds **once the handlers have finished**. A handler may write and then recompute
   or announce something; `Settling` remembers whether one died half-way (`died`) or ran
   beside another (`overlapped`), and `Quiet` and `Settled` are the states in which
   the question makes sense.

`overtaken`, `died`, `overlapped`, and the variables marked (history) in the modules are
not program state; no guard of a handler reads them, except for the bounds that the MC
modules name (and that `ListingBot` names).

## Inventory

| Component | State | Operations | Hard part | What makes it correct | Module |
|---|---|---|---|---|---|
| Listing lifecycle (`properties`) | `Property.status`, `publishedAt`, `moderatedAt`/`ownerEditedAt`, `currentTenantId` | create, update, submit, toggle, mark tenant, vacate, delete | stale status at the write, three doors into ACTIVE | stamped again, or deleted with its evidence, by late writes only | `Occupancy`, `OccupancyHistory` |
| Leases (`leases`) | `Lease` | offer, sign, reject, terminate | sign against reject, terminate, vacate, delete | a signed lease keeps its record; a terminated one stays so | `Occupancy` |
| Tenancy records (`tenancies`) | `Tenancy` | start (mark, sign), end (vacate, terminate), confirm, decline | decline against confirm, end against delete | OCCUPIED always has a record; a record is opened once and never rewritten | `Occupancy`, `TenancyBook` |
| Tenancy reviews (`tenancies`) | `TenancyReview` | add, reveal | both sides at once | when both are in, both are told | `TenancyReviews` |
| Moderation (`admin`, `verification`) | the listing columns | approve, suspend, reject, block owner, verify | two approvals at once; owner buttons against suspension | a suspension is lifted by a moderator, a signature or a termination, else by a late write only | `Occupancy`, `OccupancyHistory` |
| Reports (`reports`) | `PropertyReport`, `ModerationAction`, `PropertyRiskScore` | submit, moderate, recompute | overlapping recalculations, counting reporters | nobody suspends alone; the badge follows the reports | `Reports` |
| Visits and stays (`appointments`, `availability`) | `Appointment`, `AvailabilityBlock` | request, instant book, accept, reject, move, counter-offer, cancel, block days | supersede after accept; double request; unique index per status | answers survive; requests are reopened, and nights sold twice, by late writes only | `Visits`, `VisitsHistory` |
| Chat, blocking (`chat`, `users/safety`) | `Conversation`, `Message`, `UserBlock`, notifications | open, send, read, edit, delete, block | edit against read, block against send | what was read is not rewritten; a block silences | `Chat` |
| Sessions (`auth`, `frontend/src/lib/api.js`) | `AuthSession`; the browser's token | login, refresh, sign out, revoke, cap | rotation races, lost answers, retry taken for replay | one rotation; the cap; a sign-out ends the session | `Sessions` |
| Phone numbers (`auth/phone`, `users`, `whatsapp/identity`) | `User.phone`, `phoneVerifiedAt`, `PhoneOtp` | codes, sign-in codes, profile save, link | four flows write one column | a badge is proven; one owner per number | `PhoneIdentity` |
| Support cases (`support`) | `SupportCase`, messages, files, events | open, reply, attach, claim, assign, move, close, read | transition validated on a stale status | the life cycle; the timeline tells the case; sides stay apart | `SupportCases` |
| Community reviews (`reviews`, `trust`) | `CommunityReview`, `TrustScore` | submit, edit, moderate, rescore | edit against a verdict; stale scores | what is public is counted | `Reviews` |
| Points (`points`) | `PointsLedger` | award, announce | level computed after the insert | each level told once | `Points` |
| WhatsApp inbound (`whatsapp`) | the chain of a number, `WhatsAppMessage` | receive, record, answer, mark | redelivery, crash in a turn | serial turns; every message settles | `Inbound` |
| WhatsApp bot (`whatsapp`) | `WhatsAppConversation`, its listing | question turns, edit, restart, publish, hold, release, remind, admin | publish in three steps beside a release | one open conversation; queued means submitted; holds end | `ListingBot` |
| Spatial cells (`spatial`) | the cell rows, a Redis lock | tick, page view, breaker | crash under the lock, starvation | what is stale is refreshed | `Refresher` |
| Saved searches, drafts, status history, notifications, push | `SavedSearch`, `ListingDraft`, logs | match, upsert, append | — | written, not decided from | — |
| Graph, areas, localities, places, metro, SEO, blog, analytics, host, uploads, AI | caches, logs, aggregates, I/O | — | — | not protocols | — |
| Web and mobile clients, infra | — | — | — | every rule they show is enforced above; the token protocol of `api.js` is in `Sessions` | — |

Components interact through the database rows (a mark, a signature, a verdict and a
report all write `Property.status`; three flows write `User.phone`), by direct calls
inside a handler (accepting a visit rejects its competitors, signing starts a tenancy
in the same transaction, a report opens a case), and by fire-and-forget calls
(notifications, alerts, scores, the release of held listings).

`PROJECT.json` lists the hazards of these components with the line where each one
bites and the property that watches it.

## Modules

### `Occupancy`: listings, leases, tenancies and moderation

One module, because the four write the same columns. State: `status`,
`publishedAt`, `moderation`, `currentTenant` of each listing; the `Lease` columns;
the `Tenancy` columns; `accounts`; `inflight`. All of `createProperty`,
`updateProperty`, `publishProperty`, `toggleStatus`, `markTenant`,
`vacateProperty`, `deleteProperty`, `setPropertyStatus`, the verification
approval, the suspensions by report and by blocking the owner, `deleteAccount`,
`createLease`, `signLease`, `rejectLease`, `terminateLease`, `confirmTenancy` and
`declineTenancy` are there, with the cascades and unique index of
`schema.prisma`.

Abstractions:

* `publishedAt` is a count of the instants written, saturating at `MaxStamps`, so
  that a second write shows. `moderatedAt` and `ownerEditedAt` are kept as their
  comparison, the only thing `editedSinceModeration` asks.
* A lease's tenancy is known by the lease's id (`Tenancy.leaseId` is unique); the
  rows of `markTenant` have ids from `Marks`. Ids are bounds on how many rows are
  ever created.
* Several reads of one handler with no write between them are one `Read*` step.
* `Contacts` is the set of pairs with a visit or a conversation. Both only grow while
  the two rows exist, so a constant is the state after they did.
* The columns of deleted rows are reset, but for those a tenancy is still spoken of by.
* The owner-is-blocked middleware, notifications, activity and status logs, points
  and search alerts are left out: none is read back by a handler that is here. Leaving
  out the middleware only adds behaviours.

### `OccupancyHistory`: which requests were overtaken

`Occupancy` with a history variable, `overtaken`: the requests in flight of which another
request has changed a column that their handler checked (`Overtakes` says which, per
handler). The rules that overlapping requests break are stated here, each with the late
writers that break it: a published listing stamped again (`schema.prisma:832`
says "Written once", and two approvals at once both write), a
suspension lifted, the evidence of a tenancy deleted. `SuspensionLifted` names besides
those that never look at the listing's status: a signature writes OCCUPIED over a
suspension and a termination writes ACTIVE over it (`leases/lease.service.js:84-87,151-154`).

### `TenancyBook`: what the tenancy records promise

The abstract specification of the records, with neither requests in flight nor listing
statuses: a book of pages, and the leases in force. A page is opened once by a signature
(agreed, and with its lease in force in the same step) or by an owner's word (not
agreed), names one home and one tenant for good, ends once, and is struck out by a
decline, if the owner asserted it, or with its listing or an account. `Occupancy`
implements it: `Book == INSTANCE TenancyBook WITH ...` maps each tenancy row to its page
(`PageOf`) and the ACTIVE leases to `inForce`. The steps that write tenancies are steps
of the book (`signLease` is `Sign`, `markTenant` is `Mark`, `vacateProperty` is `Vacate`,
`terminateLease` is `Terminate`, `rejectLease` is `Refuse`, `deleteProperty`
is `Delete`, `deleteAccount` is `Leave`, `confirmTenancy` and `declineTenancy` are
`Confirm` and `Decline`); all others leave the book alone. `BookSpec` is a property of
run `occupancy_overlap` and a theorem. It is what overlapping handlers could break and
no handler checks by itself: a confirmation in flight while the listing is deleted must
not bring a page back, and the page of a signed lease cannot be declined.

### `Visits`: visit and stay requests on one listing

State: the `Appointment` rows, the blocked days, `inflight`. Requests (with the
pending check and the calendar check), instant book, replies by renter and by owner,
the superseding rejection in its two steps (`findMany`, then `updateMany`), and
`setAvailability`. `@@unique([tenantId, propertyId, status])` guards every
write; `Refused` is the failure it causes, and leaves the earlier writes of
the same request in place, as the code does.

Slots are days. The clock and the owner's hours can only refuse an input, so
`Slots` and `Days` are the inputs that pass. The status of the listing, its risk
level and personal blocks can only refuse a request.

### `VisitsHistory`: which requests were overtaken

The same for `Visits`: a reply is overtaken when its row changes, a superseding rejection
when one of its targets does, a booking when a night it found free is blocked or accepted.
`ReopeningIsLate` and `DoubleBookingIsLate` name the writes that reopen a settled request
or sell a night twice.

### `Handlers`, `Settling`: what the other components have in common

`Handlers` is the life of a request in flight: `Begin`, `Reread` (go on after another
read), `Commit`, `CommitThen`, `CommitFirst`, `CommitAtOnce`, `Drop`, each with its effect
on `overtaken`. A component's action conjoins one of them with what it does to the
rows. `Settling` adds `died` and `overlapped`.

### `CaseRules`, `CaseLifecycle`, `SupportCases`: the support desk

`CaseRules` holds the pure functions of `lifecycle.js` and `visibility.js`.
`CaseLifecycle` is the abstract specification: a case opens, moves along the table, and
keeps the instants a service level is computed from; a writer that was overtaken may do
more, and the specification says exactly how much. `SupportCases` is the detailed
one: opening by a person or by a report, messages with auto-claim, first-response stamp
and `statusAfterReply`, files, `changeStatus` and escalation, assignment, reading (which
marks messages read) and the owner's or renter's own closing, which reads the case twice. `L ==
INSTANCE CaseLifecycle WITH ...` maps `status`, `closed` and `late`, and
`LifecycleSpec` is both a property of run `people` and a theorem.

A message is the role that wrote it and its visibility; the timeline is the last status
and the last holder that its events name, which is what staff read off it.

### `Chat`: conversations and blocks

Opening, sending (the transaction, then the notification that is not awaited),
`applyRead` as its two statements in either order, edit, delete, block and unblock.
A conversation's two sides are alike to the code.

### `Reviews`, `Reports`, `Points`, `TenancyReviews`: write, then recompute

* `Reviews`: `nextStatus`, the upsert, the verdict, and `recalculateTrustScore` as its
  read and its upsert. The stored score is the set of reviews it was computed from. No
  approved review is missing from it; one that a moderator has rejected may still be in it,
  since a rejection does not rescore (`ApprovedIsCounted` is an inclusion for that reason).
* `Reports`: a report, the risk row (a set of reports again), the badge computed from the
  risk row, the weighing of a suspension, and the one verdict per report. Scores and
  thresholds are the numbers of the code; fraud signals, a further input, are left out.
* `Points`: the ledger pays a thing once; the announcement is worked out from a total read
  after the insert. `LevelMin` and `Worth` are the code's numbers.
* `TenancyReviews`: one tenancy and its two reviews, the later of which lifts the blind.

### `Sessions`, `PhoneIdentity`: who is signed in, and whose number it is

* `Sessions` joins the server (`refreshSession`'s two look-ups and its rotation by id;
  `issueSession` with its read of the sessions beyond the cap and the deletion after it;
  the four ways to revoke) with the client that calls it (`tryRefresh` and its shared
  promise, one per tab; the storage all tabs of a browser share; sign-out). Answers may
  be lost, and pages reloaded. A token is a number; the hash is the identity on them.
  `lastUsedAt` is an order: `since` has, per row, the rows used after it.
* `PhoneIdentity`: the four flows that write `phone` and `phoneVerifiedAt`; a profile save
  may also clear the number (`Cleared`, the empty string). `proven` records, for the
  properties only, which number each person was shown to hold.

### `Inbound`, `ListingBot`: WhatsApp

* `Inbound`: webhook deliveries of one number, the promise chain that serialises them,
  the unique message id that stops duplicates, and the process dying at any point.
* `ListingBot`: given that turns are serial (that is `Inbound`'s theorem), the
  conversations of a number. A turn reads, edits its copy of the draft and saves it by
  id; publishing is create-or-update, submit, save; a hold waits for the profile; the
  release, the reminder, the admin and the approval of the listing run beside it. A
  profile becomes complete, and incomplete again when its number is cleared.
  `lastMessageAt` is an order again, in `later`. A draft is the set of its missing parts. `Replies` is what one message can leave a
  conversation with: one disjunct for each branch of `continueConversation`.

### `Refresher`: the spatial cells

The tick of each instance under its Redis lock, page views without it, the answers that
go stale by property type, the circuit breaker. The order of staleness is kept as a
relation, as `since` and `later` are: `backlog` relates any two stale answers, whether they
are in the table or are copies that a job has in memory. A job that writes a cell back puts
its copies in the places they had when it read them (`Placed`).

### `MCOccupancy`, `MCOccupancyHistory`, `MCVisits`, `MCVisitsHistory`, `MCPeople`, `MCBackground`

Instances: constants that are functions or sets, symmetry, and bounds. `MCPeople` and
`MCBackground` each hold several components that share no rows. A behaviour follows one of
them, chosen at the start (`focus`), while the others rest: their interleavings
would multiply states and could not break anything.

### `HandlerProofs`, `OccupancyProofs`, `VisitsProofs`, `SupportProofs`, `ChatProofs`, `SettlingProofs`, `AccountProofs`, `BackgroundProofs`

The TLAPS proofs, each extending what it is about.

## Runs

| Run | Shows | Bounds |
|---|---|---|
| `occupancy_late` | who stamps a published listing again, takes one out of SUSPENDED, or destroys evidence of a tenancy: only the writers named, most of them overtaken | 1 listing, owner and 1 tenant, 1 lease, 1 mark, 2 stamps, 2 requests in flight |
| `occupancy_overlap` | OCCUPIED always has its record, a signed lease its confirmed record, a terminated one an ended record; the tables implement `TenancyBook`; whatever overlaps and is lost | 1 listing, 3 accounts, 1 lease, 1 mark, 2 requests in flight |
| `visits_overlap` | answers are stamped, one pending request per renter, a superseding rejection spares what was answered, and only late writes reopen a request | 2 requests, 2 renters, 2 days, 2 in flight, crashes |
| `stays_late` | instant book: a taken night is sold only when it was taken or blocked between look and insert | 2 requests, 2 guests, 3 days, every block set, the owner switching instant book, 2 in flight (one of them not a booking at most) |
| `people` | the eight components in which people meet, each with two overlapping requests that may die; the support desk implements its life cycle | below |
| `background` | WhatsApp under redelivery and crashes, the bot beside admins and releases, the refresher under crashes and expired locks; safety and liveness | below |
| `occupancy_unapproved` | **violated**: a listing can be live without ever being approved | 1 listing, owner and 2 tenants, 2 leases, 1 mark, 1 request in flight |
| `occupancy_delete_race` | **violated**: deletion erases a lease signed, or a suspension made, after its checks | as `occupancy_overlap` |
| `visits_unsettled` | **violated**: an acceptance may leave its competitors pending for good | 3 requests, 2 renters, 3 days |
| `stays_counter_offer` | **violated**: a counter-offer into an accepted stay passes | 2 requests, 2 guests, 4 days |
| `review_verdict` | **violated**: two edits undo a moderator's verdict | 2 reviewers, 1 request in flight |
| `spatial_starvation` | **violated**: cells with slots by type starve the ones behind | 2 cells, 1 type, 1 cell per tick |

Why the bounds are enough. A rule about one listing is not influenced by another (no
handler reads two listings, but for `toggleUserBlock` and `deleteAccount`,
which treat each alike); the same goes for a case, a conversation between two people, a
listing's reviews and reports, a user's ledger and a phone number. Two tenants are
needed for one to be in the way of the other (run `occupancy_late` has one, since what it
asks is about owners, moderators and one lease); one mark beside a lease for vacate to end
two records. A second lease on an occupied home is a second record, which the mark is too;
for any number of them there are the proofs. Two requests in
flight are what a read-check-write race needs, since each request has one read and one
write (where a handler has more steps the second worker can split them). `MaxStamps` of 2
is the fewest in which a second stamp shows, and one write after it is like another.
Three days are the fewest in which one stay can begin where another ends, four in which one
lies inside another. `OneAnswer`, the bound of `stays_late`, lets two bookings overlap, or a
booking and an answer or calendar change, but not two answers: those are what
`visits_overlap` is about.

`people`: one case opened by a renter about another's listing, two admins, two entries
and three of the moves staff can make (the others are in `TRANSITIONS` alike; CLOSED is
reached through the users' own closing); one conversation, two messages; two reviewers; two
reports, severe ones and anonymous ones, on a listing with one verification level; four
awards whose sums lie below, on and above a level; two logins under a cap of one, three
tabs in two browsers, three tokens per session; two numbers, one account and
one that the bot may create, two codes. `Begun` stops new requests once one is overtaken,
or has died, or a history variable has discharged the properties: what
happened before is kept, and the requests in flight go on to their end. `FewCodes` allows
the second code only to requests that come one after another, and `FewClear` the clearing
of a number only to one that registered and had it verified. `FilesApart` lets a file be
attached to a case beside no request but its like: no request decides anything from the
files. The symmetry swaps the workers, and swaps all pairs of interchangeable rows at once (a behaviour sees
one of them only).

`background`: two messages and three deliveries (a redelivery behind another message),
two conversations of a number on one listing (a restart, and a second conversation that
comes to a listing the first has made), one part that may be missing, two instances, two
cells, one crash, a circuit that opens on the first failure. There is no SYMMETRY,
which is unsound for liveness: `FirstOfThose` takes the rows nobody has used in
their order. The refresher is followed until a `materialize` throws, which discharges its
property.

Deadlock is checked only for `Visits`. Elsewhere the model may really stop: every
account deleted, every row and token of the bounds used.

### Fairness

Users, admins, Meta and time are never assumed to do anything. What is assumed is that the
machinery keeps running, in `InboundFairness`, `BotFairness` and `RefreshFairness`:

* a turn that has begun, and a release of held listings that has begun, are carried on:
  Node runs whatever is ready, and no handler waits for a person;
* the interval of the refresher fires again and again while an instance is up, a tick or
  page view goes on, and Redis expires a key with a time to live.

All are weak: each step stays enabled until taken. Crashes, failures of the store
and of WhatsApp are left free, so the liveness properties (`EveryMessageSettles`,
`HeldIsReleased`, `StaleIsRefreshed`) name what a failure excuses (`lost`, `missed`,
`threw`). `HeldIsReleased` ends its claim too when the profile becomes incomplete again. Fairness also makes a stuck turn a violation: a chain that waited for itself
would show.

### What the six violated runs say

* `occupancy_unapproved`: `createLease` asks for no particular listing status and
  `signLease` writes OCCUPIED over whatever was there; `vacateProperty` then writes
  ACTIVE. A draft goes live with `publishedAt` null.
* `occupancy_delete_race`: the guards of `deleteProperty` are on a row read before the
  await, and the `delete` is by id.
* `visits_unsettled`: ann is rejected once, asks again, and bob's request for the day
  is accepted. Rejecting ann a second time would give her two REJECTED rows on this
  listing, so the `updateMany` fails, after the acceptance is committed. The same
  index lets a renter cancel on a listing only once.
* `stays_counter_offer`: `isDateUnavailable` compares check-in days; the night after
  an accepted check-in looks free to it.
* `review_verdict`: `nextStatus` looks at the current status. An edit of a FLAGGED or
  REJECTED review makes it PENDING, and an edit of a PENDING review may publish itself. The
  run has one request in flight, so this is no race; with two, a verdict that lands between
  the read and the upsert of an edit is lost as well.
* `spatial_starvation`: the tick refreshes a cell without a property type, so its slots by
  type stay stale, the cell stays the stalest, and each tick takes it again.

### Rules that overlapping requests break

The code writes by id after its check, so some of its rules do not survive overlap. Where
they do not, the property says for all overlapping behaviours which late writes break it:

| Rule | Broken by | Property |
|---|---|---|
| `publishedAt` is written once | an approval that read null before another approved | `RestampIsLate` |
| the owner's buttons do not lift a suspension | a button pressed before it and written after; also, at any time, a signature and a termination | `SuspensionLifted` |
| a deletion spares a signed lease, a decline a confirmed tenancy | a deletion that read before the signature, a decline that read before the confirmation | `EvidenceLossIsLate` (and run `occupancy_delete_race`) |
| a rejected or cancelled request rests | a reply, or a superseding rejection, that read it before | `ReopeningIsLate` |
| instant book sells no night twice | a booking that looked at the calendar before the night was taken | `DoubleBookingIsLate` |

That the late writes do occur in the runs was seen by leaving each excuse out of its
property: every one of them is then violated. The properties that name `FreshStep`,
`Settled`, `raced`, `spoiled`, `split` or `torn` are violated without that condition too;
the hazards in `PROJECT.json` give the lines.

### Other observations

Met while modelling, each at a line, without a run of its own:

* `features/whatsapp/engine.js:98`: a message is acknowledged and recorded before it is
  answered, and the duplicate check drops what Meta sends again: a process that dies in
  between leaves the message unanswered (`lost`).
* `features/whatsapp/listingEvents.js:87`: a hold that is saved just after a release has
  looked stays until the profile is touched again (`missed`). An admin's nudge that crosses
  the owner's cancel revives the conversation (`torn`).
* `features/support/supportCase.service.js:268`: a message with a visibility that is not
  allowed falls back to the first allowed one, PUBLIC for staff, where the comment at
  846-852 explains that files must not do that. Two admins who write at once on an
  unassigned case both claim it; the timeline tells the later.
* `features/reports/reports.service.js:97`: dismissed reports still corroborate a
  suspension. A second verdict on one report always fails on the unique index.
* `features/auth/phone.service.js`: `verifyPhoneOtp` takes the user's newest code of either
  flow, where the comment at 260-264 says matching the number keeps the two apart; that is
  done on one side only.
* `features/whatsapp/identity.service.js:10-11` says a verified number has at most one
  account; answering the offer with "new account" after the number was verified elsewhere
  makes a second (`split`). A profile save that crosses a verification leaves the badge on
  a number that was not proven (`spoiled`).
* `frontend/src/lib/api.js:34`: the catch of `tryRefresh` drops the refresh token on any
  failure, where `frontend/src/features/auth/context/AuthContext.jsx:24-29` says that a
  network blip must not log the user out. A refresh answered after the sign-out stores its
  token again.
* `features/points/points.service.js:73`: two awards at once announce a level twice, or not
  at all.

## Proofs

All theorems are about the component's own specification (`Spec`, `SupportSpec`, ...),
for any sets of people, rows and requests in flight, unless it says otherwise. They
assume only what the modules' named `ASSUME`s say: that row ids are not null, that no
request is mistaken for null, that bounds are numbers, that a conversation has two sides.
No theorem assumes that requests come one after another; where a property is about those
that do, it says so itself. An invariant is seldom inductive as
it stands, since whether a write keeps it depends on what its request read;
so each proof has an invariant of its own, with one lemma per write action, a lemma per
family of reads, and one that splits on `Next`.

* `OccupancyProofs`: `TypeCorrect`, `OccupancyIsRecorded`, `SignedLeaseIsRecorded`,
  `TerminatedLeaseHasEnded`, `TerminationIsFinal`. `IInv` adds `RowsOK` (existing rows have
  their foreign keys), `RequestsOK` (what each request in flight may still rely on: the
  columns it read from its lease never change; a lease it saw ACTIVE was signed; a tenancy it
  saw unconfirmed is one of `markTenant`'s; toggles and verdicts never write OCCUPIED) and
  `LeaseRecords` (a lease's tenancy is born confirmed, so no decline in flight can be
  about one, and a lease that took effect was signed).
  `OccupancyImplementsBook` is the refinement. It needs one more invariant, `ConfirmedExist`
  (no row that is gone is confirmed, so a page that is blank can be opened as it is), and
  `IInv` for the rest: a request to decline is about a row of `markTenant`'s, and a lease
  that a termination or a refusal takes out of force has the page its signature opened.
  Each write is then one step of the book, and every other action leaves it alone.
  `TerminationIsFinal` says of the lease's own columns what the book says of its page.
  `FreshReadsHold`, `RestampsAreLate`, `SuspensionIsLifted`, `EvidenceLossesAreLate` are
  about `OccupancyHistory`, with requests overlapping and dying in any way. The invariant
  `FreshReads` says that what a request read (`StillTrue`, per handler: the listing was not
  suspended, no lease was running, `publishedAt` was null) is still so unless the request is
  in `overtaken`: whoever changes it puts the request there. A write that breaks the rule
  contradicts what its handler read, so it is an overtaken one; the lemmas `ButtonMoves`,
  `LeaseMoves` and `WhoMoves` say which handler can have made a given change at all.
* `VisitsProofs`: `TypeCorrect`, `AnswersAreStamped`, `RequestsDoNotPile`,
  `SupersedeIsSparing`. `IInv` adds that a reply in flight writes only statuses of its
  author and is about a row that exists. That a superseding rejection spares the
  owner's answers then follows from `AnsweredStamped`: an answered row is a stamped row,
  and the `where respondedAt: null` of the `updateMany`, which the code calls
  belt-and-braces, is exactly what the argument needs. `FreshReadsHold`,
  `ReopeningsAreLate`, `DoubleBookingsAreLate` are about `VisitsHistory`, along the same line
  as for occupancy: the answered status and the free nights a handler saw are those it writes
  over, unless it was overtaken.
* `SupportProofs`: `SupportTypes`, `TimelineTells`, `ClockStops`, `SidesApart`,
  `RepliesKeepDeskRules`, `OnlyShownWordsAreRead`, and the refinement `SupportImplements`:
  every step of the desk is a step of `CaseLifecycle` or leaves it alone. A request that
  nothing overtook still has the case it read; one that was overtaken keeps only what
  never changes (cases are not deleted, `resolvedAt` is not cleared, a party's
  words stay with its side).
* `ChatProofs`: `ChatTypes`, `BlocksSilence`, `ReadWordsAreFinal`.
* `BackgroundProofs`: `InboundTypes`, `TurnsAreSerial`. The chain is right because the tail is
  behind every live turn, and so is whatever a waiting turn waits for: waiting for one is
  waiting for all.
  `BotTyped`, `OneConversationOpen`, `QueuedTellsTruth` are about the listing bot. `BotInv`
  adds `ErrandOK`, what a request is about at its step (only the chain takes turns; a
  submission has a listing, and one about to be reported has been submitted), and, as
  long as no overtaken request has written a conversation: the conversation of a
  turn under way is the only open one and none is open while a new one is about to be
  created (`OnlyOpen`); a request nothing overtook finds its conversation open, pointing at
  the listing it has in memory if at any (`StillOpen`); and a release that re-labels
  conversations without another look still holds the listings they point at (`HeldTrue`:
  a listing, once set, stays).
  `RefreshTypes` is about the refresher, for any cells, instances and property types:
  the order of staleness stays a total preorder of the answers that are stale (lemma
  `PlacedInOrder`: moving envelopes about keeps one), only jobs about to write
  hold copies, and no cell counts more failures than open its circuit, because a job that
  counts one read a count below the limit, whatever wrote in between.
  `BackgroundTypes` puts the three components together as run `background` does.
* `SettlingProofs`: `BlindLift`, `TenancyTyped`, `ScoreCountsApproved`, `ReviewsTyped`,
  `NoLoneSuspension`, `StandingIsCurrent`, `ReportsTyped`, `LevelsAreToldOnce`, `PointsTyped`. Where a
  property is about finished handlers, the invariant says what each handler at work still
  has due: whichever comes last does it. `LevelsAreToldOnce` holds for any set of awards:
  the total is the code's sum, counted by the worth of the ledger's rows, and an award adds
  its worth to it.
* `AccountProofs`: `PhoneTypes`, `BadgesAreProven`, `NumbersHaveOneOwner`, `RotatedOnce`,
  `SignedOutIsEnded`, `CapIsKept`, `SessionsTyped`. The invariant of sessions is about one session at a time: there is
  one answer on its way at most, one request that may still rotate it, one browser that holds its
  token, and the tokens of all of them fit what the row expects.
  `CapIsKept` is about all of them at once. A sign-in that has created its row sees every
  row when it looks for those beyond the cap, unless a later one is still to look; so
  once none is left to look, the rows that nobody has read for deletion are within the cap
  (`CapInv`), and refreshes that reorder rows in between change which ones, not how many.
  That the order of use is one (`UsedInOrder`) gives each set of rows its least recently
  used, by the library's well-foundedness of finite subsets.
  `PeopleTypes` puts the eight components together as run `people` does, and comes last
  because it rests on all their invariants (`PeopleInv`): a request under way belongs to
  the component that is followed, which keeps its own invariant, and the others, of which
  no request is under way, keep their rows.

`PROJECT.json` lists the theorems with the properties they state.

Every safety property of the passing runs is stated by a theorem. Only model-checked are
liveness and fairness (`EveryMessageSettles`, `HeldIsReleased`, `StaleIsRefreshed`), which
are out of the prover's reach, and the counterexamples of the violated runs.

## Not modelled

* Email codes, password reset, OAuth and the lockout counters: conditional statements on
  single rows, with nothing between.
* `processTurn`'s catch (`features/whatsapp/engine.js:112-118`) saves the draft as the
  failed turn left it in memory; which half of a turn's edits that is depends on where it
  threw. `ListingBot` ends such a turn with nothing saved.
* Question texts, parsing, media, prices and distances: data that no rule here
  depends on. Scores of places, graph features and recommendations: arithmetic over floats.
* Saved searches (a query at the first publication, which `publishedAt` counts),
  notifications and push (sent and forgotten, but for the MESSAGE notifications in `Chat`),
  listing drafts (one row upserted per user), the status history (a log nobody decides
  from), analytics, SEO, blog, host dashboards: nothing reads them back to decide.
* Uploads and the AI assistant: calls to other services.
* The web and mobile clients but for the token protocol: the rules they show are enforced
  by the backend. The infrastructure: configuration.
* Expiry by the clock, and the middleware that refuses blocked owners: they can only refuse.

## Plan

Done: `Occupancy`, `Visits`, the support desk with its refinement, chat, reviews, reports,
points, tenancy reviews, sessions, phone numbers, WhatsApp, the refresher, and the proofs
above.

Left: what would need more of the code, not more proof. First the home search (saved
searches matched at a publication) and the status history, if a handler ever decides
from them; then the second half of a failed bot turn.
