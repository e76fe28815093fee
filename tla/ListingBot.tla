------------------------------ MODULE ListingBot ------------------------------
(***************************************************************************)
(* One phone number listing its properties over WhatsApp.  The number's      *)
(* messages are answered one at a time (module Inbound): a turn reads the     *)
(* open conversation, edits its draft in memory and saves it by id.  Around   *)
(* the turns, and in no order with them, run an admin's interventions, the    *)
(* reminder tick, the release of listings held on an incomplete profile, and  *)
(* the notice that a listing went live.                                       *)
(*                                                                          *)
(* A draft is what is still missing from it.  The questions before the type    *)
(* (broker, email, business) are one gate, which may be met more than once.   *)
(* The saves of a turn that only move the conversation on are one; those of   *)
(* a new conversation, a restart and a publish are steps of their own.  One   *)
(* account per number, not blocked: its number may be cleared and typed back, *)
(* and goes to no other account meanwhile.                                    *)
(***************************************************************************)
EXTENDS Handlers

CONSTANTS
  Chain,      \* the request that is the number's turn; the others run beside it
  Convs,      \* conversation rows
  Listings,   \* property rows
  Parts       \* what a listing needs; "place" and any of "details", "photos"

ASSUME BotAssumption ==
  Chain \in Workers /\ "place" \in Parts /\ Null \notin Convs \cup Listings

VARIABLES
  conv,      \* WhatsAppConversation rows
  later,     \* per row, what its lastMessageAt tells: the rows written to after it
  listing,   \* Property.status; a rejected listing edited since is "EDITED"
  profile,   \* how far the account of the number is
  missed,    \* a hold the release did not see, or a release that died (history)
  torn       \* a conversation was written by an overtaken request (history)

botRows == <<conv, later, listing, profile, missed>>
botVars == <<botRows, torn, handlerVars>>

-----------------------------------------------------------------------------
Profiles == {"stranger", "candidate", "incomplete", "complete"}
Asking == {"QUESTIONNAIRE", "LOCATION", "PHOTOS"}
OpenStatuses == Asking \cup {"START", "PROPERTY_TYPE", "REVIEW", "CONFIRMATION"}
Submitted == {"VERIFICATION", "COMPLETED", "AWAITING_PROFILE"}

BotRow == [status : OpenStatuses \cup Submitted \cup {"none", "CANCELLED"},
           owner : BOOLEAN, typed : BOOLEAN, listing : Listings \cup {Null},
           pending : {"none", "link", "restart", "gate", "location", "edit"},
           missing : SUBSET Parts]

\* conversations.create with emptyDraft.
NewConv == [status |-> "START", owner |-> FALSE, typed |-> FALSE, listing |-> Null,
            pending |-> "none", missing |-> Parts]

\* A row that does not exist.  A cancelled one is worth no more but for its
\* listing: nobody reads its draft again.
Absent == [NewConv EXCEPT !.status = "none"]

BotInit ==
  /\ conv = [c \in Convs |-> Absent]
  /\ later = [c \in Convs |-> {}]
  /\ listing = [l \in Listings |-> "none"]
  /\ profile \in {"stranger", "candidate"}
  /\ missed = FALSE /\ torn = FALSE

IsOpen(c) == conv[c].status \in OpenStatuses

\* orderBy: lastMessageAt desc: of some rows, the one written to last.
LastOf(rows) == {c \in rows : later[c] \cap rows = {}}

\* The row a look-up finds: Null, for findOpen, if there is none.
findOpen == LET open == {c \in Convs : IsOpen(c)} IN IF open = {} THEN {Null} ELSE LastOf(open)
findLatest == LastOf({c \in Convs : conv[c].status # "none"})

\* lastMessageAt: now.
Touch(c) ==
  later' = [d \in Convs |-> IF d # c /\ conv[d].status # "none" THEN later[d] \cup {c} ELSE {}]

-----------------------------------------------------------------------------
(* Requests, all on the number; `row` is the conversation in memory, `held` the *)
(* conversations a release has read and not come to yet.                        *)

TurnOps == {"turn", "create", "identify"}
PublishOps == {"publish", "submit", "settle", "hold", "reask", "fail"}
ReleaseOps == {"release", "releasing", "relabel"}
Requests ==
  [op : TurnOps \cup PublishOps \cup ReleaseOps \cup {"retry", "nudge", "remind", "live"},
   on : {"number"}, conv : Convs \cup {Null}, row : BotRow, held : [Convs -> BotRow]]

\* No request is mistaken for "none".
ASSUME BotRequestAssumption == Null \notin Requests

Request(o, c, r) ==
  [op |-> o, on |-> "number", conv |-> c, row |-> r, held |-> [d \in Convs |-> Absent]]
Aside == Workers \ {Chain}
Memory(w) == inflight[w].row
Held(w) == {c \in Convs : inflight[w].held[c] # Absent}
\* On to the next step with what was read before.
Carry(w, r) == inflight' = [inflight EXCEPT ![w] = r] /\ UNCHANGED overtaken
Goes(w, o, r) == [inflight[w] EXCEPT !.op = o, !.row = r]

\* What a turn leaves to save: the row in memory, and the status and the
\* listing if they are patched.
Unpatched == "unpatched"
To(r, s) == [row |-> r, status |-> s, listing |-> Unpatched]
\* No listing is mistaken for a column left alone.
ASSUME PatchAssumption == Unpatched \notin Listings \cup {Null}

Patched(column, value) == IF column = Unpatched THEN value ELSE column

\* conversations.save: the whole draft, and of the columns only those patched.
\* userId and propertyType are only ever set.
Saved(c, o) ==
  [o.row EXCEPT !.status = Patched(o.status, conv[c].status),
                !.listing = Patched(o.listing, conv[c].listing),
                !.owner = @ \/ conv[c].owner,
                !.typed = @ \/ conv[c].typed]

Save(c, o) == conv' = [conv EXCEPT ![c] = Saved(c, o)] /\ Touch(c)
Cancelled(c) == [Absent EXCEPT !.status = "CANCELLED", !.listing = conv[c].listing]

-----------------------------------------------------------------------------
(* What a message can leave a conversation with, by what the bot waits for.    *)

NotPending(r) == [r EXCEPT !.pending = "none"]
Pending(r, kind) == To([r EXCEPT !.pending = kind], Unpatched)
Without(r, p) == [r EXCEPT !.missing = @ \ {p}]
Lacking(r, p) == [r EXCEPT !.missing = @ \cup {p}]
StatusFor(p) == CASE p = "place" -> "LOCATION" [] p = "photos" -> "PHOTOS" [] OTHER -> "QUESTIONNAIRE"

ShowReview(r) == To(r, "REVIEW")

\* askNext, askQuestion.  Which part comes next depends on the question just
\* answered.
Ask(r) ==
  IF r.missing = {} THEN {ShowReview(r)} ELSE {To(r, StatusFor(p)) : p \in r.missing}

\* askCurrent: the current question may be one already answered.
AskCurrent(r) ==
  IF ~ r.typed THEN {To(r, "PROPERTY_TYPE")} ELSE Ask(r) \cup {To(r, s) : s \in {r.status} \cap Asking}

\* beginQuestionnaire: the message may have carried answers and a place.
Begun(r) ==
  LET b == [NotPending(r) EXCEPT !.typed = TRUE] IN
  Ask(b) \cup Ask(Without(b, "details")) \cup {To([b EXCEPT !.pending = "location"], "LOCATION")}

\* handleTypeSelection.  Without an account it gets no further than the gate:
\* the look-up of the user throws.
TypeSelection(r) ==
  {Pending(r, "gate")} \cup (IF r.owner THEN {To(NotPending(r), "PROPERTY_TYPE")} \cup Begun(r) ELSE {})

\* A location message, a maps link, or a place typed where one is asked.
Located(r) ==
  IF r.typed THEN {To([r EXCEPT !.pending = "location"], "LOCATION")} ELSE {To(r, "PROPERTY_TYPE")}
Photographed(r) == IF "photos" \in Parts /\ r.owner THEN {To(Lacking(r, "photos"), Unpatched)} ELSE {}

\* resolveLocationConfirm, and resolvePincode where the place came without one: the
\* place is there and still pending.  resolveEditChoice and resolveEditQuestion.
PlaceReplies(r) ==
  LET there == Without(NotPending(r), "place") IN
  Ask(there) \cup {Pending(there, "location"), To(NotPending(r), Unpatched)}
EditReplies(r) ==
  {To(NotPending(r), "QUESTIONNAIRE")}
    \cup UNION {Ask(Lacking(NotPending(r), p)) : p \in Parts \ {"details"}}

\* handleReview, but for the publish button.
ReviewReplies(r) == Ask(r) \cup {Pending(r, "edit")}

\* handleAnswer and onMultiSelectReply.
Answers(r) ==
  CASE r.status \in {"START", "PROPERTY_TYPE"} -> TypeSelection(r)
    [] r.status \in Asking -> Ask(r) \cup UNION {Ask(Without(r, p)) : p \in {"details", "photos"}}
    [] OTHER -> ReviewReplies(r)

\* continueConversation, but for what links an account, cancels or publishes.
Replies(r) ==
  CASE r.pending = "link" -> {}
    [] r.pending = "restart" -> AskCurrent(NotPending(r)) \cup {Pending(r, "restart")}
    [] OTHER ->
         {Pending(r, "restart")} \cup Located(r) \cup Photographed(r)
         \cup (IF r.typed /\ r.missing = {} THEN {ShowReview(r)} ELSE {})
         \cup CASE r.pending = "none"     -> Answers(r)
                [] r.pending = "gate"     -> TypeSelection(NotPending(r))
                [] r.pending = "location" -> PlaceReplies(r)
                [] r.pending = "edit"     -> EditReplies(r)

-----------------------------------------------------------------------------
(* Turns.                                                                      *)

\* processTurn: reads the open conversation, or that there is none.
ReadTurn(w) ==
  /\ \E c \in findOpen : Begin(w, Request("turn", c, IF c = Null THEN Absent ELSE conv[c]))
  /\ UNCHANGED botRows

InTurn(w) == Running(w, "turn") /\ inflight[w].conv # Null
Answered(w, o) ==
  /\ Save(inflight[w].conv, o)
  /\ Commit(w)

Reply(w) ==
  /\ InTurn(w)
  /\ \E o \in Replies(Memory(w)) : Answered(w, o)
  /\ UNCHANGED <<listing, profile, missed>>

\* The account is known: the broker gate comes first.
Identified(r) == To([r EXCEPT !.owner = TRUE, !.pending = "gate"], "PROPERTY_TYPE")

\* resolveLinkOffer: "that's me" links the account, "no" opens a new one.
LinkReply(w) ==
  /\ InTurn(w)
  /\ Memory(w).pending = "link" /\ profile = "candidate"
  /\ profile' \in {"incomplete", "complete"}
  /\ Answered(w, Identified(Memory(w)))
  /\ UNCHANGED <<listing, missed>>

\* "cancel", or a broker turned away at the gate.
CancelReply(w) ==
  LET c == inflight[w].conv IN
  /\ InTurn(w)
  /\ Memory(w).pending # "link"
  /\ conv' = [conv EXCEPT ![c] = Cancelled(c)]
  /\ Touch(c)
  /\ Commit(w)
  /\ UNCHANGED <<listing, profile, missed>>

\* Mutant: the conversation started over is left open.
KeptOnRestart(c) == [conv[c] EXCEPT !.pending = "none"]

\* "Yes, start over": the conversation is cancelled, then another is started.
OnRestart(c) == Cancelled(c)

RestartReply(w) ==
  LET c == inflight[w].conv IN
  /\ InTurn(w)
  /\ Memory(w).pending = "restart"
  /\ conv' = [conv EXCEPT ![c] = OnRestart(c)]
  /\ Touch(c)
  /\ CommitThen(w, Goes(w, "create", Absent))
  /\ UNCHANGED <<listing, profile, missed>>

\* reopenForEdit: while the listing is not live.
Reopen(w) ==
  /\ Running(w, "turn") /\ inflight[w].conv = Null
  /\ \E c \in findLatest :
       /\ conv[c].status \in Submitted /\ conv[c].owner
       /\ conv[c].listing # Null /\ listing[conv[c].listing] # "ACTIVE"
       /\ \E o \in Ask(conv[c]) \cup {ShowReview(conv[c])} : Save(c, o)
  /\ Commit(w)
  /\ UNCHANGED <<listing, profile, missed>>

\* A row to create; a cancelled one that made no listing may as well be it.
Unused(c) ==
  /\ conv[c].status = "none" \/ (conv[c].status = "CANCELLED" /\ conv[c].listing = Null)
  /\ \A w \in Workers : ~ Idle(w) => inflight[w].conv # c /\ c \notin Held(w)

\* startConversation, when the number has no open conversation.
Create(w) ==
  /\ Running(w, "create") \/ (Running(w, "turn") /\ inflight[w].conv = Null)
  /\ \E c \in Convs :
       /\ Unused(c) \/ (Running(w, "create") /\ c = inflight[w].conv /\ conv[c].status = "CANCELLED"
                         /\ conv[c].listing = Null)
       /\ conv' = [conv EXCEPT ![c] = NewConv]
       /\ Touch(c)
       /\ CommitThen(w, Request("identify", c, NewConv))
  /\ UNCHANGED <<listing, profile, missed>>

\* ... and its second half: whose number is this?
Identify(w) ==
  /\ Running(w, "identify")
  /\ IF profile = "candidate"
       THEN Answered(w, To([Memory(w) EXCEPT !.pending = "link"], "START")) /\ UNCHANGED profile
       ELSE /\ profile' = IF profile = "stranger" THEN "incomplete" ELSE profile
            /\ Answered(w, Identified(Memory(w)))
  /\ UNCHANGED <<listing, missed>>

BotTurn(w) ==
  \/ Reply(w) \/ LinkReply(w) \/ CancelReply(w)
  \/ RestartReply(w) \/ Reopen(w) \/ Create(w) \/ Identify(w)

-----------------------------------------------------------------------------
(* Publishing: the owner's button, or an admin's retry.                        *)

\* The admin's "retry publish" and "nudge" read the conversation outside the chain.
ReadForAdmin(w) ==
  /\ \E c \in Convs, o \in {"retry", "nudge"} :
       /\ IsOpen(c)
       /\ o = "retry" => conv[c].status \in {"REVIEW", "CONFIRMATION"}
       /\ Begin(w, Request(o, c, conv[c]))
  /\ UNCHANGED botRows

\* doPublish: CONFIRMATION is saved and memory refreshed from the row.
Confirm(w) ==
  LET c == inflight[w].conv
      o == To(Memory(w), "CONFIRMATION") IN
  /\ \/ Running(w, "retry")
     \/ InTurn(w) /\ Memory(w).pending = "none" /\ Memory(w).status \in {"REVIEW", "CONFIRMATION"}
  /\ Save(c, o)
  /\ CommitThen(w, Goes(w, "publish", Saved(c, o)))
  /\ UNCHANGED <<listing, profile, missed>>

\* Mutant: an incomplete profile does not stop the submission from being reported.
RouteToSettle(full) == IF full THEN "submit" ELSE "settle"

\* profileHold: a complete profile submits, any other is held.
Route(full) == IF full THEN "submit" ELSE "hold"

\* publishFromConversation up to the listing: validate, then update the listing
\* the conversation made, or make one.
MakeListing(w) ==
  LET m == Memory(w)
      made(l) == Goes(w, Route(profile = "complete"), [m EXCEPT !.listing = l])
      again(r) == Carry(w, Goes(w, "reask", r)) /\ UNCHANGED listing IN
  /\ Running(w, "publish")
  /\ \/ m.missing # {} /\ again(m)
     \/ m.missing = {} /\ \E p \in Parts : again(Lacking(m, p))
     \/ /\ m.missing = {} /\ m.listing # Null
        /\ CASE listing[m.listing] = "ACTIVE"  -> Carry(w, Goes(w, "fail", m)) /\ UNCHANGED listing
             [] listing[m.listing] = "PENDING" -> Carry(w, Goes(w, "settle", m)) /\ UNCHANGED listing
             [] OTHER -> /\ Carry(w, made(m.listing))
                         /\ listing' = [listing EXCEPT ![m.listing] =
                                          IF @ = "REJECTED" THEN "EDITED" ELSE @]
     \/ /\ m.missing = {} /\ m.listing = Null
        /\ \E l \in {k \in Listings : listing[k] = "none"} :
             listing' = [listing EXCEPT ![l] = "DRAFT"] /\ Carry(w, made(l))
  /\ UNCHANGED <<conv, later, profile, missed>>

\* publishProperty: from DRAFT, or REJECTED and edited since; else it throws a
\* 4xx.  The conversation points at the listing only when this has succeeded.
Submittable(l) == listing[l] \in {"DRAFT", "EDITED"}
Submit(w) ==
  LET l == Memory(w).listing IN
  /\ Running(w, "submit")
  /\ \/ /\ Submittable(l)
        /\ listing' = [listing EXCEPT ![l] = "PENDING"]
        /\ Carry(w, Goes(w, "settle", Memory(w)))
     \/ /\ ~ Submittable(l)
        /\ UNCHANGED listing
        /\ Carry(w, Goes(w, "reask", Lacking(Memory(w), "place")))
     \/ UNCHANGED listing /\ Carry(w, Goes(w, "fail", Memory(w)))
  /\ UNCHANGED <<conv, later, profile, missed>>

\* Does a release of held listings still have to look for them?
ReleaseAhead == \E v \in Workers : Running(v, "release")

\* How a publish ends: submitted, held, asked again, or failed.
Ending(w) ==
  LET m == Memory(w)
      made(s) == [To(m, s) EXCEPT !.listing = m.listing] IN
  CASE Running(w, "settle") -> {made("VERIFICATION")}
    [] Running(w, "hold")   -> {made("AWAITING_PROFILE")}
    [] Running(w, "reask")  -> Ask(m)
    [] Running(w, "fail")   -> {ShowReview(m)}
    [] Running(w, "nudge")  -> AskCurrent(m)
    [] OTHER                -> {}

\* ... and an admin's nudge, which asks again what the conversation waits for.
EndPublish(w) ==
  /\ \E o \in Ending(w) : Answered(w, o)
  /\ missed' = (missed \/ (Running(w, "hold") /\ profile = "complete" /\ ~ ReleaseAhead))
  /\ UNCHANGED <<listing, profile>>

\* intervene('cancel'); its read and its write are taken as one.
AdminCancel(w) ==
  /\ Idle(w)
  /\ \E c \in Convs : IsOpen(c) /\ conv' = [conv EXCEPT ![c] = Cancelled(c)]
  /\ CommitAtOnce("number")
  /\ UNCHANGED <<later, listing, profile, missed>>

PublishStep(w) == Confirm(w) \/ MakeListing(w) \/ Submit(w) \/ EndPublish(w)

-----------------------------------------------------------------------------
(* What happens to the account and the listing elsewhere, and what follows.    *)

\* The code is entered, the link followed, or the profile edited, which may also
\* clear its phone: the release is started and not waited for.  (Later sign-ins and
\* edits start it again; where nothing is held that changes nothing.)
SaveProfile(w) ==
  /\ profile \in {"incomplete", "complete"}
  /\ profile' \in {"incomplete", "complete"}
  /\ profile' # profile \/ \E c \in Convs : conv[c].status = "AWAITING_PROFILE"
  /\ Begin(w, Request("release", Null, Absent))
  /\ UNCHANGED <<conv, later, listing, missed>>

\* onProfileCompleted: if the profile is complete, the held conversations with their drafts.
ReadHeld(w) ==
  LET held == {c \in Convs : conv[c].status = "AWAITING_PROFILE" /\ conv[c].listing # Null} IN
  /\ Running(w, "release")
  /\ IF held = {} \/ profile # "complete" THEN Drop(w)
     ELSE Reread(w, [inflight[w] EXCEPT !.op = "releasing", !.held = [c \in Convs |-> IF c \in held THEN conv[c] ELSE Absent]])
  /\ UNCHANGED botRows

\* The rest of them.
NextHeld(w, c) ==
  IF Held(w) = {c} THEN Commit(w)
  ELSE CommitThen(w, [inflight[w] EXCEPT !.op = "releasing", !.conv = Null, !.held[c] = Absent])

\* Mutant: a listing already submitted on the website is passed over.
SubmittedIsSkipped(s) == s \in {"DRAFT", "EDITED"}

\* A listing submitted on the website is re-labelled only.
Relabelled(s) == s # "REJECTED"

\* One of them: submitted unless it already is; a live one completes its
\* conversation; a rejection nobody answered throws, and ends the loop.
ReleaseOne(w) ==
  /\ Running(w, "releasing")
  /\ \E c \in Held(w) :
       LET l == inflight[w].held[c].listing IN
       IF listing[l] = "ACTIVE"
         THEN /\ conv' = [conv EXCEPT ![c].status = "COMPLETED"]
              /\ Touch(c) /\ NextHeld(w, c)
              /\ UNCHANGED <<listing, missed>>
         ELSE /\ UNCHANGED <<conv, later>>
              /\ IF Relabelled(listing[l])
                   THEN /\ listing' = [listing EXCEPT ![l] = "PENDING"]
                        /\ Carry(w, [inflight[w] EXCEPT !.op = "relabel", !.conv = c])
                        /\ UNCHANGED missed
                   ELSE /\ missed' = (missed \/ listing[l] = "REJECTED")
                        /\ UNCHANGED listing /\ Drop(w)
  /\ UNCHANGED profile

Relabel(w) ==
  LET c == inflight[w].conv IN
  /\ Running(w, "relabel")
  /\ Save(c, To(inflight[w].held[c], "VERIFICATION"))
  /\ NextHeld(w, c)
  /\ UNCHANGED <<listing, profile, missed>>

ReleaseStep == \E w \in Workers : ReadHeld(w) \/ ReleaseOne(w) \/ Relabel(w)

\* runHeldReminderTick: the draft is written back with a flag, as it was read.
ReadForReminder(w) ==
  /\ \E c \in Convs : conv[c].status = "AWAITING_PROFILE"
                        /\ Begin(w, Request("remind", c, conv[c]))
  /\ UNCHANGED botRows
Remind(w) ==
  LET c == inflight[w].conv IN
  /\ Running(w, "remind")
  /\ conv' = [conv EXCEPT ![c] = Saved(c, To(Memory(w), Unpatched))]
  /\ Commit(w)
  /\ UNCHANGED <<later, listing, profile, missed>>

\* An admin approves: onListingWentLive, if it gets that far, finds the
\* conversation and, the owner told, completes it by id.
Approve(w) ==
  /\ \E l \in Listings :
       /\ listing[l] = "PENDING"
       /\ listing' = [listing EXCEPT ![l] = "ACTIVE"]
       /\ \/ \E c \in Convs :
               /\ conv[c].listing = l /\ conv[c].owner /\ conv[c].status # "COMPLETED"
               /\ Begin(w, Request("live", c, Absent))
          \/ UNCHANGED handlerVars
  /\ UNCHANGED <<conv, later, profile, missed>>
Complete(w) ==
  LET c == inflight[w].conv IN
  /\ Running(w, "live")
  /\ conv' = [conv EXCEPT ![c].status = "COMPLETED"]
  /\ Touch(c)
  /\ Commit(w)
  /\ UNCHANGED <<listing, profile, missed>>

\* Rejected by an admin; edited or submitted on the website.
ListingMoves ==
  /\ \E l \in Listings, move \in {<<"PENDING", "REJECTED">>, <<"REJECTED", "EDITED">>,
                                  <<"DRAFT", "PENDING">>, <<"EDITED", "PENDING">>} :
       listing[l] = move[1] /\ listing' = [listing EXCEPT ![l] = move[2]]
  /\ UNCHANGED <<conv, later, profile, missed, handlerVars>>

\* The request dies, or the database or WhatsApp refuses its next step; a turn
\* that leaves everything as it was ends here too.
Dies(w) ==
  /\ Drop(w)
  /\ missed' = (missed \/ inflight[w].op \in ReleaseOps)
  /\ UNCHANGED <<conv, later, listing, profile>>

\* Bound: none begins while a request is overtaken, nor once one has written or a
\* release was missed.
BotRequest(w) ==
  ReadForAdmin(w) \/ SaveProfile(w) \/ ReadForReminder(w) \/ Approve(w)
    \/ AdminCancel(w)

BotAction ==
  \/ ~ torn /\ ~ missed /\ overtaken = {} /\ (ReadTurn(Chain) \/ \E w \in Aside : BotRequest(w))
  \/ BotTurn(Chain)
  \/ \E w \in Aside : Remind(w) \/ Complete(w)
  \/ \E w \in Workers : PublishStep(w) \/ Dies(w)
  \/ ReleaseStep \/ ListingMoves

BotNext == BotAction /\ torn' = (torn \/ (conv' # conv /\ ~ FreshStep))

\* A release once started goes on: Node runs what is ready.
BotFairness == WF_<<botRows, handlerVars>>(ReleaseStep)

BotSpec == BotInit /\ InflightInit /\ [][BotNext]_botVars /\ BotFairness

-----------------------------------------------------------------------------
BotTypeOK ==
  /\ conv \in [Convs -> BotRow]
  /\ later \in [Convs -> SUBSET Convs]
  /\ listing \in [Listings -> {"none", "DRAFT", "PENDING", "REJECTED", "EDITED", "ACTIVE"}]
  /\ profile \in Profiles /\ {missed, torn} \subseteq BOOLEAN
  /\ InflightOK /\ \A w \in Workers : Idle(w) \/ inflight[w] \in Requests

\* "The one conversation this number is in the middle of": a number that has at most
\* one open conversation keeps at most one, through restarts, re-opened submissions,
\* refused publishes and an admin's nudges; two can only come of a request whose
\* conversation was written under it (a nudge sent while the owner cancels).
OneOpenConversation == ~ torn => \A c, d \in Convs : IsOpen(c) /\ IsOpen(d) => c = d

\* A conversation that says its listing is with the moderators tells the truth: the
\* listing it points at has been submitted.  Holds on an incomplete profile, their
\* release, and publishes that fail half-way never leave one waiting on a draft.
QueuedIsSubmitted ==
  ~ torn => \A c \in Convs : conv[c].status = "VERIFICATION" =>
              conv[c].listing # Null /\ listing[conv[c].listing] \notin {"none", "DRAFT"}

\* "The profile just changed - release every WhatsApp listing held on it": a hold
\* whose owner's profile is complete ends, unless the profile loses its number again,
\* or the release died, threw on a rejection, or had looked before the hold was saved.
HeldIsReleased ==
  \A c \in Convs :
    conv[c].status = "AWAITING_PROFILE" /\ profile = "complete"
      ~> conv[c].status # "AWAITING_PROFILE" \/ profile # "complete" \/ missed
=============================================================================
