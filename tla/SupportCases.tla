----------------------------- MODULE SupportCases -----------------------------
(***************************************************************************)
(* The support desk: a case, its thread, its files, who holds it, and the   *)
(* audit timeline that is written in the same transaction as each change.   *)
(* The people are the one who opened the case, the owner of the listing it  *)
(* is about, and the admins.                                                *)
(***************************************************************************)
EXTENDS CaseRules, Handlers, Sequences

CONSTANTS
  Cases,          \* SupportCase ids
  Users,          \* accounts that may open a case or own its listing
  Admins,         \* staff accounts
  Openings,       \* bound: who opens a case, under which hat, about whose listing
  StaffMoves,     \* bound: the statuses staff are made to choose from
  Asks,           \* bound: the visibilities staff ask for, "unasked" for none
  MaxEntries      \* bound: messages and kinds of file on a case

ASSUME SupportAssumption ==
  /\ Null \notin Users \cup Admins \cup Cases
  /\ Users \cap Admins = {}
  /\ Openings \subseteq [by : Users \cup {Null}, as : Parties, owner : Users \cup {Null}]
  /\ StaffMoves \subseteq CaseStatus
  /\ Asks \subseteq Visibility \cup {"unasked"}
  /\ MaxEntries \in Nat

VARIABLES
  caseStatus,   \* SupportCase.status, "none" before the row exists
  opening,      \* createdById, openedAs and the owner of relatedProperty
  assignee,     \* assignedToId
  firstResponse, \* firstResponseAt is set
  resolvedAt,   \* 0 is null, 1 the first instant written, 2 any later one
  closedAt,     \* closedAt is set
  thread,       \* the SupportMessage rows, oldest first
  files,        \* the SupportAttachment rows, by who may see them
  timeline      \* what the SupportEvent rows say

caseVars == <<caseStatus, opening, assignee, firstResponse, resolvedAt, closedAt,
              thread, files, timeline>>
supportVars == <<caseVars, handlerVars>>

-----------------------------------------------------------------------------
\* partyRole: the hat a user holds on a case, or Null.
PartyRole(c, u) ==
  IF opening[c].by = u THEN opening[c].as
  ELSE IF opening[c].owner = u THEN "OWNER" ELSE Null

-----------------------------------------------------------------------------
NoOpening == [by |-> Null, as |-> "TENANT", owner |-> Null]
Unwritten == [to |-> "OPEN", holder |-> Null]

Message == [role : Roles, visibility : Visibility, read : BOOLEAN]
File == [role : Roles, visibility : Visibility]

SupportOps == {"reply", "setStatus", "attach", "openThread", "closing", "closeMine"}

\* What a handler decided on what it read of the case: by, the admin replying;
\* moves, the status its reply leads to ("none" for no change); claims, whether
\* the case was unassigned; already, whether resolvedAt was set;
\* seen, how many messages it read; next, the status or visibility it writes.
SupportRequest ==
  [op : SupportOps, on : Cases, by : Admins \cup {Null}, role : Roles,
   moves : CaseStatus \cup {"none"}, claims : BOOLEAN, already : BOOLEAN,
   seen : Nat, next : CaseStatus \cup Visibility \cup {Null}]

SupportInit ==
  /\ caseStatus = [c \in Cases |-> "none"]
  /\ opening = [c \in Cases |-> NoOpening]
  /\ assignee = [c \in Cases |-> Null]
  /\ firstResponse = [c \in Cases |-> FALSE]
  /\ resolvedAt = [c \in Cases |-> 0]
  /\ closedAt = [c \in Cases |-> FALSE]
  /\ thread = [c \in Cases |-> << >>]
  /\ files = [c \in Cases |-> {}]
  /\ timeline = [c \in Cases |-> Unwritten]
  /\ InflightInit

Blank(o, c, role) ==
  [op |-> o, on |-> c, by |-> Null, role |-> role, moves |-> "none",
   claims |-> FALSE, already |-> FALSE, seen |-> 0, next |-> Null]

CaseExists(c) == caseStatus[c] # "none"

\* Mutant: a reply's assignment reaches the timeline, its move does not.
RecordedHolder(t, moved, holder) == [t EXCEPT !.holder = holder]

\* The SupportEvent rows of a write: the last status move and assignment.
Recorded(t, moved, holder) ==
  [to |-> IF moved = "none" THEN t.to ELSE moved, holder |-> holder]

-----------------------------------------------------------------------------
(* Opening                                                                  *)

\* createCase: the row starts OPEN, unassigned; its CASE_CREATED event is left out.
NewCase(c, x) ==
  /\ caseStatus[c] = "none"
  /\ caseStatus' = [caseStatus EXCEPT ![c] = "OPEN"]
  /\ opening' = [opening EXCEPT ![c] = x]
  /\ CommitAtOnce(c)
  /\ UNCHANGED <<assignee, firstResponse, resolvedAt, closedAt, thread, files, timeline>>

\* createCaseForUser, in the hat the client names, about any listing or none.
OpenCase(c, x) == x.by # Null /\ NewCase(c, x)

\* linkReportToCase: the reporter is a renter, or anonymous.
OpenReportCase(c, x) == x.as = "TENANT" /\ x.owner # Null /\ NewCase(c, x)

-----------------------------------------------------------------------------
(* Messages                                                                 *)

\* An instant written over `at` by a handler that read whether it was set.
Stamp(at, wasSet) == IF wasSet THEN at ELSE IF at = 0 THEN 1 ELSE 2

\* Who writes on case c, and in which role: any admin, or a party.
Author(c) ==
  {[by |-> a, role |-> "ADMIN"] : a \in Admins}
    \cup {[by |-> Null, role |-> PartyRole(c, u)] : u \in {v \in Users : PartyRole(c, v) # Null}}

\* Mutant: a closed case still takes messages.
TakesWordsAlways(c) == CaseExists(c)

TakesWords(c) == CaseExists(c) /\ caseStatus[c] # "CLOSED"

\* The status a reply leads to, "none" where statusAfterReply is null.
MoveOnReply(c, role) ==
  IF StatusAfterReply(caseStatus[c], role) = caseStatus[c] THEN "none"
  ELSE StatusAfterReply(caseStatus[c], role)

\* AUTO-CLAIM: an unassigned case is claimed by the admin who writes on it.
Claims(c, role) == role = "ADMIN" /\ assignee[c] = Null

RoomFor(c) == Len(thread[c]) + Cardinality(files[c]) < MaxEntries

\* addMessage up to its $transaction.
ReadReply(w, c, x, asked) ==
  /\ TakesWords(c)
  /\ RoomFor(c)
  /\ Begin(w, [Blank("reply", c, x.role) EXCEPT
                 !.by = x.by, !.moves = MoveOnReply(c, x.role),
                 !.claims = Claims(c, x.role),
                 !.next = MessageVisibility(x.role, asked)])
  /\ UNCHANGED caseVars

\* Mutant: any staff message stops the clock, an internal note included.
VisibleStaffNote(r) == r.role = "ADMIN"

VisibleStaffReply(r) == r.role = "ADMIN" /\ r.next # "INTERNAL"

\* The $transaction of addMessage: the message, its event, and what it does to
\* the case on the strength of what was read.
WriteReply(w) ==
  LET r == inflight[w]  c == inflight[w].on IN
  /\ Running(w, "reply")
  /\ RoomFor(c)
  /\ thread' = [thread EXCEPT ![c] =
       Append(@, [role |-> r.role, visibility |-> r.next, read |-> FALSE])]
  /\ firstResponse' = [firstResponse EXCEPT ![c] = @ \/ VisibleStaffReply(r)]
  /\ caseStatus' = [caseStatus EXCEPT ![c] = IF r.moves = "none" THEN @ ELSE r.moves]
  /\ assignee' = [assignee EXCEPT ![c] = IF r.claims THEN r.by ELSE @]
  /\ timeline' = [timeline EXCEPT ![c] = Recorded(@, r.moves, IF r.claims THEN r.by ELSE @.holder)]
  /\ Commit(w)
  /\ UNCHANGED <<opening, resolvedAt, closedAt, files>>

-----------------------------------------------------------------------------
(* Status, assignment, files                                                *)

MoveTo(c, role, to) ==
  [Blank("setStatus", c, role) EXCEPT !.already = (resolvedAt[c] # 0), !.next = to]

\* changeStatus up to its $transaction; escalateCase is a move to ESCALATED.
ReadStatus(w, c, to) ==
  /\ CaseExists(c)
  /\ CanTransition(caseStatus[c], to)
  /\ Begin(w, MoveTo(c, "ADMIN", to))
  /\ UNCHANGED caseVars

\* Mutant: only resolving stamps resolvedAt, closing does not.
ResolvedByResolving(at, to, already) ==
  IF to = "RESOLVED" THEN Stamp(at, already) ELSE at

\* transitionStamps
ResolvedStamp(at, to, already) ==
  IF to \in Finished THEN Stamp(at, already) ELSE at

WriteStatus(w) ==
  LET r == inflight[w]  c == inflight[w].on IN
  /\ Running(w, "setStatus")
  /\ caseStatus' = [caseStatus EXCEPT ![c] = r.next]
  /\ resolvedAt' = [resolvedAt EXCEPT ![c] = ResolvedStamp(@, r.next, r.already)]
  /\ closedAt' = [closedAt EXCEPT ![c] = @ \/ r.next = "CLOSED"]
  /\ timeline' = [timeline EXCEPT ![c] = Recorded(@, r.next, @.holder)]
  /\ Commit(w)
  /\ UNCHANGED <<opening, assignee, firstResponse, thread, files>>

\* assignCase reads only what its event says it was; the write is unconditional.
AssignCase(c, holder) ==
  /\ CaseExists(c)
  /\ assignee' = [assignee EXCEPT ![c] = holder]
  /\ timeline' = [timeline EXCEPT ![c].holder = holder]
  /\ CommitAtOnce(c)
  /\ UNCHANGED <<caseStatus, opening, firstResponse, resolvedAt, closedAt, thread, files>>

ReadAttach(w, c, x, asked) ==
  /\ TakesWords(c)
  /\ Begin(w, [Blank("attach", c, x.role) EXCEPT
                !.next = FileVisibility(x.role, asked)])
  /\ UNCHANGED caseVars

WriteAttach(w) ==
  LET r == inflight[w]  c == inflight[w].on IN
  /\ Running(w, "attach")
  /\ RoomFor(c)
  /\ files' = [files EXCEPT ![c] = @ \cup {[role |-> r.role, visibility |-> r.next]}]
  /\ Commit(w)
  /\ UNCHANGED <<caseStatus, opening, assignee, firstResponse, resolvedAt, closedAt,
                 thread, timeline>>

-----------------------------------------------------------------------------
(* Reading is a write: it marks messages read                               *)

\* getCaseForUser up to its updateMany; closeMine starts with it too.
ReadThread(w, c, u, o) ==
  /\ CaseExists(c)
  /\ PartyRole(c, u) # Null
  /\ Begin(w, [Blank(o, c, PartyRole(c, u)) EXCEPT !.seen = Len(thread[c])])
  /\ UNCHANGED caseVars

\* Mutant: every staff message is marked, whoever it was for.
MarkedReadByAnyone(c, role) ==
  [i \in DOMAIN thread[c] |->
     [thread[c][i] EXCEPT !.read = @ \/ thread[c][i].role = "ADMIN"]]

\* The staff messages this hat can see are read; the ones it could not are not.
MarkedRead(c, role) ==
  [i \in DOMAIN thread[c] |->
     [thread[c][i] EXCEPT !.read = @ \/ (thread[c][i].role = "ADMIN"
                                         /\ CanSee(role, thread[c][i].visibility))]]

MarkThread(w) ==
  /\ thread' = [thread EXCEPT ![inflight[w].on] =
                  MarkedRead(inflight[w].on, inflight[w].role)]
  /\ UNCHANGED <<caseStatus, opening, assignee, firstResponse, resolvedAt, closedAt,
                 files, timeline>>

ShowThread(w) == Running(w, "openThread") /\ MarkThread(w) /\ Commit(w)

ShowBeforeClosing(w) ==
  /\ Running(w, "closing")
  /\ MarkThread(w)
  /\ CommitThen(w, [inflight[w] EXCEPT !.op = "closeMine"])

\* closeMine: changeStatus reads the case again.
CloseMine(w) ==
  LET r == inflight[w]  c == inflight[w].on IN
  /\ Running(w, "closeMine")
  /\ CanTransition(caseStatus[c], "CLOSED")
  /\ Reread(w, MoveTo(c, r.role, "CLOSED"))
  /\ UNCHANGED caseVars

DropSupport(w) == Drop(w) /\ UNCHANGED caseVars

-----------------------------------------------------------------------------
SupportNext ==
  \/ \E c \in Cases, x \in Openings : OpenCase(c, x) \/ OpenReportCase(c, x)
  \/ \E c \in Cases, holder \in Admins \cup {Null} : AssignCase(c, holder)
  \/ \E w \in Workers, c \in Cases :
       \/ \E x \in Author(c), asked \in Asks :
            ReadReply(w, c, x, asked) \/ ReadAttach(w, c, x, asked)
       \/ \E u \in Users, o \in {"openThread", "closing"} : ReadThread(w, c, u, o)
       \/ \E to \in StaffMoves : ReadStatus(w, c, to)
  \/ \E w \in Workers :
       \/ WriteReply(w) \/ WriteStatus(w) \/ WriteAttach(w)
       \/ ShowThread(w) \/ ShowBeforeClosing(w) \/ CloseMine(w)
       \/ DropSupport(w)

SupportSpec == SupportInit /\ [][SupportNext]_supportVars

-----------------------------------------------------------------------------
SupportTypeOK ==
  /\ InflightOK
  /\ \A w \in Workers :
       ~ Idle(w) /\ inflight[w].op \in SupportOps => inflight[w] \in SupportRequest
  /\ caseStatus \in [Cases -> CaseStatus \cup {"none"}]
  /\ opening \in [Cases -> [by : Users \cup {Null}, as : Parties,
                            owner : Users \cup {Null}]]
  /\ assignee \in [Cases -> Admins \cup {Null}]
  /\ firstResponse \in [Cases -> BOOLEAN]
  /\ resolvedAt \in [Cases -> 0..2]
  /\ closedAt \in [Cases -> BOOLEAN]
  /\ thread \in [Cases -> Seq(Message)]
  /\ files \in [Cases -> SUBSET File]
  /\ timeline \in [Cases -> [to : CaseStatus, holder : Admins \cup {Null}]]

\* The audit timeline never disagrees with the case, whatever overlapped: its
\* last status event names the status and its last assignment the assignee.
TimelineTellsCase ==
  \A c \in Cases : CaseExists(c) =>
    timeline[c].to = caseStatus[c] /\ timeline[c].holder = assignee[c]

\* The first-response clock is stopped by a reply a party can read, and only
\* by one: never by an internal note, however many admins write at once.
ClockStopsOnAnswer ==
  \A c \in Cases : firstResponse[c] <=>
    \E i \in DOMAIN thread[c] :
      thread[c][i].role = "ADMIN" /\ thread[c][i].visibility # "INTERNAL"

\* What one side of a case wrote or attached is never shown to a user who
\* holds the other side's hat on it.
SidesStayApart ==
  \A c \in Cases, u \in Users :
    LET hat == PartyRole(c, u) IN
    \A x \in files[c] \cup {[role |-> thread[c][i].role,
                             visibility |-> thread[c][i].visibility] :
                            i \in DOMAIN thread[c]} :
      hat # Null /\ x.role \in Parties /\ CanSee(hat, x.visibility) => x.role = hat

\* The support desk implements the case lifecycle: a case moves along the
\* table and keeps its instants, unless a writer had been overtaken.
L == INSTANCE CaseLifecycle WITH status <- caseStatus, closed <- closedAt,
                                 late <- overtaken
LifecycleSpec == L!Spec

\* A reply or a file that nothing has overtaken keeps the desk's rules: it does
\* not land on a closed case, it does not take a colleague's case over (only an
\* explicit assignment does), and a party who was waited for and answers is
\* waited for no longer.
RepliesKeepRules ==
  [][FreshStep => \A w \in Workers, c \in Cases :
       inflight'[w] # inflight[w] /\ <<thread, files>>' # <<thread, files>>
         /\ (Running(w, "reply") \/ Running(w, "attach")) /\ inflight[w].on = c =>
         /\ caseStatus[c] # "CLOSED"
         /\ assignee[c] # Null => assignee'[c] = assignee[c]
         /\ Running(w, "reply") =>
              <<inflight[w].role, caseStatus'[c]>> \notin
                {<<"TENANT", "WAITING_FOR_USER">>, <<"OWNER", "WAITING_FOR_OWNER">>}]_supportVars

\* Only messages the reader was sent are marked read: "a message they were
\* never shown must not count as read".  One that arrives while the case is being
\* read is marked too, so this too is a rule for handlers nothing overtook.
OnlyShownIsRead ==
  [][FreshStep => \A w \in Workers, c \in Cases : inflight'[w] # inflight[w] =>
       \A i \in DOMAIN thread[c] : thread'[c][i].read /\ ~ thread[c][i].read =>
         i <= inflight[w].seen /\ CanSee(inflight[w].role, thread[c][i].visibility)]_supportVars
=============================================================================
