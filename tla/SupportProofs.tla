----------------------------- MODULE SupportProofs -----------------------------
(***************************************************************************)
(* TLAPS proofs about SupportCases, for any number of cases, people and     *)
(* requests in flight, however the handlers overlap and wherever they die.  *)
(***************************************************************************)
EXTENDS SupportCases, HandlerProofs, SequenceTheorems

USE SupportAssumption

-----------------------------------------------------------------------------
(* The inductive invariant                                                  *)

RowsTyped ==
  /\ caseStatus \in [Cases -> CaseStatus \cup {"none"}]
  /\ opening \in [Cases -> [by : Users \cup {Null}, as : Parties,
                            owner : Users \cup {Null}]]
  /\ assignee \in [Cases -> Admins \cup {Null}]
  /\ firstResponse \in [Cases -> BOOLEAN]
  /\ resolvedAt \in [Cases -> 0..2]
  /\ closedAt \in [Cases -> BOOLEAN]
  /\ thread \in [Cases -> Seq(Message)]
  /\ files \in [Cases -> SUBSET File]
  /\ timeline \in [Cases -> [to : CaseStatus, holder : Admins \cup {Null}]]

\* What a handler may still rely on, overtaken or not: a case is never deleted
\* and resolvedAt never cleared; a party's words stay with its own side.
RequestOK(r) ==
  /\ CaseExists(r.on)
  /\ r.op \in {"reply", "attach"} =>
       r.next \in Visibility /\ (r.role \in Parties => r.next = DefaultVisibility(r.role))
  /\ r.op = "reply" =>
       r.moves \in {"none", "IN_PROGRESS"} /\ (r.claims => r.by \in Admins)
  /\ r.op = "setStatus" => r.next \in Onward /\ (r.already => resolvedAt[r.on] # 0)

\* What it may rely on as long as nothing has overtaken it: the case is still
\* as its checks found it.
FreshOK(r) ==
  /\ r.op \in {"reply", "attach"} => caseStatus[r.on] # "CLOSED"
  /\ r.op = "reply" =>
       r.moves = MoveOnReply(r.on, r.role) /\ (r.claims => assignee[r.on] = Null)
  /\ r.op = "setStatus" =>
       CanTransition(caseStatus[r.on], r.next) /\ r.already = (resolvedAt[r.on] # 0)
  /\ r.op \in {"openThread", "closing"} => r.seen = Len(thread[r.on])

InOrder(w) ==
  ~ Idle(w) /\ inflight[w].op \in SupportOps =>
    /\ inflight[w] \in SupportRequest
    /\ RequestOK(inflight[w])
    /\ w \notin overtaken => FreshOK(inflight[w])

RequestsOK == \A w \in Workers : InOrder(w)

\* The timeline tells the case, before it exists too.
TimelineAgrees ==
  \A c \in Cases :
    /\ timeline[c].holder = assignee[c]
    /\ timeline[c].to = IF caseStatus[c] = "none" THEN "OPEN" ELSE caseStatus[c]

\* What a party wrote or attached is for its own side.
Private(x) == x.role \in Parties => x.visibility = DefaultVisibility(x.role)
PartyWordsPrivate ==
  \A c \in Cases : /\ \A i \in DOMAIN thread[c] : Private(thread[c][i])
                   /\ \A x \in files[c] : Private(x)

IInv ==
  /\ InflightOK /\ RowsTyped /\ RequestsOK
  /\ TimelineAgrees /\ ClockStopsOnAnswer /\ PartyWordsPrivate

-----------------------------------------------------------------------------
(* The rules                                                                *)

\* A party's message or file gets the visibility of its side, staff's any.
LEMMA VisibilityType ==
  ASSUME NEW role \in Roles, NEW asked \in Visibility \cup {"unasked"}
  PROVE  /\ MessageVisibility(role, asked) \in Visibility
         /\ FileVisibility(role, asked) \in Visibility
         /\ role \in Parties => /\ MessageVisibility(role, asked) = DefaultVisibility(role)
                                /\ FileVisibility(role, asked) = DefaultVisibility(role)
BY DEF Roles, Parties, Visibility, MessageVisibility, FileVisibility, Clamp, DefaultVisibility

\* A user's hat on a case is that of a party, or none.
LEMMA PartyRoleType ==
  ASSUME RowsTyped, NEW c \in Cases, NEW u \in Users
  PROVE  PartyRole(c, u) \in Parties \cup {Null}
BY DEF RowsTyped, PartyRole, Parties

\* Staff write as themselves, a party in its hat.
LEMMA AuthorType ==
  ASSUME RowsTyped, NEW c \in Cases, NEW x \in Author(c)
  PROVE  /\ x.by \in Admins \cup {Null} /\ x.role \in Roles
         /\ x.role = "ADMIN" => x.by \in Admins
<1>1. CASE \E a \in Admins : x = [by |-> a, role |-> "ADMIN"]
  BY <1>1 DEF Roles
<1>2. CASE \E u \in Users : x = [by |-> Null, role |-> PartyRole(c, u)] /\ PartyRole(c, u) # Null
  BY <1>2, PartyRoleType DEF Roles, Parties
<1>3. QED BY <1>1, <1>2 DEF Author

\* A reply moves a case to IN_PROGRESS or not at all, and along the table.
LEMMA ReplyMove ==
  ASSUME RowsTyped, NEW c \in Cases, NEW role
  PROVE  /\ MoveOnReply(c, role) \in {"none", "IN_PROGRESS"}
         /\ MoveOnReply(c, role) # "none" => CanTransition(caseStatus[c], MoveOnReply(c, role))
BY DEF RowsTyped, MoveOnReply, StatusAfterReply, CanTransition, Onward, CaseStatus

\* The table leads onward.
LEMMA TransitionOnward ==
  ASSUME NEW from, NEW to, CanTransition(from, to)
  PROVE  to \in Onward
BY DEF CanTransition, Onward, CaseStatus

\* An instant is written over nothing, or over itself.
LEMMA StampType ==
  ASSUME NEW at \in 0..2, NEW wasSet \in BOOLEAN
  PROVE  /\ Stamp(at, wasSet) \in 0..2 /\ at <= Stamp(at, wasSet)
         /\ (wasSet => at # 0) => Stamp(at, wasSet) # 0
BY DEF Stamp

\* A request before it has read anything.
LEMMA BlankType ==
  ASSUME NEW o \in SupportOps, NEW c \in Cases, NEW role \in Roles
  PROVE  Blank(o, c, role) \in SupportRequest
BY DEF Blank, SupportRequest

-----------------------------------------------------------------------------
(* Requests in flight                                                       *)

\* Initially there is none, and no case.
LEMMA InitInv == SupportInit => IInv
<1> SUFFICES ASSUME SupportInit PROVE IInv OBVIOUS
<1>1. InflightOK /\ \A w \in Workers : inflight[w] = Null
  BY NoneInflight DEF SupportInit
<1>2. RowsTyped
  BY DEF SupportInit, RowsTyped, NoOpening, Unwritten, Parties, CaseStatus
<1>3. RequestsOK BY <1>1 DEF RequestsOK, InOrder, Idle
<1>4. TimelineAgrees BY DEF SupportInit, TimelineAgrees, Unwritten
<1>5. ClockStopsOnAnswer /\ PartyWordsPrivate
  BY DEF SupportInit, ClockStopsOnAnswer, PartyWordsPrivate
<1>6. QED BY <1>1, <1>2, <1>3, <1>4, <1>5 DEF IInv

\* A step that changes no case and leaves worker w with r.
LEMMA SameCases ==
  ASSUME IInv, NEW w \in Workers, NEW r, UNCHANGED caseVars,
         InflightOK', w \notin overtaken', overtaken \ {w} \subseteq overtaken',
         \A v \in Workers : inflight'[v] = IF v = w THEN r ELSE inflight[v],
         r # Null => r \in SupportRequest /\ RequestOK(r) /\ FreshOK(r)
  PROVE  IInv'
<1> USE DEF IInv
<1>1. RowsTyped' /\ TimelineAgrees' /\ ClockStopsOnAnswer' /\ PartyWordsPrivate'
  BY DEF caseVars, RowsTyped, TimelineAgrees, CaseExists, ClockStopsOnAnswer, PartyWordsPrivate
<1>2. ASSUME NEW v \in Workers PROVE InOrder(v)'
  <2>1. CASE v = w
    BY <2>1 DEF InOrder, Idle, RequestOK, FreshOK, CaseExists, MoveOnReply, caseVars
  <2>2. CASE v # w
    <3>1. InOrder(v) BY DEF RequestsOK
    <3>2. QED BY <2>2, <3>1 DEF InOrder, Idle, RequestOK, FreshOK, CaseExists, MoveOnReply, caseVars
  <2>3. QED BY <2>1, <2>2
<1>3. QED BY <1>1, <1>2 DEF RequestsOK

\* A write on case c: those of the other requests that have read c are now
\* overtaken, and the rest have read other cases.
LEMMA OthersOK ==
  ASSUME IInv, NEW c \in Cases, NEW V \in SUBSET Workers,
         \A v \in V : inflight'[v] = inflight[v],
         overtaken \cap V \subseteq overtaken',
         \A v \in V : ~ Idle(v) /\ inflight[v].on = c => v \in overtaken',
         \A d \in Cases : caseStatus[d] # "none" => caseStatus'[d] # "none",
         \A d \in Cases : resolvedAt[d] # 0 => resolvedAt'[d] # 0,
         \A d \in Cases \ {c} :
           /\ caseStatus'[d] = caseStatus[d] /\ resolvedAt'[d] = resolvedAt[d]
           /\ assignee'[d] = assignee[d] /\ Len(thread'[d]) = Len(thread[d])
  PROVE  \A v \in V : InOrder(v)'
<1> SUFFICES ASSUME NEW v \in V, ~ Idle(v), inflight[v].op \in SupportOps
             PROVE  InOrder(v)'
  BY DEF InOrder, Idle
<1> DEFINE q == inflight[v]
<1>1. InOrder(v) BY DEF IInv, RequestsOK
<1>2. q \in SupportRequest /\ RequestOK(q) BY <1>1 DEF InOrder
<1>3. q.on \in Cases BY <1>2 DEF SupportRequest
<1>4. inflight'[v] = q OBVIOUS
<1>5. RequestOK(q)' BY <1>2, <1>3, <1>4 DEF RequestOK, CaseExists
<1>6. ASSUME v \notin overtaken' PROVE FreshOK(q)'
  <2>1. q.on # c BY <1>6
  <2>2. FreshOK(q) BY <1>1, <1>6 DEF InOrder
  <2>3. QED BY <1>3, <1>4, <2>1, <2>2 DEF FreshOK, MoveOnReply
<1>7. QED BY <1>2, <1>4, <1>5, <1>6 DEF InOrder

-----------------------------------------------------------------------------
(* Reads                                                                    *)

\* addMessage and addAttachment go on with what their checks found.
LEMMA ReadWordsInv ==
  ASSUME IInv, NEW w \in Workers, NEW c \in Cases, NEW x \in Author(c), NEW asked \in Asks,
         ReadReply(w, c, x, asked) \/ ReadAttach(w, c, x, asked)
  PROVE  IInv'
<1>1. RowsTyped /\ InflightOK BY DEF IInv
<1>2. x.by \in Admins \cup {Null} /\ x.role \in Roles /\ (x.role = "ADMIN" => x.by \in Admins)
  BY <1>1, AuthorType
<1>3. asked \in Visibility \cup {"unasked"} OBVIOUS
<1>4. CASE ReadReply(w, c, x, asked)
  <2> DEFINE r == [Blank("reply", c, x.role) EXCEPT
                     !.by = x.by, !.moves = MoveOnReply(c, x.role),
                     !.claims = Claims(c, x.role),
                     !.next = MessageVisibility(x.role, asked)]
  <2>1. /\ MessageVisibility(x.role, asked) \in Visibility
        /\ x.role \in Parties => MessageVisibility(x.role, asked) = DefaultVisibility(x.role)
    BY <1>2, <1>3, VisibilityType
  <2>2. MoveOnReply(c, x.role) \in {"none", "IN_PROGRESS"} BY <1>1, ReplyMove
  <2>3. Claims(c, x.role) \in BOOLEAN
        /\ (Claims(c, x.role) => assignee[c] = Null /\ x.by \in Admins)
    BY <1>2 DEF Claims
  <2>4. r \in SupportRequest
    BY <1>2, <2>1, <2>2, <2>3 DEF Blank, SupportRequest, SupportOps, CaseStatus
  <2>5. RequestOK(r) /\ FreshOK(r)
    BY <1>4, <2>1, <2>2, <2>3 DEF Blank, RequestOK, FreshOK, ReadReply, TakesWords
  <2>6. Begin(w, r) /\ UNCHANGED caseVars BY <1>4 DEF ReadReply
  <2> HIDE DEF r
  <2>7. QED BY <1>1, <2>4, <2>5, <2>6, GoesOn, SameCases
<1>5. CASE ReadAttach(w, c, x, asked)
  <2> DEFINE r == [Blank("attach", c, x.role) EXCEPT !.next = FileVisibility(x.role, asked)]
  <2>1. /\ FileVisibility(x.role, asked) \in Visibility
        /\ x.role \in Parties => FileVisibility(x.role, asked) = DefaultVisibility(x.role)
    BY <1>2, <1>3, VisibilityType
  <2>2. r \in SupportRequest BY <1>2, <2>1 DEF Blank, SupportRequest, SupportOps
  <2>3. RequestOK(r) /\ FreshOK(r)
    BY <1>5, <2>1 DEF Blank, RequestOK, FreshOK, ReadAttach, TakesWords
  <2>4. Begin(w, r) /\ UNCHANGED caseVars BY <1>5 DEF ReadAttach
  <2> HIDE DEF r
  <2>5. QED BY <1>1, <2>2, <2>3, <2>4, GoesOn, SameCases
<1>6. QED BY <1>4, <1>5

\* changeStatus goes on with the move it has checked.
LEMMA MoveToOK ==
  ASSUME RowsTyped, NEW c \in Cases, CaseExists(c), NEW role \in Roles, NEW to,
         CanTransition(caseStatus[c], to)
  PROVE  LET r == MoveTo(c, role, to) IN r \in SupportRequest /\ RequestOK(r) /\ FreshOK(r)
<1>1. to \in Onward /\ to \in CaseStatus BY TransitionOnward DEF Onward
<1>2. MoveTo(c, role, to) \in SupportRequest
  BY <1>1 DEF MoveTo, Blank, SupportRequest, SupportOps
<1>3. RequestOK(MoveTo(c, role, to)) /\ FreshOK(MoveTo(c, role, to))
  BY <1>1 DEF MoveTo, Blank, RequestOK, FreshOK
<1>4. QED BY <1>2, <1>3

\* A status change that has only read and checked.
LEMMA ReadStatusInv ==
  ASSUME IInv, NEW w \in Workers, NEW c \in Cases, NEW to \in StaffMoves, ReadStatus(w, c, to)
  PROVE  IInv'
<1> DEFINE r == MoveTo(c, "ADMIN", to)
<1>1. RowsTyped /\ InflightOK BY DEF IInv
<1>2. r \in SupportRequest /\ RequestOK(r) /\ FreshOK(r)
  BY <1>1, MoveToOK DEF ReadStatus, Roles
<1>3. Begin(w, r) /\ UNCHANGED caseVars BY DEF ReadStatus
<1> HIDE DEF r
<1>4. QED BY <1>1, <1>2, <1>3, GoesOn, SameCases

\* getCaseForUser remembers how much of the thread it has read.
LEMMA ReadThreadInv ==
  ASSUME IInv, NEW w \in Workers, NEW c \in Cases, NEW u \in Users,
         NEW o \in {"openThread", "closing"}, ReadThread(w, c, u, o)
  PROVE  IInv'
<1> DEFINE r == [Blank(o, c, PartyRole(c, u)) EXCEPT !.seen = Len(thread[c])]
<1>1. RowsTyped /\ InflightOK BY DEF IInv
<1>2. PartyRole(c, u) \in Roles BY <1>1, PartyRoleType DEF ReadThread, Roles
<1>3. Len(thread[c]) \in Nat BY <1>1, LenProperties DEF RowsTyped
<1>4. r \in SupportRequest /\ RequestOK(r) /\ FreshOK(r)
  BY <1>2, <1>3 DEF Blank, SupportRequest, SupportOps, RequestOK, FreshOK, ReadThread
<1>5. Begin(w, r) /\ UNCHANGED caseVars BY DEF ReadThread
<1> HIDE DEF r
<1>6. QED BY <1>1, <1>4, <1>5, GoesOn, SameCases

\* closeMine reads the case again.
LEMMA CloseMineInv ==
  ASSUME IInv, NEW w \in Workers, CloseMine(w)
  PROVE  IInv'
<1> DEFINE c == inflight[w].on
           r == MoveTo(c, inflight[w].role, "CLOSED")
<1>1. RowsTyped /\ InflightOK BY DEF IInv
<1>2. inflight[w] \in SupportRequest /\ RequestOK(inflight[w])
  BY DEF IInv, RequestsOK, InOrder, CloseMine, Running, Idle, SupportOps
<1>3. c \in Cases /\ inflight[w].role \in Roles /\ CaseExists(c)
  BY <1>2 DEF SupportRequest, RequestOK
<1>4. r \in SupportRequest /\ RequestOK(r) /\ FreshOK(r)
  BY <1>1, <1>3, MoveToOK DEF CloseMine
<1>5. Reread(w, r) /\ UNCHANGED caseVars BY DEF CloseMine
<1> HIDE DEF r
<1>6. QED BY <1>1, <1>4, <1>5, GoesOn, SameCases

\* A request that dies changes no case.
LEMMA DropInv ==
  ASSUME IInv, NEW w \in Workers, DropSupport(w)
  PROVE  IInv'
<1>1. InflightOK BY DEF IInv
<1>2. Drop(w) /\ UNCHANGED caseVars BY DEF DropSupport
<1>3. QED BY <1>1, <1>2, Ends, SameCases

-----------------------------------------------------------------------------
(* Writes                                                                   *)

\* The writer, its case and its request.
LEMMA Writer ==
  ASSUME IInv, NEW w \in Workers, NEW o \in SupportOps, Running(w, o)
  PROVE  /\ ~ Idle(w) /\ inflight[w] \in SupportRequest /\ inflight[w].on \in Cases
         /\ RequestOK(inflight[w]) /\ (w \notin overtaken => FreshOK(inflight[w]))
BY DEF IInv, RequestsOK, InOrder, Running, Idle, SupportRequest

\* The other requests after worker w has committed on its case.
LEMMA AfterCommit ==
  ASSUME IInv, NEW w \in Workers, NEW r, Commit(w) \/ CommitThen(w, r),
         inflight[w].on \in Cases,
         \A d \in Cases : caseStatus[d] # "none" => caseStatus'[d] # "none",
         \A d \in Cases : resolvedAt[d] # 0 => resolvedAt'[d] # 0,
         \A d \in Cases \ {inflight[w].on} :
           /\ caseStatus'[d] = caseStatus[d] /\ resolvedAt'[d] = resolvedAt[d]
           /\ assignee'[d] = assignee[d] /\ Len(thread'[d]) = Len(thread[d])
  PROVE  InflightOK' /\ \A v \in Workers \ {w} : InOrder(v)'
<1> DEFINE V == Workers \ {w}
<1>1. InflightOK BY DEF IInv
<1>2. /\ InflightOK' /\ \A v \in V : inflight'[v] = inflight[v]
      /\ overtaken \cap V \subseteq overtaken'
  BY <1>1, GoesOn, Ends
<1>3. \A v \in V : ~ Idle(v) /\ inflight[v].on = inflight[w].on => v \in overtaken'
  BY <1>1, CommitOvertakes
<1>4. V \in SUBSET Workers OBVIOUS
<1>5. \A v \in V : InOrder(v)'
  <2> HIDE DEF V
  <2>1. QED BY <1>2, <1>3, <1>4, OthersOK
<1>6. QED BY <1>2, <1>5

\* A new case has no timeline but its opening, and nobody has read it.
LEMMA NewCaseInv ==
  ASSUME IInv, NEW c \in Cases, NEW x \in Openings, NewCase(c, x)
  PROVE  IInv'
<1>1. InflightOK BY DEF IInv
<1>2. RowsTyped' BY DEF IInv, RowsTyped, NewCase, CaseStatus
<1>3. InflightOK' /\ RequestsOK'
  <2>1. CommitAtOnce(c) BY DEF NewCase
  <2>2. \A d \in Cases : caseStatus'[d] = IF d = c THEN "OPEN" ELSE caseStatus[d]
    BY DEF NewCase, IInv, RowsTyped
  <2>3. UNCHANGED <<resolvedAt, assignee, thread>> BY DEF NewCase
  <2>4. \A v \in Workers : InOrder(v)'
    BY <1>1, <2>1, <2>2, <2>3, AtOnce, OthersOK
  <2>5. QED BY <1>1, <2>1, <2>4, AtOnce DEF RequestsOK
<1>4. TimelineAgrees' BY DEF IInv, RowsTyped, TimelineAgrees, NewCase
<1>5. ClockStopsOnAnswer' /\ PartyWordsPrivate'
  BY DEF IInv, ClockStopsOnAnswer, PartyWordsPrivate, NewCase
<1>6. QED BY <1>2, <1>3, <1>4, <1>5 DEF IInv

\* An assignment names its holder in the timeline.
LEMMA AssignCaseInv ==
  ASSUME IInv, NEW c \in Cases, NEW holder \in Admins \cup {Null}, AssignCase(c, holder)
  PROVE  IInv'
<1>1. InflightOK BY DEF IInv
<1>2. RowsTyped'
  <2> DEFINE Row == [to : CaseStatus, holder : Admins \cup {Null}]
             row == [timeline[c] EXCEPT !.holder = holder]
  <2>1. timeline \in [Cases -> Row] /\ timeline[c] \in Row BY DEF IInv, RowsTyped
  <2>2. row \in Row BY <2>1
  <2>3. timeline' = [timeline EXCEPT ![c] = row] BY DEF AssignCase
  <2>4. timeline' \in [Cases -> Row]
    <3> HIDE DEF Row, row
    <3>1. QED BY <2>1, <2>2, <2>3
  <2>5. assignee' \in [Cases -> Admins \cup {Null}] BY DEF IInv, RowsTyped, AssignCase
  <2>6. QED BY <2>4, <2>5 DEF IInv, RowsTyped, AssignCase
<1>3. InflightOK' /\ RequestsOK'
  <2>1. CommitAtOnce(c) BY DEF AssignCase
  <2>2. \A d \in Cases \ {c} : assignee'[d] = assignee[d] BY DEF AssignCase, IInv, RowsTyped
  <2>3. UNCHANGED <<resolvedAt, caseStatus, thread>> BY DEF AssignCase
  <2>4. \A v \in Workers : InOrder(v)'
    BY <1>1, <2>1, <2>2, <2>3, AtOnce, OthersOK
  <2>5. QED BY <1>1, <2>1, <2>4, AtOnce DEF RequestsOK
<1>4. TimelineAgrees' BY DEF IInv, RowsTyped, TimelineAgrees, AssignCase
<1>5. ClockStopsOnAnswer' /\ PartyWordsPrivate'
  BY DEF IInv, ClockStopsOnAnswer, PartyWordsPrivate, AssignCase
<1>6. QED BY <1>2, <1>3, <1>4, <1>5 DEF IInv

\* The thread of a reply's case: the message at its end.
LEMMA ReplyThread ==
  ASSUME IInv, NEW w \in Workers, WriteReply(w)
  PROVE  LET c == inflight[w].on
             m == [role |-> inflight[w].role, visibility |-> inflight[w].next, read |-> FALSE] IN
         /\ m \in Message
         /\ thread' \in [Cases -> Seq(Message)]
         /\ \A d \in Cases \ {c} : thread'[d] = thread[d]
         /\ DOMAIN thread[c] = 1 .. Len(thread[c]) /\ Len(thread[c]) \in Nat
         /\ DOMAIN thread'[c] = 1 .. (Len(thread[c]) + 1)
         /\ \A i \in 1 .. Len(thread[c]) : thread'[c][i] = thread[c][i]
         /\ thread'[c][Len(thread[c]) + 1] = m
<1> DEFINE c == inflight[w].on
           m == [role |-> inflight[w].role, visibility |-> inflight[w].next, read |-> FALSE]
<1>1. inflight[w] \in SupportRequest /\ c \in Cases /\ RequestOK(inflight[w])
      /\ inflight[w].op = "reply"
  BY Writer DEF WriteReply, Running, SupportOps
<1>2. m \in Message BY <1>1 DEF SupportRequest, RequestOK, Message
<1>3. thread[c] \in Seq(Message) BY <1>1 DEF IInv, RowsTyped
<1>4. thread' = [thread EXCEPT ![c] = Append(thread[c], m)] BY DEF WriteReply
<1>5. /\ Append(thread[c], m) \in Seq(Message)
      /\ Len(Append(thread[c], m)) = Len(thread[c]) + 1
      /\ \A i \in 1 .. Len(thread[c]) : Append(thread[c], m)[i] = thread[c][i]
      /\ Append(thread[c], m)[Len(thread[c]) + 1] = m
  BY <1>2, <1>3, AppendProperties
<1>6. thread'[c] = Append(thread[c], m) /\ thread' \in [Cases -> Seq(Message)]
  BY <1>1, <1>4, <1>5 DEF IInv, RowsTyped
<1>7. \A d \in Cases \ {c} : thread'[d] = thread[d] BY <1>1, <1>4 DEF IInv, RowsTyped
<1>8. /\ DOMAIN thread[c] = 1 .. Len(thread[c]) /\ Len(thread[c]) \in Nat
      /\ DOMAIN thread'[c] = 1 .. (Len(thread[c]) + 1)
  BY <1>3, <1>5, <1>6, LenProperties
<1>9. QED BY <1>2, <1>5, <1>6, <1>7, <1>8

\* A reply keeps the types, and the timeline tells what it does to the case.
LEMMA ReplyRows ==
  ASSUME IInv, NEW w \in Workers, WriteReply(w)
  PROVE  RowsTyped' /\ TimelineAgrees'
<1> DEFINE c == inflight[w].on
           r == inflight[w]
           holder == IF r.claims THEN r.by ELSE timeline[c].holder
           row == Recorded(timeline[c], r.moves, holder)
           Row == [to : CaseStatus, holder : Admins \cup {Null}]
<1>1. r \in SupportRequest /\ c \in Cases /\ RequestOK(r) /\ r.op = "reply"
  BY Writer DEF WriteReply, Running, SupportOps
<1>2. r.moves \in {"none", "IN_PROGRESS"} /\ (r.claims => r.by \in Admins)
  BY <1>1 DEF RequestOK
<1>3. RowsTyped BY DEF IInv
<1>4. row \in Row /\ holder \in Admins \cup {Null}
  BY <1>1, <1>2, <1>3 DEF RowsTyped, Recorded, CaseStatus
<1>5. timeline' \in [Cases -> Row] /\ \A d \in Cases : timeline'[d] = IF d = c THEN row ELSE timeline[d]
  <2>1. timeline \in [Cases -> Row] BY <1>3 DEF RowsTyped
  <2>2. timeline' = [timeline EXCEPT ![c] = row] BY DEF WriteReply
  <2> HIDE DEF row, Row
  <2>3. QED BY <1>1, <1>4, <2>1, <2>2
<1>6. /\ caseStatus' \in [Cases -> CaseStatus \cup {"none"}]
      /\ \A d \in Cases : caseStatus'[d] =
           IF d = c /\ r.moves # "none" THEN r.moves ELSE caseStatus[d]
  BY <1>1, <1>2, <1>3 DEF RowsTyped, WriteReply, CaseStatus
<1>7. /\ assignee' \in [Cases -> Admins \cup {Null}]
      /\ \A d \in Cases : assignee'[d] = IF d = c /\ r.claims THEN r.by ELSE assignee[d]
  BY <1>1, <1>2, <1>3 DEF RowsTyped, WriteReply
<1>8. firstResponse' \in [Cases -> BOOLEAN]
  BY <1>1, <1>3 DEF RowsTyped, WriteReply, VisibleStaffReply
<1>9. thread' \in [Cases -> Seq(Message)] BY ReplyThread
<1>10. RowsTyped'
  BY <1>3, <1>5, <1>6, <1>7, <1>8, <1>9 DEF RowsTyped, WriteReply
<1>11. TimelineAgrees'
  BY <1>2, <1>5, <1>6, <1>7 DEF IInv, TimelineAgrees, Recorded
<1>12. QED BY <1>10, <1>11

\* A reply adds one message: staff's, which stops the clock unless it is an
\* internal note, or a party's, for its own side.
LEMMA ReplyWords ==
  ASSUME IInv, NEW w \in Workers, WriteReply(w)
  PROVE  ClockStopsOnAnswer' /\ PartyWordsPrivate'
<1> DEFINE c == inflight[w].on
           r == inflight[w]
           n == Len(thread[c])
           m == [role |-> r.role, visibility |-> r.next, read |-> FALSE]
<1>1. c \in Cases /\ RequestOK(r) /\ r.op = "reply"
  BY Writer DEF WriteReply, Running, SupportOps
<1>a. /\ \A d \in Cases \ {c} : thread'[d] = thread[d]
      /\ DOMAIN thread[c] = 1 .. n /\ n \in Nat /\ DOMAIN thread'[c] = 1 .. (n + 1)
      /\ \A i \in 1 .. n : thread'[c][i] = thread[c][i]
      /\ thread'[c][n + 1] = m
  <2> HIDE DEF m
  <2>1. QED BY ReplyThread DEF m
<1>2. /\ \A d \in Cases \ {c} : thread'[d] = thread[d]
      /\ DOMAIN thread[c] = 1 .. n /\ n \in Nat /\ DOMAIN thread'[c] = 1 .. (n + 1)
      /\ \A i \in 1 .. n : thread'[c][i] = thread[c][i]
      /\ thread'[c][n + 1].role = r.role /\ thread'[c][n + 1].visibility = r.next
  BY <1>a
<1>3. \A d \in Cases : firstResponse'[d] =
        IF d = c THEN firstResponse[c] \/ VisibleStaffReply(r) ELSE firstResponse[d]
  BY <1>1 DEF WriteReply, IInv, RowsTyped
<1> HIDE DEF n
<1>4. ASSUME NEW d \in Cases
      PROVE  firstResponse'[d] <=> \E i \in DOMAIN thread'[d] :
               thread'[d][i].role = "ADMIN" /\ thread'[d][i].visibility # "INTERNAL"
  <2>1. firstResponse[d] <=> \E i \in DOMAIN thread[d] :
          thread[d][i].role = "ADMIN" /\ thread[d][i].visibility # "INTERNAL"
    BY DEF IInv, ClockStopsOnAnswer
  <2>2. CASE d # c BY <1>2, <1>3, <2>1, <2>2
  <2>3. CASE d = c
    <3>1. (\E i \in 1 .. (n + 1) :
             thread'[c][i].role = "ADMIN" /\ thread'[c][i].visibility # "INTERNAL")
          <=> \/ \E i \in 1 .. n :
                   thread[c][i].role = "ADMIN" /\ thread[c][i].visibility # "INTERNAL"
              \/ r.role = "ADMIN" /\ r.next # "INTERNAL"
      BY <1>2
    <3>2. firstResponse'[c] = (firstResponse[c] \/ VisibleStaffReply(r)) BY <1>1, <1>3
    <3>3. QED BY <1>2, <2>1, <2>3, <3>1, <3>2 DEF VisibleStaffReply
  <2>4. QED BY <2>2, <2>3
<1>5. ClockStopsOnAnswer' BY <1>4 DEF ClockStopsOnAnswer
<1>6. ASSUME NEW d \in Cases, NEW i \in DOMAIN thread'[d] PROVE Private(thread'[d][i])
  <2>1. \A j \in DOMAIN thread[d] : Private(thread[d][j]) BY DEF IInv, PartyWordsPrivate
  <2>2. CASE d = c /\ i = n + 1 BY <1>1, <1>2, <2>2 DEF Private, RequestOK
  <2>3. CASE d = c /\ i # n + 1
    <3>1. i \in 1 .. n BY <1>2, <2>3
    <3>2. QED BY <1>2, <2>1, <2>3, <3>1
  <2>4. CASE d # c BY <1>2, <2>1, <2>4
  <2>5. QED BY <2>2, <2>3, <2>4
<1>7. \A d \in Cases : \A x \in files'[d] : Private(x)
  BY DEF IInv, PartyWordsPrivate, WriteReply
<1>8. PartyWordsPrivate' BY <1>6, <1>7 DEF PartyWordsPrivate, Private
<1>9. QED BY <1>5, <1>8

\* A reply keeps the invariant: its message, its claim, its move and its events are one transaction.
LEMMA WriteReplyInv ==
  ASSUME IInv, NEW w \in Workers, WriteReply(w)
  PROVE  IInv'
<1>1. inflight[w].on \in Cases /\ RequestOK(inflight[w]) /\ inflight[w].op = "reply"
  BY Writer DEF WriteReply, Running, SupportOps
<1>2. InflightOK' /\ \A v \in Workers \ {w} : InOrder(v)'
  <2>1. \A d \in Cases : caseStatus'[d] =
          IF d = inflight[w].on /\ inflight[w].moves # "none" THEN inflight[w].moves ELSE caseStatus[d]
    BY <1>1 DEF IInv, RowsTyped, WriteReply
  <2>2. \A d \in Cases : caseStatus[d] # "none" => caseStatus'[d] # "none" BY <2>1
  <2>3. \A d \in Cases \ {inflight[w].on} :
          /\ caseStatus'[d] = caseStatus[d] /\ assignee'[d] = assignee[d]
          /\ thread'[d] = thread[d]
    BY <2>1, ReplyThread DEF IInv, RowsTyped, WriteReply
  <2>4. UNCHANGED resolvedAt /\ Commit(w) BY DEF WriteReply
  <2>5. QED BY <1>1, <2>2, <2>3, <2>4, AfterCommit
<1>3. InOrder(w)'
  <2>1. InflightOK /\ Commit(w) BY DEF IInv, WriteReply
  <2>2. inflight'[w] = Null BY <2>1, Ends
  <2>3. QED BY <2>2 DEF InOrder, Idle
<1>4. QED BY <1>2, <1>3, ReplyRows, ReplyWords DEF IInv, RequestsOK

\* A status move, and what the timeline tells of it.
LEMMA StatusRows ==
  ASSUME IInv, NEW w \in Workers, WriteStatus(w)
  PROVE  /\ RowsTyped' /\ TimelineAgrees'
         /\ \A d \in Cases : resolvedAt[d] # 0 => resolvedAt'[d] # 0
<1> DEFINE c == inflight[w].on
           r == inflight[w]
           row == Recorded(timeline[c], r.next, timeline[c].holder)
           Row == [to : CaseStatus, holder : Admins \cup {Null}]
           at == ResolvedStamp(resolvedAt[c], r.next, r.already)
<1>1. r \in SupportRequest /\ c \in Cases /\ RequestOK(r) /\ r.op = "setStatus"
  BY Writer DEF WriteStatus, Running, SupportOps
<1>2. r.next \in CaseStatus /\ r.next # "none" /\ r.already \in BOOLEAN
  BY <1>1 DEF RequestOK, SupportRequest, Onward, CaseStatus
<1>3. RowsTyped BY DEF IInv
<1>4. row \in Row BY <1>1, <1>2, <1>3 DEF RowsTyped, Recorded
<1>5. timeline' \in [Cases -> Row] /\ \A d \in Cases : timeline'[d] = IF d = c THEN row ELSE timeline[d]
  <2>1. timeline \in [Cases -> Row] BY <1>3 DEF RowsTyped
  <2>2. timeline' = [timeline EXCEPT ![c] = row] BY DEF WriteStatus
  <2> HIDE DEF row, Row
  <2>3. QED BY <1>1, <1>4, <2>1, <2>2
<1>6. resolvedAt[c] \in 0..2 BY <1>1, <1>3 DEF RowsTyped
<1>7. at \in 0..2 /\ (resolvedAt[c] # 0 => at # 0)
  BY <1>2, <1>6, StampType DEF ResolvedStamp
<1>8. /\ resolvedAt' \in [Cases -> 0..2]
      /\ \A d \in Cases : resolvedAt'[d] = IF d = c THEN at ELSE resolvedAt[d]
  <2>1. resolvedAt' = [resolvedAt EXCEPT ![c] = at] BY DEF WriteStatus
  <2>2. resolvedAt \in [Cases -> 0..2] BY <1>3 DEF RowsTyped
  <2> HIDE DEF at
  <2>3. QED BY <1>1, <1>7, <2>1, <2>2
<1>9. /\ caseStatus' \in [Cases -> CaseStatus \cup {"none"}]
      /\ \A d \in Cases : caseStatus'[d] = IF d = c THEN r.next ELSE caseStatus[d]
      /\ closedAt' \in [Cases -> BOOLEAN]
  BY <1>1, <1>2, <1>3 DEF RowsTyped, WriteStatus
<1>10. RowsTyped' BY <1>3, <1>5, <1>8, <1>9 DEF RowsTyped, WriteStatus
<1>11. TimelineAgrees'
  <2>1. UNCHANGED assignee BY DEF WriteStatus
  <2>2. QED BY <1>2, <1>5, <1>9, <2>1 DEF IInv, TimelineAgrees, Recorded
<1>12. \A d \in Cases : resolvedAt[d] # 0 => resolvedAt'[d] # 0 BY <1>7, <1>8
<1>13. QED BY <1>10, <1>11, <1>12

\* So does a status change.
LEMMA WriteStatusInv ==
  ASSUME IInv, NEW w \in Workers, WriteStatus(w)
  PROVE  IInv'
<1>1. /\ inflight[w].on \in Cases /\ inflight[w].next # "none"
  BY Writer DEF WriteStatus, Running, SupportOps, RequestOK, Onward, CaseStatus
<1>2. Commit(w) /\ UNCHANGED <<assignee, thread, files, firstResponse>> BY DEF WriteStatus
<1>3. \A d \in Cases :
        /\ caseStatus[d] # "none" => caseStatus'[d] # "none"
        /\ d # inflight[w].on => caseStatus'[d] = caseStatus[d] /\ resolvedAt'[d] = resolvedAt[d]
  BY <1>1 DEF IInv, RowsTyped, WriteStatus
<1>4. InflightOK' /\ \A v \in Workers \ {w} : InOrder(v)'
  BY <1>1, <1>2, <1>3, StatusRows, AfterCommit
<1>5. InOrder(w)' BY <1>2, Ends DEF IInv, InOrder, Idle
<1>6. ClockStopsOnAnswer' /\ PartyWordsPrivate'
  BY <1>2 DEF IInv, ClockStopsOnAnswer, PartyWordsPrivate
<1>7. QED BY <1>4, <1>5, <1>6, StatusRows DEF IInv, RequestsOK

\* A file is for its own side too.
LEMMA WriteAttachInv ==
  ASSUME IInv, NEW w \in Workers, WriteAttach(w)
  PROVE  IInv'
<1> DEFINE c == inflight[w].on
           f == [role |-> inflight[w].role, visibility |-> inflight[w].next]
<1>1. inflight[w] \in SupportRequest /\ c \in Cases /\ RequestOK(inflight[w])
      /\ inflight[w].op = "attach"
  BY Writer DEF WriteAttach, Running, SupportOps
<1>2. f \in File /\ Private(f)
  BY <1>1 DEF SupportRequest, RequestOK, File, Private
<1>3. /\ Commit(w)
      /\ UNCHANGED <<caseStatus, opening, assignee, firstResponse, resolvedAt, closedAt,
                     thread, timeline>>
  BY DEF WriteAttach
<1>4. /\ files' \in [Cases -> SUBSET File]
      /\ \A d \in Cases : files'[d] = IF d = c THEN files[c] \cup {f} ELSE files[d]
  <2>1. files' = [files EXCEPT ![c] = @ \cup {f}] BY DEF WriteAttach
  <2> HIDE DEF f
  <2>2. QED BY <1>1, <1>2, <2>1 DEF IInv, RowsTyped
<1>5. RowsTyped' /\ TimelineAgrees' /\ ClockStopsOnAnswer'
  BY <1>3, <1>4 DEF IInv, RowsTyped, TimelineAgrees, ClockStopsOnAnswer
<1>6. PartyWordsPrivate'
  <2> HIDE DEF f
  <2>1. QED BY <1>2, <1>3, <1>4 DEF IInv, PartyWordsPrivate, Private
<1>7. InflightOK' /\ \A v \in Workers \ {w} : InOrder(v)' BY <1>1, <1>3, AfterCommit
<1>8. InOrder(w)' BY <1>3, Ends DEF IInv, InOrder, Idle
<1>9. QED BY <1>5, <1>6, <1>7, <1>8 DEF IInv, RequestsOK

-----------------------------------------------------------------------------
(* Reading marks messages read                                              *)

\* The same messages, some of them read now.
LEMMA MarkedReadType ==
  ASSUME RowsTyped, NEW c \in Cases, NEW role
  PROVE  /\ MarkedRead(c, role) \in Seq(Message)
         /\ Len(MarkedRead(c, role)) = Len(thread[c])
         /\ DOMAIN MarkedRead(c, role) = DOMAIN thread[c]
         /\ \A i \in DOMAIN thread[c] :
              /\ MarkedRead(c, role)[i].role = thread[c][i].role
              /\ MarkedRead(c, role)[i].visibility = thread[c][i].visibility
<1> DEFINE s == thread[c]
           t == MarkedRead(c, role)
           n == Len(s)
           m(i) == [s[i] EXCEPT !.read = @ \/ (s[i].role = "ADMIN" /\ CanSee(role, s[i].visibility))]
<1>1. s \in Seq(Message) BY DEF RowsTyped
<1>2. n \in Nat /\ DOMAIN s = 1 .. n BY <1>1, LenProperties
<1>3. \A i \in 1 .. n : s[i] \in Message BY <1>1, ElementOfSeq
<1>4. ASSUME NEW i \in 1 .. n
      PROVE  m(i) \in Message /\ m(i).role = s[i].role /\ m(i).visibility = s[i].visibility
  BY <1>3 DEF Message
<1>5. t = [i \in 1 .. n |-> m(i)] BY <1>2 DEF MarkedRead
<1>6. /\ t \in [1 .. n -> Message] /\ DOMAIN t = 1 .. n
      /\ \A i \in 1 .. n : t[i] = m(i)
  <2> HIDE DEF m, t, n
  <2>1. QED BY <1>4, <1>5
<1>7. t \in Seq(Message)
  <2> HIDE DEF t, n
  <2>1. QED BY <1>2, <1>6, SeqDef
<1>8. Len(t) = n
  <2>1. Len(t) \in Nat /\ 1 .. Len(t) = 1 .. n BY <1>6, <1>7, LenProperties
  <2> HIDE DEF t, n
  <2>2. QED BY <1>2, <2>1
<1>9. QED BY <1>2, <1>4, <1>6, <1>7, <1>8

\* Marking a thread read leaves all but the marks alone.
LEMMA MarkThreadRows ==
  ASSUME IInv, NEW w \in Workers, inflight[w].on \in Cases, MarkThread(w)
  PROVE  /\ RowsTyped' /\ TimelineAgrees' /\ ClockStopsOnAnswer' /\ PartyWordsPrivate'
         /\ \A d \in Cases : Len(thread'[d]) = Len(thread[d])
<1> DEFINE c == inflight[w].on
           t == MarkedRead(c, inflight[w].role)
<1>1. RowsTyped BY DEF IInv
<1>2. /\ t \in Seq(Message) /\ Len(t) = Len(thread[c]) /\ DOMAIN t = DOMAIN thread[c]
      /\ \A i \in DOMAIN thread[c] :
           t[i].role = thread[c][i].role /\ t[i].visibility = thread[c][i].visibility
  BY <1>1, MarkedReadType
<1>3. thread' = [thread EXCEPT ![c] = t]
      /\ UNCHANGED <<caseStatus, opening, assignee, firstResponse, resolvedAt, closedAt,
                     files, timeline>>
  BY DEF MarkThread
<1> HIDE DEF t
<1>4. /\ thread' \in [Cases -> Seq(Message)]
      /\ \A d \in Cases : thread'[d] = IF d = c THEN t ELSE thread[d]
  BY <1>1, <1>2, <1>3 DEF RowsTyped
<1>5. \A d \in Cases :
        /\ Len(thread'[d]) = Len(thread[d]) /\ DOMAIN thread'[d] = DOMAIN thread[d]
        /\ \A i \in DOMAIN thread[d] : /\ thread'[d][i].role = thread[d][i].role
                                       /\ thread'[d][i].visibility = thread[d][i].visibility
  BY <1>2, <1>4
<1>6. RowsTyped' /\ TimelineAgrees'
  BY <1>1, <1>3, <1>4 DEF IInv, RowsTyped, TimelineAgrees
<1>7. ClockStopsOnAnswer' BY <1>3, <1>5 DEF IInv, ClockStopsOnAnswer
<1>8. PartyWordsPrivate' BY <1>3, <1>5 DEF IInv, PartyWordsPrivate, Private
<1>9. QED BY <1>5, <1>6, <1>7, <1>8

\* Showing a case leaves it as it was but for what has been read of it.
LEMMA ShowThreadInv ==
  ASSUME IInv, NEW w \in Workers, ShowThread(w)
  PROVE  IInv'
<1>1. inflight[w].on \in Cases BY Writer DEF ShowThread, Running, SupportOps
<1>2. MarkThread(w) /\ Commit(w) /\ UNCHANGED <<caseStatus, resolvedAt, assignee>>
  BY DEF ShowThread, MarkThread
<1>3. InflightOK' /\ \A v \in Workers \ {w} : InOrder(v)'
  BY <1>1, <1>2, MarkThreadRows, AfterCommit
<1>4. InOrder(w)' BY <1>2, Ends DEF IInv, InOrder, Idle
<1>5. QED BY <1>1, <1>2, <1>3, <1>4, MarkThreadRows DEF IInv, RequestsOK

\* closeMine goes on, knowing nothing of the case's status yet.
LEMMA ShowBeforeClosingInv ==
  ASSUME IInv, NEW w \in Workers, ShowBeforeClosing(w)
  PROVE  IInv'
<1> DEFINE r == [inflight[w] EXCEPT !.op = "closeMine"]
<1>1. inflight[w] \in SupportRequest /\ inflight[w].on \in Cases /\ CaseExists(inflight[w].on)
  BY Writer DEF ShowBeforeClosing, Running, SupportOps, RequestOK
<1>2. MarkThread(w) /\ CommitThen(w, r) /\ UNCHANGED <<caseStatus, resolvedAt, assignee>>
  BY DEF ShowBeforeClosing, MarkThread
<1>3. InflightOK' /\ \A v \in Workers \ {w} : InOrder(v)'
  <2> HIDE DEF r
  <2>1. QED BY <1>1, <1>2, MarkThreadRows, AfterCommit
<1>4. r \in SupportRequest /\ r.op = "closeMine" /\ r.on = inflight[w].on
  BY <1>1 DEF SupportRequest, SupportOps
<1>5. inflight'[w] = r
  <2> HIDE DEF r
  <2>1. QED BY <1>2, GoesOn DEF IInv
<1>6. InOrder(w)'
  <2>1. /\ inflight'[w] \in SupportRequest /\ inflight'[w].op = "closeMine"
        /\ inflight'[w].on = inflight[w].on
    <3> HIDE DEF r
    <3>1. QED BY <1>4, <1>5
  <2>2. caseStatus'[inflight[w].on] # "none" BY <1>1, <1>2 DEF CaseExists
  <2>3. QED BY <2>1, <2>2 DEF InOrder, RequestOK, FreshOK, CaseExists
<1>7. QED BY <1>2, <1>3, <1>6, MarkThreadRows, <1>1 DEF IInv, RequestsOK

-----------------------------------------------------------------------------
(* The invariant                                                            *)

\* Every step of the desk keeps it, and a step of something else.
LEMMA NextInv ==
  ASSUME IInv, [SupportNext]_supportVars
  PROVE  IInv'
<1>1. CASE UNCHANGED supportVars
  BY <1>1 DEF supportVars, caseVars, handlerVars, IInv, InflightOK, Idle, RowsTyped,
       RequestsOK, InOrder, RequestOK, FreshOK, CaseExists, MoveOnReply, TimelineAgrees,
       ClockStopsOnAnswer, PartyWordsPrivate
<1>2. ASSUME NEW c \in Cases, NEW x \in Openings, OpenCase(c, x) \/ OpenReportCase(c, x)
      PROVE  IInv'
  BY <1>2, NewCaseInv DEF OpenCase, OpenReportCase
<1>3. ASSUME NEW c \in Cases, NEW holder \in Admins \cup {Null}, AssignCase(c, holder)
      PROVE  IInv'
  BY <1>3, AssignCaseInv
<1>4. ASSUME NEW w \in Workers, NEW c \in Cases, NEW x \in Author(c), NEW asked \in Asks,
             ReadReply(w, c, x, asked) \/ ReadAttach(w, c, x, asked)
      PROVE  IInv'
  BY <1>4, ReadWordsInv
<1>5. ASSUME NEW w \in Workers, NEW c \in Cases, NEW u \in Users,
             NEW o \in {"openThread", "closing"}, ReadThread(w, c, u, o)
      PROVE  IInv'
  BY <1>5, ReadThreadInv
<1>6. ASSUME NEW w \in Workers, NEW c \in Cases, NEW to \in StaffMoves, ReadStatus(w, c, to)
      PROVE  IInv'
  BY <1>6, ReadStatusInv
<1>7. ASSUME NEW w \in Workers, \/ WriteReply(w) \/ WriteStatus(w) \/ WriteAttach(w)
                                \/ ShowThread(w) \/ ShowBeforeClosing(w) \/ CloseMine(w)
                                \/ DropSupport(w)
      PROVE  IInv'
  BY <1>7, WriteReplyInv, WriteStatusInv, WriteAttachInv, ShowThreadInv, ShowBeforeClosingInv,
     CloseMineInv, DropInv
<1>8. QED BY <1>1, <1>2, <1>3, <1>4, <1>5, <1>6, <1>7 DEF SupportNext

\* The invariant always holds.
LEMMA SupportInv == SupportSpec => []IInv
BY InitInv, NextInv, PTL DEF SupportSpec

\* Every row, and every request of the desk in flight, has its type.
THEOREM SupportTypes == SupportSpec => []SupportTypeOK
<1>1. IInv => SupportTypeOK
  BY DEF IInv, SupportTypeOK, RowsTyped, RequestsOK, InOrder
<1>2. QED BY <1>1, SupportInv, PTL

\* The audit timeline is written in the transaction of each change, so it tells
\* the case whatever handlers overlap and wherever they die.
THEOREM TimelineTells == SupportSpec => []TimelineTellsCase
<1>1. IInv => TimelineTellsCase
  BY DEF IInv, TimelineAgrees, TimelineTellsCase, CaseExists
<1>2. QED BY <1>1, SupportInv, PTL

\* The first-response clock is stopped by an answer a party can read, and only then.
THEOREM ClockStops == SupportSpec => []ClockStopsOnAnswer
<1>1. IInv => ClockStopsOnAnswer BY DEF IInv
<1>2. QED BY <1>1, SupportInv, PTL

\* Neither side of a case is shown what the other wrote or attached.
THEOREM SidesApart == SupportSpec => []SidesStayApart
<1>1. ASSUME IInv PROVE SidesStayApart
  <2> SUFFICES ASSUME NEW c \in Cases, NEW u \in Users, PartyRole(c, u) # Null,
                      NEW role \in Parties, NEW visibility,
                      visibility = DefaultVisibility(role),
                      CanSee(PartyRole(c, u), visibility)
               PROVE  role = PartyRole(c, u)
    BY <1>1 DEF SidesStayApart, IInv, PartyWordsPrivate, Private
  <2>1. PartyRole(c, u) \in Parties BY <1>1, PartyRoleType DEF IInv
  <2>2. QED BY <2>1 DEF CanSee, DefaultVisibility, Parties
<1>2. QED BY <1>1, SupportInv, PTL

-----------------------------------------------------------------------------
(* The lifecycle                                                            *)

\* The abstract specification has the same table.
LEMMA SameTable ==
  ASSUME NEW from, NEW to
  PROVE  /\ L!Onward = Onward /\ L!Finished = Finished
         /\ L!CanTransition(from, to) <=> CanTransition(from, to)
BY DEF L!Onward, L!CaseStatus, L!Finished, L!CanTransition, Onward, CaseStatus, Finished,
       CanTransition

\* A write of a case's status, stamped as it should be, is a move of the
\* lifecycle: along the table, or by a writer that was late.
LEMMA MoveMaps ==
  ASSUME RowsTyped, NEW w \in Workers, NEW c \in Cases, CaseExists(c),
         NEW to \in Onward, NEW at \in 0..2,
         caseStatus' = [caseStatus EXCEPT ![c] = to],
         resolvedAt' = [resolvedAt EXCEPT ![c] = at],
         closedAt' = [closedAt EXCEPT ![c] = closedAt[c] \/ to = "CLOSED"],
         to \in Finished => at # 0,
         resolvedAt[c] <= at, w \notin overtaken',
         w \notin overtaken =>
           CanTransition(caseStatus[c], to) /\ (resolvedAt[c] # 0 => at = resolvedAt[c])
  PROVE  L!Next
<1> DEFINE isClosed == closedAt[c] \/ to = "CLOSED"
<1>1. /\ isClosed \in BOOLEAN /\ (to = "CLOSED" => isClosed) /\ (closedAt[c] => isClosed)
      /\ isClosed = (closedAt[c] \/ to = "CLOSED")
      /\ closedAt' = [closedAt EXCEPT ![c] = isClosed]
  BY DEF RowsTyped
<1>2. L!Stamped(to, at, isClosed) /\ to \in L!Onward
  BY <1>1, SameTable DEF L!Stamped
<1> HIDE DEF isClosed
<1>3. CASE w \notin overtaken
  <2>1. L!CanTransition(caseStatus[c], to) BY <1>3, SameTable
  <2>2. L!Move(c) BY <1>1, <1>2, <1>3, <2>1 DEF L!Move, CaseExists
  <2>3. QED BY <2>2 DEF L!Next
<1>4. CASE w \in overtaken
  <2>1. overtaken \ overtaken' # {} BY <1>4
  <2>2. L!MoveLate(c) BY <1>1, <1>2, <2>1 DEF L!MoveLate, CaseExists
  <2>3. QED BY <2>2 DEF L!Next
<1>5. QED BY <1>3, <1>4

\* A reply is a move of the abstract case, late or along the table, or leaves it alone.
LEMMA ReplyMaps ==
  ASSUME IInv, NEW w \in Workers, WriteReply(w)
  PROVE  [L!Next]_(L!caseVars)
<1> DEFINE c == inflight[w].on
           r == inflight[w]
<1>1. /\ c \in Cases /\ RequestOK(r) /\ (w \notin overtaken => FreshOK(r))
      /\ r.op = "reply" /\ RowsTyped /\ InflightOK
  BY Writer DEF WriteReply, Running, SupportOps, IInv
<1>2. UNCHANGED <<resolvedAt, closedAt>> /\ Commit(w)
      /\ caseStatus' = [caseStatus EXCEPT ![c] = IF r.moves = "none" THEN @ ELSE r.moves]
  BY DEF WriteReply
<1>3. CASE r.moves = "none"
  <2>1. caseStatus' = caseStatus BY <1>1, <1>2, <1>3 DEF RowsTyped
  <2>2. QED BY <1>2, <2>1 DEF L!caseVars
<1>4. CASE r.moves # "none"
  <2>1. r.moves = "IN_PROGRESS" BY <1>1, <1>4 DEF RequestOK
  <2>2. r.moves \in Onward /\ r.moves \notin Finished
    BY <2>1 DEF Onward, CaseStatus, Finished
  <2>3. w \notin overtaken => CanTransition(caseStatus[c], r.moves)
    BY <1>1, <1>4, ReplyMove DEF FreshOK
  <2>4. caseStatus' = [caseStatus EXCEPT ![c] = r.moves] BY <1>2, <1>4
  <2>5. resolvedAt[c] \in 0..2 /\ resolvedAt' = [resolvedAt EXCEPT ![c] = resolvedAt[c]]
    BY <1>1, <1>2 DEF RowsTyped
  <2>6. closedAt' = [closedAt EXCEPT ![c] = closedAt[c] \/ r.moves = "CLOSED"]
    BY <1>1, <1>2, <2>1 DEF RowsTyped
  <2>7. w \notin overtaken' BY <1>1, <1>2, Ends
  <2>8. CaseExists(c) /\ resolvedAt[c] <= resolvedAt[c] BY <1>1, <2>5 DEF RequestOK
  <2>9. QED BY <1>1, <2>2, <2>3, <2>4, <2>5, <2>6, <2>7, <2>8, MoveMaps
<1>5. QED BY <1>3, <1>4

\* So is a status change.
LEMMA StatusMaps ==
  ASSUME IInv, NEW w \in Workers, WriteStatus(w)
  PROVE  [L!Next]_(L!caseVars)
<1> DEFINE c == inflight[w].on
           r == inflight[w]
           at == ResolvedStamp(resolvedAt[c], r.next, r.already)
<1>1. /\ r \in SupportRequest /\ c \in Cases /\ RequestOK(r)
      /\ (w \notin overtaken => FreshOK(r))
      /\ r.op = "setStatus" /\ RowsTyped /\ InflightOK
  BY Writer DEF WriteStatus, Running, SupportOps, IInv
<1>2. r.next \in Onward /\ (r.already => resolvedAt[c] # 0) /\ r.already \in BOOLEAN
      /\ resolvedAt[c] \in 0..2 /\ CaseExists(c)
  BY <1>1 DEF RequestOK, SupportRequest, RowsTyped
<1>3. at \in 0..2 /\ resolvedAt[c] <= at /\ (r.next \in Finished => at # 0)
  BY <1>2, StampType DEF ResolvedStamp
<1>4. w \notin overtaken =>
        CanTransition(caseStatus[c], r.next) /\ (resolvedAt[c] # 0 => at = resolvedAt[c])
  BY <1>1 DEF FreshOK, ResolvedStamp, Stamp
<1>5. /\ caseStatus' = [caseStatus EXCEPT ![c] = r.next]
      /\ resolvedAt' = [resolvedAt EXCEPT ![c] = at]
      /\ closedAt' = [closedAt EXCEPT ![c] = closedAt[c] \/ r.next = "CLOSED"]
      /\ Commit(w)
  BY DEF WriteStatus
<1>6. w \notin overtaken' BY <1>1, <1>5, Ends
<1> HIDE DEF at
<1>7. L!Next BY <1>1, <1>2, <1>3, <1>4, <1>5, <1>6, MoveMaps
<1>8. QED BY <1>7

\* Every other step leaves the case where it is, or opens it.
LEMMA StepMaps ==
  ASSUME IInv, [SupportNext]_supportVars
  PROVE  [L!Next]_(L!caseVars)
<1>1. CASE UNCHANGED supportVars
  BY <1>1 DEF supportVars, caseVars, L!caseVars
<1>2. ASSUME NEW c \in Cases, NEW x \in Openings, OpenCase(c, x) \/ OpenReportCase(c, x)
      PROVE  [L!Next]_(L!caseVars)
  <2>1. L!Open(c) BY <1>2 DEF OpenCase, OpenReportCase, NewCase, L!Open
  <2>2. QED BY <2>1 DEF L!Next
<1>3. ASSUME NEW c \in Cases, NEW holder \in Admins \cup {Null}, AssignCase(c, holder)
      PROVE  [L!Next]_(L!caseVars)
  BY <1>3 DEF AssignCase, L!caseVars
<1>4. ASSUME NEW w \in Workers, NEW c \in Cases,
             \/ \E x \in Author(c), asked \in Asks :
                  ReadReply(w, c, x, asked) \/ ReadAttach(w, c, x, asked)
             \/ \E u \in Users, o \in {"openThread", "closing"} : ReadThread(w, c, u, o)
             \/ \E to \in StaffMoves : ReadStatus(w, c, to)
      PROVE  [L!Next]_(L!caseVars)
  BY <1>4 DEF ReadReply, ReadAttach, ReadThread, ReadStatus, caseVars, L!caseVars
<1>5. ASSUME NEW w \in Workers,
             \/ WriteAttach(w) \/ ShowThread(w) \/ ShowBeforeClosing(w) \/ CloseMine(w)
             \/ DropSupport(w)
      PROVE  [L!Next]_(L!caseVars)
  BY <1>5 DEF WriteAttach, ShowThread, ShowBeforeClosing, MarkThread, CloseMine, DropSupport,
       caseVars, L!caseVars
<1>6. ASSUME NEW w \in Workers, WriteReply(w) \/ WriteStatus(w)
      PROVE  [L!Next]_(L!caseVars)
  BY <1>6, ReplyMaps, StatusMaps
<1>7. QED BY <1>1, <1>2, <1>3, <1>4, <1>5, <1>6 DEF SupportNext

\* The support desk implements the case lifecycle, for any number of requests.
THEOREM SupportImplements == SupportSpec => LifecycleSpec
<1>1. SupportInit => L!Init BY DEF SupportInit, L!Init
<1>2. IInv /\ [SupportNext]_supportVars => [L!Next]_(L!caseVars) BY StepMaps
<1>3. QED BY <1>1, <1>2, SupportInv, PTL DEF SupportSpec, LifecycleSpec, L!Spec

-----------------------------------------------------------------------------
(* What handlers that nothing overtook may never do                         *)

\* A handler that ends or goes on is the only one that does.
LEMMA OnlyOneMoves ==
  ASSUME InflightOK, NEW w \in Workers, NEW r,
         Commit(w) \/ Drop(w) \/ Begin(w, r) \/ Reread(w, r) \/ CommitThen(w, r)
  PROVE  \A v \in Workers : inflight'[v] # inflight[v] => v = w
BY GoesOn, Ends

\* The steps that touch a thread or a file are those of one worker.
LEMMA WordsBy ==
  ASSUME IInv, SupportNext, <<thread, files>>' # <<thread, files>>,
         NEW w \in Workers, inflight'[w] # inflight[w]
  PROVE  \/ WriteReply(w) \/ WriteAttach(w)
         \/ (Running(w, "openThread") \/ Running(w, "closing")) /\ MarkThread(w)
<1>1. InflightOK BY DEF IInv
<1>2. PICK v \in Workers : WriteReply(v) \/ WriteAttach(v) \/ ShowThread(v) \/ ShowBeforeClosing(v)
  BY DEF SupportNext, OpenCase, OpenReportCase, NewCase, AssignCase, ReadReply, ReadAttach,
         ReadThread, ReadStatus, WriteStatus, CloseMine, DropSupport, caseVars
<1>3. Commit(v) \/ CommitThen(v, [inflight[v] EXCEPT !.op = "closeMine"])
  BY <1>2 DEF WriteReply, WriteAttach, ShowThread, ShowBeforeClosing
<1>4. v = w BY <1>1, <1>3, OnlyOneMoves
<1>5. QED BY <1>2, <1>4 DEF ShowThread, ShowBeforeClosing

\* What a reply that nothing overtook found is still so when it writes.
LEMMA FreshReply ==
  ASSUME IInv, NEW w \in Workers, WriteReply(w), w \notin overtaken
  PROVE  LET c == inflight[w].on IN
         /\ caseStatus[c] # "CLOSED"
         /\ assignee[c] # Null => assignee'[c] = assignee[c]
         /\ <<inflight[w].role, caseStatus'[c]>> \notin
              {<<"TENANT", "WAITING_FOR_USER">>, <<"OWNER", "WAITING_FOR_OWNER">>}
<1> DEFINE c == inflight[w].on
           r == inflight[w]
<1>1. c \in Cases /\ FreshOK(r) /\ r.op = "reply" /\ RowsTyped
  BY Writer DEF WriteReply, Running, SupportOps, IInv
<1>2. /\ caseStatus[c] # "CLOSED" /\ r.moves = MoveOnReply(c, r.role)
      /\ r.claims => assignee[c] = Null
  BY <1>1 DEF FreshOK
<1>3. assignee[c] # Null => assignee'[c] = assignee[c]
  BY <1>1, <1>2 DEF WriteReply, RowsTyped
<1>4. caseStatus'[c] = IF r.moves = "none" THEN caseStatus[c] ELSE r.moves
  BY <1>1 DEF WriteReply, RowsTyped
<1>5. <<r.role, caseStatus'[c]>> \notin
        {<<"TENANT", "WAITING_FOR_USER">>, <<"OWNER", "WAITING_FOR_OWNER">>}
  BY <1>2, <1>4 DEF MoveOnReply, StatusAfterReply
<1>6. QED BY <1>2, <1>3, <1>5

\* A reply or file nothing has overtaken keeps off a closed case, leaves a
\* colleague's case with the colleague and ends the wait for its author.
THEOREM RepliesKeepDeskRules == SupportSpec => RepliesKeepRules
<1>1. ASSUME IInv, SupportNext, FreshStep, NEW w \in Workers, NEW c \in Cases,
             inflight'[w] # inflight[w], <<thread, files>>' # <<thread, files>>,
             Running(w, "reply") \/ Running(w, "attach"), inflight[w].on = c
      PROVE  /\ caseStatus[c] # "CLOSED"
             /\ assignee[c] # Null => assignee'[c] = assignee[c]
             /\ Running(w, "reply") =>
                  <<inflight[w].role, caseStatus'[c]>> \notin
                    {<<"TENANT", "WAITING_FOR_USER">>, <<"OWNER", "WAITING_FOR_OWNER">>}
  <2>1. w \notin overtaken BY <1>1 DEF FreshStep
  <2>2. WriteReply(w) \/ WriteAttach(w) BY <1>1, WordsBy DEF Running
  <2>3. CASE WriteReply(w) BY <1>1, <2>1, <2>3, FreshReply
  <2>4. CASE WriteAttach(w)
    <3>1. inflight[w].op = "attach" /\ FreshOK(inflight[w])
      BY <1>1, <2>1, <2>4, Writer DEF WriteAttach, Running, SupportOps
    <3>2. QED BY <1>1, <2>4, <3>1 DEF WriteAttach, Running, FreshOK
  <2>5. QED BY <2>2, <2>3, <2>4
<1>2. IInv /\ [SupportNext]_supportVars =>
        [FreshStep => \A w \in Workers, c \in Cases :
           inflight'[w] # inflight[w] /\ <<thread, files>>' # <<thread, files>>
             /\ (Running(w, "reply") \/ Running(w, "attach")) /\ inflight[w].on = c =>
             /\ caseStatus[c] # "CLOSED"
             /\ assignee[c] # Null => assignee'[c] = assignee[c]
             /\ Running(w, "reply") =>
                  <<inflight[w].role, caseStatus'[c]>> \notin
                    {<<"TENANT", "WAITING_FOR_USER">>, <<"OWNER", "WAITING_FOR_OWNER">>}]_supportVars
  BY <1>1
<1>3. QED BY <1>2, SupportInv, PTL DEF SupportSpec, RepliesKeepRules

\* A case shown to a reader nothing has overtaken: only messages that were
\* there when it read, and that its hat may see, become read.
LEMMA FreshShow ==
  ASSUME IInv, NEW w \in Workers, MarkThread(w), w \notin overtaken,
         Running(w, "openThread") \/ Running(w, "closing"),
         NEW c \in Cases, NEW i \in DOMAIN thread[c],
         thread'[c][i].read, ~ thread[c][i].read
  PROVE  i <= inflight[w].seen /\ CanSee(inflight[w].role, thread[c][i].visibility)
<1> DEFINE r == inflight[w]
<1>1. r.on \in Cases /\ FreshOK(r) /\ r.op \in {"openThread", "closing"} /\ RowsTyped
  BY Writer DEF Running, SupportOps, IInv
<1>2. thread' = [thread EXCEPT ![r.on] = MarkedRead(r.on, r.role)] BY DEF MarkThread
<1>3. r.on = c BY <1>1, <1>2 DEF RowsTyped
<1>4. r.seen = Len(thread[c]) BY <1>1, <1>3 DEF FreshOK
<1>5. thread[c] \in Seq(Message) BY <1>1 DEF RowsTyped
<1>6. i \in 1 .. Len(thread[c]) /\ Len(thread[c]) \in Nat BY <1>5, LenProperties
<1>7. thread[c][i] \in Message BY <1>5, <1>6, ElementOfSeq
<1>8. thread'[c] = MarkedRead(c, r.role) BY <1>1, <1>2, <1>3 DEF RowsTyped
<1>9. thread'[c][i] = [thread[c][i] EXCEPT !.read = @ \/ (thread[c][i].role = "ADMIN"
                                    /\ CanSee(r.role, thread[c][i].visibility))]
  BY <1>8 DEF MarkedRead
<1>10. CanSee(r.role, thread[c][i].visibility)
  <2>1. CASE ~ CanSee(r.role, thread[c][i].visibility)
    <3>1. thread'[c][i].read = thread[c][i].read BY <1>7, <1>9, <2>1 DEF Message
    <3>2. QED BY <3>1
  <2>2. QED BY <2>1
<1>11. QED BY <1>4, <1>6, <1>10

\* Words already in a thread are only ever marked read by a reader.
THEOREM OnlyShownWordsAreRead == SupportSpec => OnlyShownIsRead
<1>1. ASSUME IInv, SupportNext, FreshStep, NEW w \in Workers, NEW c \in Cases,
             inflight'[w] # inflight[w], NEW i \in DOMAIN thread[c],
             thread'[c][i].read, ~ thread[c][i].read
      PROVE  i <= inflight[w].seen /\ CanSee(inflight[w].role, thread[c][i].visibility)
  <2>1. w \notin overtaken BY <1>1 DEF FreshStep
  <2>2. <<thread, files>>' # <<thread, files>> BY <1>1
  <2>3. CASE WriteReply(w)
    <3>1. thread'[c][i] = thread[c][i] BY <2>3, <1>1, ReplyThread
    <3>2. QED BY <1>1, <3>1
  <2>4. CASE WriteAttach(w) BY <1>1, <2>4 DEF WriteAttach
  <2>5. CASE (Running(w, "openThread") \/ Running(w, "closing")) /\ MarkThread(w)
    BY <1>1, <2>1, <2>5, FreshShow
  <2>6. QED BY <1>1, <2>2, <2>3, <2>4, <2>5, WordsBy
<1>2. IInv /\ [SupportNext]_supportVars =>
        [FreshStep => \A w \in Workers, c \in Cases : inflight'[w] # inflight[w] =>
           \A i \in DOMAIN thread[c] : thread'[c][i].read /\ ~ thread[c][i].read =>
             i <= inflight[w].seen /\ CanSee(inflight[w].role, thread[c][i].visibility)]_supportVars
  BY <1>1
<1>3. QED BY <1>2, SupportInv, PTL DEF SupportSpec, OnlyShownIsRead
=============================================================================
