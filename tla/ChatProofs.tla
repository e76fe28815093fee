------------------------------ MODULE ChatProofs ------------------------------
(***************************************************************************)
(* TLAPS proofs about Chat, for any number of conversations and requests:   *)
(* what a block stops, and when the words of a message are final.           *)
(***************************************************************************)
EXTENDS Chat, HandlerProofs, SequenceTheorems

USE ChatAssumption

-----------------------------------------------------------------------------
(* The inductive invariant                                                  *)

TalkTyped ==
  /\ opened \subseteq Threads
  /\ letters \in [Threads -> Seq(Letter)]
  /\ bell \in [Threads -> [Sides -> Nat]]
  /\ blockers \in [Threads -> SUBSET Sides]

\* What a handler found, as long as nothing has overtaken it.
TalkFresh(r) ==
  /\ r.op \in {"send", "openConversation"} => blockers[r.on] = {}
  /\ r.op = "edit" => Editable(r.on, r.index, r.side)

\* Messages are never removed, so an edit's message is there, overtaken or not.
TalkRequestOK(r) ==
  r \in ChatRequest /\ (r.op = "edit" => r.index \in DOMAIN letters[r.on])

TalkInOrder(w) ==
  ~ Idle(w) /\ inflight[w].op \in ChatOps =>
    TalkRequestOK(inflight[w]) /\ (w \notin overtaken => TalkFresh(inflight[w]))

TalkRequestsOK == \A w \in Workers : TalkInOrder(w)

TalkInv == InflightOK /\ TalkTyped /\ TalkRequestsOK

-----------------------------------------------------------------------------
(* Requests in flight                                                       *)

\* A conversation has two sides, so there is another.
LEMMA OtherSide ==
  ASSUME NEW side \in Sides
  PROVE  Other(side) \in Sides
<1>1. \E s \in Sides : s # side OBVIOUS
<1>2. QED BY <1>1 DEF Other

\* What a handler begins with is a request.
LEMMA RequestType ==
  ASSUME NEW o \in ChatOps, NEW k \in Threads, NEW side \in Sides
  PROVE  ChatReq(o, k, side) \in ChatRequest
BY DEF ChatReq, ChatRequest

\* A step that changes no row and leaves worker w with r.
LEMMA SameTalk ==
  ASSUME TalkInv, NEW w \in Workers, NEW r, UNCHANGED chatRows,
         Begin(w, r) \/ Drop(w), Begin(w, r) => TalkRequestOK(r) /\ TalkFresh(r)
  PROVE  TalkInv'
<1>1. TalkTyped' BY DEF TalkInv, TalkTyped, chatRows
<1>2. /\ InflightOK' /\ overtaken \ {w} \subseteq overtaken'
      /\ \A v \in Workers : v # w => inflight'[v] = inflight[v]
      /\ Drop(w) => inflight'[w] = Null
      /\ Begin(w, r) => inflight'[w] = r
  BY GoesOn, Ends DEF TalkInv
<1>3. UNCHANGED <<letters, blockers>> BY DEF chatRows
<1>4. ASSUME NEW v \in Workers PROVE TalkInOrder(v)'
  <2>1. CASE v # w
    <3>1. TalkInOrder(v) BY DEF TalkInv, TalkRequestsOK
    <3>2. QED BY <1>2, <1>3, <2>1, <3>1 DEF TalkInOrder, Idle, TalkRequestOK, TalkFresh, Editable
  <2>2. CASE v = w /\ Drop(w) BY <1>2, <2>2 DEF TalkInOrder, Idle
  <2>3. CASE v = w /\ Begin(w, r)
    BY <1>2, <1>3, <2>3 DEF TalkInOrder, TalkRequestOK, TalkFresh, Editable
  <2>4. QED BY <2>1, <2>2, <2>3
<1>5. QED BY <1>1, <1>2, <1>4 DEF TalkInv, TalkRequestsOK

\* A write on conversation k, for the requests V that take no part in it.
LEMMA OthersTalk ==
  ASSUME TalkInv, NEW k \in Threads, NEW V \in SUBSET Workers,
         \A v \in V : inflight'[v] = inflight[v],
         overtaken \cap V \subseteq overtaken',
         \A v \in V : ~ Idle(v) /\ inflight[v].on = k => v \in overtaken',
         \A d \in Threads \ {k} : letters'[d] = letters[d] /\ blockers'[d] = blockers[d],
         DOMAIN letters[k] \subseteq DOMAIN letters'[k]
  PROVE  \A v \in V : TalkInOrder(v)'
<1> SUFFICES ASSUME NEW v \in V, ~ Idle(v), inflight[v].op \in ChatOps
             PROVE  TalkInOrder(v)'
  BY DEF TalkInOrder, Idle
<1> DEFINE q == inflight[v]
<1>1. TalkInOrder(v) /\ inflight'[v] = q BY DEF TalkInv, TalkRequestsOK
<1>2. q \in ChatRequest /\ q.on \in Threads
      /\ (q.op = "edit" => q.index \in DOMAIN letters[q.on])
  BY <1>1 DEF TalkInOrder, TalkRequestOK, ChatRequest
<1>3. q.op = "edit" => q.index \in DOMAIN letters'[q.on]
  <2>1. CASE q.on = k BY <1>2, <2>1
  <2>2. CASE q.on # k BY <1>2, <2>2
  <2>3. QED BY <2>1, <2>2
<1>4. ASSUME v \notin overtaken' PROVE TalkFresh(q)'
  <2>1. q.on # k /\ TalkFresh(q) BY <1>1, <1>4 DEF TalkInOrder
  <2>2. QED BY <1>1, <1>2, <2>1 DEF TalkFresh, Editable
<1>5. QED BY <1>1, <1>2, <1>3, <1>4 DEF TalkInOrder, TalkRequestOK

\* Worker w has committed on its conversation, and is done or has work left
\* that rests on nothing it has read.
LEMMA Committed ==
  ASSUME TalkInv, NEW w \in Workers, NEW r, inflight[w].on \in Threads,
         Commit(w) \/ (CommitThen(w, r) /\ r \in ChatRequest /\ r.op \in {"notify", "read"}),
         \A d \in Threads \ {inflight[w].on} :
           letters'[d] = letters[d] /\ blockers'[d] = blockers[d],
         DOMAIN letters[inflight[w].on] \subseteq DOMAIN letters'[inflight[w].on]
  PROVE  InflightOK' /\ TalkRequestsOK'
<1> DEFINE V == Workers \ {w}
<1>1. /\ InflightOK' /\ \A v \in V : inflight'[v] = inflight[v]
      /\ overtaken \cap V \subseteq overtaken'
      /\ Commit(w) => inflight'[w] = Null
      /\ CommitThen(w, r) => inflight'[w] = r
  BY GoesOn, Ends DEF TalkInv
<1>2. \A v \in V : ~ Idle(v) /\ inflight[v].on = inflight[w].on => v \in overtaken'
  BY CommitOvertakes DEF TalkInv
<1>3. V \in SUBSET Workers OBVIOUS
<1>4. \A v \in V : TalkInOrder(v)'
  <2> HIDE DEF V
  <2>1. QED BY <1>1, <1>2, <1>3, OthersTalk
<1>5. TalkInOrder(w)'
  <2>1. CASE Commit(w) BY <1>1, <2>1 DEF TalkInOrder, Idle
  <2>2. CASE CommitThen(w, r) /\ r \in ChatRequest /\ r.op \in {"notify", "read"}
    BY <1>1, <2>2 DEF TalkInOrder, TalkRequestOK, TalkFresh
  <2>3. QED BY <2>1, <2>2
<1>6. QED BY <1>1, <1>4, <1>5 DEF TalkRequestsOK

\* A handler that is one statement on conversation k.
LEMMA CommittedAtOnce ==
  ASSUME TalkInv, NEW k \in Threads, CommitAtOnce(k),
         \A d \in Threads \ {k} : letters'[d] = letters[d] /\ blockers'[d] = blockers[d],
         DOMAIN letters[k] \subseteq DOMAIN letters'[k]
  PROVE  InflightOK' /\ TalkRequestsOK'
<1>1. /\ InflightOK' /\ inflight' = inflight /\ overtaken \subseteq overtaken'
      /\ \A v \in Workers : ~ Idle(v) /\ inflight[v].on = k => v \in overtaken'
  BY AtOnce DEF TalkInv
<1>2. \A v \in Workers : TalkInOrder(v)' BY <1>1, OthersTalk
<1>3. QED BY <1>1, <1>2 DEF TalkRequestsOK

\* What is known of a worker at its write: a typed request, right if nothing overtook it.
LEMMA TalkWriter ==
  ASSUME TalkInv, NEW w \in Workers, NEW o \in ChatOps, Running(w, o)
  PROVE  /\ ~ Idle(w) /\ TalkRequestOK(inflight[w]) /\ inflight[w].on \in Threads
         /\ inflight[w].side \in Sides /\ inflight[w].op = o
         /\ w \notin overtaken => TalkFresh(inflight[w])
BY DEF TalkInv, TalkRequestsOK, TalkInOrder, Running, Idle, TalkRequestOK, ChatRequest

-----------------------------------------------------------------------------
(* Steps that write no message                                              *)

\* A handler that has only read changes no row.
LEMMA ReadInv ==
  ASSUME TalkInv, NEW w \in Workers, NEW k \in Threads, NEW side \in Sides,
         \/ ReadOpen(w, k, side) \/ ReadSend(w, k, side) \/ ReadRead(w, k, side)
         \/ \E i \in 1..MaxLetters : ReadEdit(w, k, i, side)
  PROVE  TalkInv'
<1>1. CASE ReadOpen(w, k, side)
  <2> DEFINE r == ChatReq("openConversation", k, side)
  <2>1. r \in ChatRequest BY RequestType DEF ChatOps
  <2>2. TalkRequestOK(r) /\ TalkFresh(r)
    BY <1>1, <2>1 DEF ReadOpen, BlockExists, ChatReq, TalkRequestOK, TalkFresh
  <2>3. Begin(w, r) /\ UNCHANGED chatRows BY <1>1 DEF ReadOpen
  <2> HIDE DEF r
  <2>4. QED BY <2>2, <2>3, SameTalk
<1>2. CASE ReadSend(w, k, side)
  <2> DEFINE r == ChatReq("send", k, side)
  <2>1. r \in ChatRequest BY RequestType DEF ChatOps
  <2>2. TalkRequestOK(r) /\ TalkFresh(r)
    BY <1>2, <2>1 DEF ReadSend, BlockExists, ChatReq, TalkRequestOK, TalkFresh
  <2>3. Begin(w, r) /\ UNCHANGED chatRows BY <1>2 DEF ReadSend
  <2> HIDE DEF r
  <2>4. QED BY <2>2, <2>3, SameTalk
<1>3. CASE ReadRead(w, k, side)
  <2> DEFINE r == [ChatReq("read", k, side) EXCEPT !.left = {"messages", "bell"}]
  <2>1. r \in ChatRequest BY DEF ChatReq, ChatRequest, ChatOps
  <2>2. TalkRequestOK(r) /\ TalkFresh(r) BY <2>1 DEF ChatReq, TalkRequestOK, TalkFresh
  <2>3. Begin(w, r) /\ UNCHANGED chatRows BY <1>3 DEF ReadRead
  <2> HIDE DEF r
  <2>4. QED BY <2>2, <2>3, SameTalk
<1>4. ASSUME NEW i \in 1..MaxLetters, ReadEdit(w, k, i, side) PROVE TalkInv'
  <2> DEFINE r == [ChatReq("edit", k, side) EXCEPT !.index = i]
  <2>1. r \in ChatRequest BY DEF ChatReq, ChatRequest, ChatOps
  <2>2. r.op = "edit" /\ r.on = k /\ r.index = i /\ r.side = side BY DEF ChatReq
  <2>3. Begin(w, r) /\ UNCHANGED chatRows /\ Editable(k, i, side) BY <1>4 DEF ReadEdit
  <2> HIDE DEF r
  <2>4. TalkRequestOK(r) /\ TalkFresh(r) BY <2>1, <2>2, <2>3 DEF TalkRequestOK, TalkFresh, Editable
  <2>5. QED BY <2>3, <2>4, SameTalk
<1>5. QED BY <1>1, <1>2, <1>3, <1>4

\* A request that dies changes no row.
LEMMA DropTalk ==
  ASSUME TalkInv, NEW w \in Workers, DropChat(w)
  PROVE  TalkInv'
BY SameTalk DEF DropChat, Drop, Begin, Idle

\* Opening a conversation touches no message.
LEMMA OpenInv ==
  ASSUME TalkInv, NEW w \in Workers, WriteOpen(w)
  PROVE  TalkInv'
<1>1. inflight[w].on \in Threads BY TalkWriter DEF WriteOpen, Running, ChatOps
<1>2. Commit(w) /\ UNCHANGED <<letters, bell, blockers>> BY DEF WriteOpen
<1>3. TalkTyped' BY <1>1 DEF TalkInv, TalkTyped, WriteOpen
<1>4. QED BY <1>1, <1>2, <1>3, Committed DEF TalkInv

\* A block, or its end, overtakes the requests on that conversation.
LEMMA BlockInv ==
  ASSUME TalkInv, NEW k \in Threads, NEW side \in Sides, BlockUser(k, side) \/ UnblockUser(k, side)
  PROVE  TalkInv'
<1>1. CommitAtOnce(k) /\ UNCHANGED <<opened, letters, bell>>
  BY DEF BlockUser, UnblockUser
<1>2. PICK b \in SUBSET Sides : blockers' = [blockers EXCEPT ![k] = b]
  <2>1. blockers[k] \in SUBSET Sides BY DEF TalkInv, TalkTyped
  <2>2. blockers[k] \cup {side} \in SUBSET Sides /\ blockers[k] \ {side} \in SUBSET Sides
    BY <2>1
  <2>3. QED BY <2>2 DEF BlockUser, UnblockUser
<1>3. TalkTyped' BY <1>1, <1>2 DEF TalkInv, TalkTyped
<1>4. QED BY <1>1, <1>2, <1>3, CommittedAtOnce DEF TalkInv

\* A bell that is rung, or cleared.
LEMMA BellType ==
  ASSUME TalkTyped, NEW k \in Threads, NEW side \in Sides, NEW n \in Nat,
         bell' = [bell EXCEPT ![k][side] = n]
  PROVE  bell' \in [Threads -> [Sides -> Nat]]
<1> DEFINE row == [bell[k] EXCEPT ![side] = n]
<1>1. row \in [Sides -> Nat] BY DEF TalkTyped
<1>2. bell' = [bell EXCEPT ![k] = row] BY DEF TalkTyped
<1> HIDE DEF row
<1>3. QED BY <1>1, <1>2 DEF TalkTyped

\* The bell of a new message is rung beside whatever else happens.
LEMMA NotifyInv ==
  ASSUME TalkInv, NEW w \in Workers, Notify(w)
  PROVE  TalkInv'
<1> DEFINE k == inflight[w].on
           side == Other(inflight[w].side)
<1>1. k \in Threads /\ side \in Sides
  BY TalkWriter, OtherSide DEF Notify, Running, ChatOps
<1>2. Commit(w) /\ UNCHANGED <<opened, letters, blockers>> BY DEF Notify
<1>3. bell[k][side] + 1 \in Nat BY <1>1 DEF TalkInv, TalkTyped
<1>4. bell' = [bell EXCEPT ![k][side] = bell[k][side] + 1] BY DEF Notify
<1>5. bell' \in [Threads -> [Sides -> Nat]]
  <2> HIDE DEF k, side
  <2>1. QED BY <1>1, <1>3, <1>4, BellType DEF TalkInv
<1>6. TalkTyped' BY <1>2, <1>5 DEF TalkInv, TalkTyped
<1>7. QED BY <1>1, <1>2, <1>6, Committed DEF TalkInv

\* What is left of a read after one of its statements.
LEMMA ReadGoesOn ==
  ASSUME TalkInv, NEW w \in Workers, NEW part, Running(w, "read"), ReadDone(w, part)
  PROVE  LET r == [inflight[w] EXCEPT !.left = @ \ {part}] IN
         /\ inflight[w].on \in Threads /\ inflight[w].side \in Sides
         /\ Commit(w) \/ (CommitThen(w, r) /\ r \in ChatRequest /\ r.op \in {"notify", "read"})
<1>1. TalkRequestOK(inflight[w]) /\ inflight[w].op = "read"
      /\ inflight[w].on \in Threads /\ inflight[w].side \in Sides
  BY TalkWriter DEF ChatOps
<1>2. [inflight[w] EXCEPT !.left = @ \ {part}] \in ChatRequest
      /\ [inflight[w] EXCEPT !.left = @ \ {part}].op = "read"
  BY <1>1 DEF TalkRequestOK, ChatRequest
<1>3. QED BY <1>1, <1>2 DEF ReadDone

\* Reading empties the reader's bell, and may still have the messages to mark.
LEMMA MarkBellInv ==
  ASSUME TalkInv, NEW w \in Workers, MarkBell(w)
  PROVE  TalkInv'
<1> DEFINE r == [inflight[w] EXCEPT !.left = @ \ {"bell"}]
<1>1. /\ inflight[w].on \in Threads /\ inflight[w].side \in Sides
      /\ Commit(w) \/ (CommitThen(w, r) /\ r \in ChatRequest /\ r.op \in {"notify", "read"})
  BY ReadGoesOn DEF MarkBell
<1>2. bell' = [bell EXCEPT ![inflight[w].on][inflight[w].side] = 0]
      /\ UNCHANGED <<opened, letters, blockers>>
  BY DEF MarkBell
<1> HIDE DEF r
<1>3. bell' \in [Threads -> [Sides -> Nat]] BY <1>1, <1>2, BellType DEF TalkInv
<1>4. TalkTyped' BY <1>2, <1>3 DEF TalkInv, TalkTyped
<1>5. QED BY <1>1, <1>2, <1>4, Committed DEF TalkInv

-----------------------------------------------------------------------------
(* Steps that write a message                                               *)

\* A thread is replaced.
LEMMA ThreadWritten ==
  ASSUME TalkTyped, NEW k \in Threads, NEW t \in Seq(Letter), letters' = [letters EXCEPT ![k] = t]
  PROVE  /\ letters' \in [Threads -> Seq(Letter)] /\ letters'[k] = t
         /\ \A d \in Threads \ {k} : letters'[d] = letters[d]
BY DEF TalkTyped

\* One message of a thread is replaced.
LEMMA LetterWritten ==
  ASSUME TalkTyped, NEW k \in Threads, NEW i \in DOMAIN letters[k], NEW x \in Letter,
         letters' = [letters EXCEPT ![k] = [letters[k] EXCEPT ![i] = x]]
  PROVE  /\ letters' \in [Threads -> Seq(Letter)]
         /\ \A d \in Threads \ {k} : letters'[d] = letters[d]
         /\ DOMAIN letters'[k] = DOMAIN letters[k] /\ Len(letters'[k]) = Len(letters[k])
         /\ \A j \in DOMAIN letters[k] : letters'[k][j] = IF j = i THEN x ELSE letters[k][j]
<1> DEFINE t == [letters[k] EXCEPT ![i] = x]
<1>1. letters[k] \in Seq(Letter) BY DEF TalkTyped
<1>2. i \in 1 .. Len(letters[k]) BY <1>1, LenProperties
<1>3. /\ t \in Seq(Letter) /\ Len(t) = Len(letters[k])
      /\ \A j \in 1 .. Len(letters[k]) : t[j] = IF j = i THEN x ELSE letters[k][j]
  BY <1>1, <1>2, ExceptSeq
<1>4. DOMAIN t = DOMAIN letters[k] /\ DOMAIN letters[k] = 1 .. Len(letters[k])
  BY <1>1, <1>3, LenProperties
<1> HIDE DEF t
<1>5. letters' = [letters EXCEPT ![k] = t] BY DEF t
<1>6. /\ letters' \in [Threads -> Seq(Letter)] /\ letters'[k] = t
      /\ \A d \in Threads \ {k} : letters'[d] = letters[d]
  BY <1>3, <1>5, ThreadWritten
<1>7. QED BY <1>3, <1>4, <1>6

\* A message of a conversation has its type.
LEMMA LetterType ==
  ASSUME TalkTyped, NEW k \in Threads, NEW i \in DOMAIN letters[k]
  PROVE  letters[k][i] \in Letter
<1>1. letters[k] \in Seq(Letter) BY DEF TalkTyped
<1>2. QED BY <1>1, LenProperties, ElementOfSeq

\* An edit swaps the words of its message and nothing else.
LEMMA EditWords ==
  ASSUME TalkInv, NEW w \in Workers, WriteEdit(w)
  PROVE  LET k == inflight[w].on  i == inflight[w].index IN
         /\ k \in Threads /\ i \in DOMAIN letters[k] /\ Commit(w)
         /\ UNCHANGED <<opened, bell, blockers>>
         /\ letters' \in [Threads -> Seq(Letter)]
         /\ \A d \in Threads \ {k} : letters'[d] = letters[d]
         /\ DOMAIN letters'[k] = DOMAIN letters[k] /\ Len(letters'[k]) = Len(letters[k])
         /\ \A j \in DOMAIN letters[k] : j # i => letters'[k][j] = letters[k][j]
<1> DEFINE k == inflight[w].on
           i == inflight[w].index
           x == [letters[k][i] EXCEPT !.words = IF @ = 1 THEN 2 ELSE 1]
<1>1. k \in Threads /\ i \in DOMAIN letters[k] /\ TalkTyped
  BY TalkWriter DEF WriteEdit, Running, ChatOps, TalkRequestOK, TalkInv
<1>2. letters[k][i] \in Letter BY <1>1, LetterType
<1>3. x \in Letter BY <1>2 DEF Letter
<1>4. letters' = [letters EXCEPT ![k] = [letters[k] EXCEPT ![i] = x]]
  BY DEF WriteEdit
<1> HIDE DEF x
<1>5. /\ letters' \in [Threads -> Seq(Letter)]
      /\ \A d \in Threads \ {k} : letters'[d] = letters[d]
      /\ DOMAIN letters'[k] = DOMAIN letters[k] /\ Len(letters'[k]) = Len(letters[k])
      /\ \A j \in DOMAIN letters[k] : letters'[k][j] = IF j = i THEN x ELSE letters[k][j]
  <2> HIDE DEF k, i
  <2>1. QED BY <1>1, <1>3, <1>4, LetterWritten
<1>6. QED BY <1>1, <1>5 DEF WriteEdit

\* A deletion empties its message.
LEMMA DeleteWords ==
  ASSUME TalkInv, NEW k \in Threads, NEW i, DeleteLetter(k, i)
  PROVE  /\ i \in DOMAIN letters[k] /\ CommitAtOnce(k)
         /\ UNCHANGED <<opened, bell, blockers>>
         /\ letters' \in [Threads -> Seq(Letter)]
         /\ \A d \in Threads \ {k} : letters'[d] = letters[d]
         /\ DOMAIN letters'[k] = DOMAIN letters[k] /\ Len(letters'[k]) = Len(letters[k])
         /\ \A j \in DOMAIN letters[k] : j # i => letters'[k][j] = letters[k][j]
         /\ letters'[k][i].words = 0
<1> DEFINE y == [letters[k][i] EXCEPT !.words = 0]
           x == [y EXCEPT !.deleted = TRUE]
<1>1. i \in DOMAIN letters[k] /\ TalkTyped BY DEF DeleteLetter, TalkInv
<1>2. letters[k][i] \in Letter BY <1>1, LetterType
<1>3. x \in Letter /\ x.words = 0
  <2>1. y \in Letter /\ y.words = 0 BY <1>2 DEF Letter
  <2> HIDE DEF y
  <2>2. QED BY <2>1 DEF Letter
<1>4. letters' = [letters EXCEPT ![k] = [letters[k] EXCEPT ![i] = x]]
  BY <1>1 DEF DeleteLetter, TalkTyped
<1> HIDE DEF x, y
<1>5. /\ letters' \in [Threads -> Seq(Letter)]
      /\ \A d \in Threads \ {k} : letters'[d] = letters[d]
      /\ DOMAIN letters'[k] = DOMAIN letters[k] /\ Len(letters'[k]) = Len(letters[k])
      /\ \A j \in DOMAIN letters[k] : letters'[k][j] = IF j = i THEN x ELSE letters[k][j]
  BY <1>1, <1>3, <1>4, LetterWritten
<1>6. QED BY <1>1, <1>3, <1>5 DEF DeleteLetter

\* A message sent comes last.
LEMMA SendWords ==
  ASSUME TalkInv, NEW w \in Workers, WriteSend(w)
  PROVE  LET k == inflight[w].on  r == ChatReq("notify", k, inflight[w].side) IN
         /\ k \in Threads /\ CommitThen(w, r) /\ r \in ChatRequest /\ r.op = "notify"
         /\ UNCHANGED <<opened, bell, blockers>>
         /\ letters' \in [Threads -> Seq(Letter)]
         /\ \A d \in Threads \ {k} : letters'[d] = letters[d]
         /\ DOMAIN letters[k] \subseteq DOMAIN letters'[k]
         /\ \A j \in DOMAIN letters[k] : letters'[k][j] = letters[k][j]
<1> DEFINE k == inflight[w].on
           side == inflight[w].side
           x == [from |-> side, words |-> 1, isRead |-> FALSE, deleted |-> FALSE]
           t == Append(letters[k], x)
<1>1. k \in Threads /\ side \in Sides /\ TalkTyped
  BY TalkWriter DEF WriteSend, Running, ChatOps, TalkInv
<1>2. x \in Letter BY <1>1 DEF Letter
<1>3. letters[k] \in Seq(Letter) BY <1>1 DEF TalkTyped
<1>4. letters' = [letters EXCEPT ![k] = t] BY DEF WriteSend
<1> HIDE DEF x
<1>5. /\ t \in Seq(Letter) /\ Len(t) = Len(letters[k]) + 1 /\ Len(letters[k]) \in Nat
      /\ \A j \in 1 .. Len(letters[k]) : t[j] = letters[k][j]
  BY <1>2, <1>3, AppendProperties, LenProperties
<1>6. /\ DOMAIN letters[k] = 1 .. Len(letters[k])
      /\ DOMAIN t = 1 .. (Len(letters[k]) + 1)
  BY <1>3, <1>5, LenProperties
<1> HIDE DEF t
<1>7. /\ letters' \in [Threads -> Seq(Letter)] /\ letters'[k] = t
      /\ \A d \in Threads \ {k} : letters'[d] = letters[d]
  <2> HIDE DEF k
  <2>1. QED BY <1>1, <1>4, <1>5, ThreadWritten
<1>8. ChatReq("notify", k, side) \in ChatRequest /\ ChatReq("notify", k, side).op = "notify"
  BY <1>1, RequestType DEF ChatOps, ChatReq
<1>9. QED BY <1>1, <1>5, <1>6, <1>7, <1>8 DEF WriteSend

\* Reading changes no words.
LEMMA MarkWords ==
  ASSUME TalkInv, NEW w \in Workers, MarkLetters(w)
  PROVE  LET k == inflight[w].on IN
         /\ k \in Threads /\ UNCHANGED <<opened, bell, blockers>>
         /\ letters' \in [Threads -> Seq(Letter)]
         /\ \A d \in Threads \ {k} : letters'[d] = letters[d]
         /\ DOMAIN letters'[k] = DOMAIN letters[k] /\ Len(letters'[k]) = Len(letters[k])
         /\ \A j \in DOMAIN letters[k] : letters'[k][j].words = letters[k][j].words
<1> DEFINE k == inflight[w].on
           s == letters[k]
           n == Len(s)
           m(i) == [s[i] EXCEPT !.isRead = @ \/ i \in Unread(k, inflight[w].side)]
           t == [i \in 1 .. n |-> m(i)]
<1>1. k \in Threads /\ TalkTyped BY TalkWriter DEF MarkLetters, Running, ChatOps, TalkInv
<1>2. s \in Seq(Letter) BY <1>1 DEF TalkTyped
<1>3. n \in Nat /\ DOMAIN s = 1 .. n BY <1>2, LenProperties
<1>4. ASSUME NEW i \in 1 .. n PROVE m(i) \in Letter /\ m(i).words = s[i].words
  <2>1. s[i] \in Letter BY <1>2, ElementOfSeq
  <2>2. QED BY <2>1 DEF Letter
<1>5. letters' = [letters EXCEPT ![k] = t]
  <2> DEFINE u == [i \in DOMAIN s |-> m(i)]
  <2>1. letters' = [letters EXCEPT ![k] = u] BY DEF MarkLetters
  <2>2. u = t BY <1>3
  <2>3. QED BY <2>1, <2>2
<1>6. t \in [1 .. n -> Letter] /\ DOMAIN t = 1 .. n /\ \A i \in 1 .. n : t[i] = m(i)
  <2> HIDE DEF m, n
  <2>1. QED BY <1>4
<1>7. t \in Seq(Letter)
  <2> HIDE DEF t, n
  <2>1. QED BY <1>3, <1>6, SeqDef
<1>8. Len(t) = n
  <2>1. Len(t) \in Nat /\ 1 .. Len(t) = 1 .. n BY <1>6, <1>7, LenProperties
  <2> HIDE DEF t, n
  <2>2. QED BY <1>3, <2>1
<1>9. /\ letters' \in [Threads -> Seq(Letter)] /\ letters'[k] = t
      /\ \A d \in Threads \ {k} : letters'[d] = letters[d]
  <2> HIDE DEF k, t
  <2>1. QED BY <1>1, <1>5, <1>7, ThreadWritten
<1> HIDE DEF t, m
<1>10. QED BY <1>1, <1>3, <1>4, <1>6, <1>8, <1>9 DEF MarkLetters

\* The writes to messages.
LEMMA LettersInv ==
  ASSUME TalkInv, NEW w \in Workers, WriteEdit(w) \/ WriteSend(w) \/ MarkLetters(w)
  PROVE  TalkInv'
<1>1. TalkTyped' BY EditWords, SendWords, MarkWords DEF TalkInv, TalkTyped
<1>2. CASE WriteEdit(w) BY <1>1, <1>2, EditWords, Committed DEF TalkInv
<1>3. CASE WriteSend(w)
  <2> DEFINE r == ChatReq("notify", inflight[w].on, inflight[w].side)
  <2>1. CommitThen(w, r) /\ r \in ChatRequest /\ r.op = "notify" BY <1>3, SendWords
  <2> HIDE DEF r
  <2>2. QED BY <1>1, <1>3, <2>1, SendWords, Committed DEF TalkInv
<1>4. CASE MarkLetters(w)
  <2> DEFINE r == [inflight[w] EXCEPT !.left = @ \ {"messages"}]
  <2>1. Commit(w) \/ (CommitThen(w, r) /\ r \in ChatRequest /\ r.op \in {"notify", "read"})
    BY <1>4, ReadGoesOn DEF MarkLetters
  <2> HIDE DEF r
  <2>2. QED BY <1>1, <1>4, <2>1, MarkWords, Committed DEF TalkInv
<1>5. QED BY <1>2, <1>3, <1>4

\* A deletion is one statement.
LEMMA DeleteInv ==
  ASSUME TalkInv, NEW k \in Threads, NEW i \in 1..MaxLetters, DeleteLetter(k, i)
  PROVE  TalkInv'
<1>1. TalkTyped' BY DeleteWords DEF TalkInv, TalkTyped
<1>2. QED BY <1>1, DeleteWords, CommittedAtOnce DEF TalkInv

-----------------------------------------------------------------------------
(* The invariant                                                            *)

\* The invariant holds at first,
LEMMA TalkBegins == ChatInit => TalkInv
<1> SUFFICES ASSUME ChatInit PROVE TalkInv OBVIOUS
<1>1. InflightOK /\ TalkRequestsOK
  BY NoneInflight DEF ChatInit, TalkRequestsOK, TalkInOrder, Idle
<1>2. TalkTyped BY DEF ChatInit, TalkTyped
<1>3. QED BY <1>1, <1>2 DEF TalkInv

\* every step keeps it,
LEMMA TalkGoesOn ==
  ASSUME TalkInv, [ChatNext]_chatVars
  PROVE  TalkInv'
<1>1. CASE UNCHANGED chatVars
  BY <1>1 DEF chatVars, chatRows, handlerVars, TalkInv, InflightOK, Idle, TalkTyped, TalkRequestsOK,
       TalkInOrder, TalkRequestOK, TalkFresh, Editable
<1>2. ASSUME NEW k \in Threads, NEW side \in Sides, BlockUser(k, side) \/ UnblockUser(k, side)
      PROVE  TalkInv'
  BY <1>2, BlockInv
<1>3. ASSUME NEW k \in Threads, NEW side \in Sides, NEW w \in Workers,
             \/ ReadOpen(w, k, side) \/ ReadSend(w, k, side) \/ ReadRead(w, k, side)
             \/ \E i \in 1..MaxLetters : ReadEdit(w, k, i, side)
      PROVE  TalkInv'
  BY <1>3, ReadInv
<1>4. ASSUME NEW k \in Threads, NEW i \in 1..MaxLetters, DeleteLetter(k, i) PROVE TalkInv'
  BY <1>4, DeleteInv
<1>5. ASSUME NEW w \in Workers,
             \/ WriteOpen(w) \/ WriteSend(w) \/ Notify(w) \/ MarkLetters(w) \/ MarkBell(w)
             \/ WriteEdit(w) \/ DropChat(w)
      PROVE  TalkInv'
  BY <1>5, OpenInv, NotifyInv, MarkBellInv, LettersInv, DropTalk
<1>6. QED BY <1>1, <1>2, <1>3, <1>4, <1>5 DEF ChatNext

\* and so it always holds.
LEMMA ChatInv == ChatSpec => []TalkInv
BY TalkBegins, TalkGoesOn, PTL DEF ChatSpec

\* Every row, and every request of the chat in flight, has its type.
THEOREM ChatTypes == ChatSpec => []ChatTypeOK
<1>1. TalkInv => ChatTypeOK
  BY DEF TalkInv, TalkTyped, TalkRequestsOK, TalkInOrder, TalkRequestOK, ChatTypeOK
<1>2. QED BY <1>1, ChatInv, PTL

-----------------------------------------------------------------------------
(* What requests that nothing overtook may never do                         *)

\* Blocked both ways: a handler that opens a conversation or delivers a message
\* had found no block, and has been overtaken if one was made since.
THEOREM BlocksSilence == ChatSpec => BlockedSilence
<1>1. ASSUME TalkInv, ChatNext, FreshStep, NEW k \in Threads, blockers[k] # {}
      PROVE  /\ k \in opened' => k \in opened
             /\ Len(letters'[k]) = Len(letters[k])
  <2>1. ASSUME NEW w \in Workers, WriteOpen(w) \/ WriteSend(w) PROVE inflight[w].on # k
    <3>1. ~ Idle(w) /\ (w \notin overtaken => blockers[inflight[w].on] = {})
          /\ inflight[w].op \in {"openConversation", "send"}
      BY <1>1, <2>1, TalkWriter DEF WriteOpen, WriteSend, Running, ChatOps, TalkFresh
    <3>2. CASE WriteOpen(w)
      <4>1. inflight'[w] = Null BY <1>1, <3>2, Ends DEF WriteOpen, TalkInv
      <4>2. QED BY <1>1, <3>1, <4>1 DEF FreshStep, Idle
    <3>3. CASE WriteSend(w)
      <4> DEFINE r == ChatReq("notify", inflight[w].on, inflight[w].side)
      <4>1. CommitThen(w, r) /\ r.op = "notify" BY <1>1, <3>3, SendWords
      <4> HIDE DEF r
      <4>2. inflight'[w] = r BY <1>1, <4>1, GoesOn DEF TalkInv
      <4>3. QED BY <1>1, <3>1, <4>1, <4>2 DEF FreshStep
    <3>4. QED BY <2>1, <3>2, <3>3
  <2>2. k \in opened' => k \in opened
    <3>1. ASSUME NEW w \in Workers, WriteOpen(w) PROVE k \in opened' => k \in opened
      BY <2>1, <3>1 DEF WriteOpen
    <3>2. QED BY <1>1, <3>1 DEF ChatNext, BlockUser, UnblockUser, ReadOpen, ReadSend, ReadRead,
            ReadEdit, DeleteLetter, WriteSend, Notify, MarkLetters, MarkBell, WriteEdit,
            DropChat, chatRows
  <2>3. ASSUME NEW w \in Workers, WriteEdit(w) \/ WriteSend(w) \/ MarkLetters(w)
        PROVE  Len(letters'[k]) = Len(letters[k])
    <3>1. CASE WriteEdit(w) BY <1>1, <3>1, EditWords
    <3>2. CASE WriteSend(w) BY <1>1, <2>1, <3>2, SendWords
    <3>3. CASE MarkLetters(w) BY <1>1, <3>3, MarkWords
    <3>4. QED BY <2>3, <3>1, <3>2, <3>3
  <2>4. ASSUME NEW d \in Threads, NEW i \in 1..MaxLetters, DeleteLetter(d, i)
        PROVE  Len(letters'[k]) = Len(letters[k])
    BY <1>1, <2>4, DeleteWords
  <2>5. Len(letters'[k]) = Len(letters[k])
    BY <1>1, <2>3, <2>4 DEF ChatNext, BlockUser, UnblockUser, ReadOpen, ReadSend, ReadRead,
       ReadEdit, WriteOpen, Notify, MarkBell, DropChat, chatRows
  <2>6. QED BY <2>2, <2>5
<1>2. TalkInv /\ [ChatNext]_chatVars =>
        [FreshStep => \A k \in Threads : blockers[k] # {} =>
           /\ k \in opened' => k \in opened
           /\ Len(letters'[k]) = Len(letters[k])]_chatVars
  BY <1>1
<1>3. QED BY <1>2, ChatInv, PTL DEF ChatSpec, BlockedSilence

\* Words that were read or withdrawn are final, except that they may be deleted.
THEOREM ReadWordsAreFinal == ChatSpec => WordsSettle
<1>1. ASSUME TalkInv, ChatNext, FreshStep, NEW k \in Threads, NEW i \in DOMAIN letters[k],
             letters[k][i].isRead \/ letters[k][i].deleted
      PROVE  letters'[k][i].words \in {letters[k][i].words, 0}
  <2>1. ASSUME NEW w \in Workers, WriteEdit(w) PROVE letters'[k][i] = letters[k][i]
    <3>1. Editable(inflight[w].on, inflight[w].index, inflight[w].side) \/ w \in overtaken
      BY <1>1, <2>1, TalkWriter DEF WriteEdit, Running, ChatOps, TalkFresh
    <3>2. inflight'[w] # inflight[w]
      BY <1>1, <2>1, Ends DEF WriteEdit, Running, TalkInv
    <3>3. ~ (inflight[w].on = k /\ inflight[w].index = i)
      BY <1>1, <3>1, <3>2 DEF FreshStep, Editable
    <3>4. QED BY <1>1, <2>1, <3>3, EditWords
  <2>2. ASSUME NEW w \in Workers, WriteSend(w) PROVE letters'[k][i] = letters[k][i]
    BY <1>1, <2>2, SendWords
  <2>3. ASSUME NEW w \in Workers, MarkLetters(w)
        PROVE  letters'[k][i].words = letters[k][i].words
    BY <1>1, <2>3, MarkWords
  <2>4. ASSUME NEW d \in Threads, NEW j \in 1..MaxLetters, DeleteLetter(d, j)
        PROVE  letters'[k][i].words \in {letters[k][i].words, 0}
    BY <1>1, <2>4, DeleteWords
  <2>5. QED
    BY <1>1, <2>1, <2>2, <2>3, <2>4 DEF ChatNext, BlockUser, UnblockUser, ReadOpen, ReadSend,
       ReadRead, ReadEdit, WriteOpen, Notify, MarkBell, DropChat, chatRows
<1>2. TalkInv /\ [ChatNext]_chatVars =>
        [FreshStep => \A k \in Threads : \A i \in DOMAIN letters[k] :
           letters[k][i].isRead \/ letters[k][i].deleted =>
             letters'[k][i].words \in {letters[k][i].words, 0}]_chatVars
  BY <1>1
<1>3. QED BY <1>2, ChatInv, PTL DEF ChatSpec, WordsSettle
=============================================================================
