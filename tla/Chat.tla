--------------------------------- MODULE Chat ---------------------------------
(***************************************************************************)
(* A conversation between the renter and the owner of a listing: messages,  *)
(* read receipts, edits and deletions, the MESSAGE notifications that stand *)
(* in for unread messages, and the blocks that end all of it.               *)
(***************************************************************************)
EXTENDS Handlers, Sequences

CONSTANTS
  Threads,     \* Conversation ids, each between a pair of its own
  Sides,       \* tenantId and ownerId; the code treats the two alike
  MaxLetters   \* bound: messages in a thread

ASSUME ChatAssumption ==
  /\ Null \notin Threads
  /\ \E renter, owner \in Sides : renter # owner /\ Sides = {renter, owner}
  /\ MaxLetters \in Nat

VARIABLES
  opened,    \* the Conversation rows that exist
  letters,   \* the Message rows of a thread, oldest first
  bell,      \* unread MESSAGE notifications of each side
  blockers   \* which sides have a UserBlock row naming the other

chatRows == <<opened, letters, bell, blockers>>
chatVars == <<chatRows, handlerVars>>

-----------------------------------------------------------------------------
Other(side) == CHOOSE s \in Sides : s # side

\* words: 0 is the empty body of a deleted message; 1 is a body, 2 a different
\* one: an edit turns either into the other.
Letter == [from : Sides, words : 0..2, isRead : BOOLEAN,
           deleted : BOOLEAN]

ChatOps == {"openConversation", "send", "notify", "read", "edit"}

\* left: the statements of applyRead still to run.  index: the message edited.
ChatRequest == [op : ChatOps, on : Threads, side : Sides,
                index : 0..MaxLetters, left : SUBSET {"messages", "bell"}]

ChatReq(o, k, side) == [op |-> o, on |-> k, side |-> side, index |-> 0, left |-> {}]

ChatInit ==
  /\ opened = {}
  /\ letters = [k \in Threads |-> << >>]
  /\ bell = [k \in Threads |-> [s \in Sides |-> 0]]
  /\ blockers = [k \in Threads |-> {}]
  /\ InflightInit

\* Mutant: only the sender's own block is looked up.
BlockSeenFrom(k, side) == side \in blockers[k]

\* blockExistsBetween: a block by either side counts.
BlockExists(k, side) == blockers[k] # {}

Unread(k, side) ==
  {i \in DOMAIN letters[k] : letters[k][i].from = Other(side) /\ ~ letters[k][i].isRead}

-----------------------------------------------------------------------------
(* Opening a thread                                                         *)

\* getOrCreateConversation, by the renter or by the owner.
ReadOpen(w, k, side) ==
  /\ k \notin opened
  /\ ~ BlockExists(k, side)
  /\ Begin(w, ChatReq("openConversation", k, side))
  /\ UNCHANGED chatRows

\* The unique (propertyId, tenantId) index refuses a second row.
WriteOpen(w) ==
  /\ Running(w, "openConversation")
  /\ inflight[w].on \notin opened
  /\ opened' = opened \cup {inflight[w].on}
  /\ Commit(w)
  /\ UNCHANGED <<letters, bell, blockers>>

-----------------------------------------------------------------------------
(* Messages                                                                 *)

ReadSend(w, k, side) ==
  /\ k \in opened
  /\ Len(letters[k]) < MaxLetters
  /\ ~ BlockExists(k, side)
  /\ Begin(w, ChatReq("send", k, side))
  /\ UNCHANGED chatRows

\* The transaction of sendMessage; the answer goes out and the recipient's
\* notification row is still to be created.
WriteSend(w) ==
  LET r == inflight[w] IN
  /\ Running(w, "send")
  /\ Len(letters[r.on]) < MaxLetters
  /\ letters' = [letters EXCEPT ![r.on] =
       Append(@, [from |-> r.side, words |-> 1, isRead |-> FALSE, deleted |-> FALSE])]
  /\ CommitThen(w, ChatReq("notify", r.on, r.side))
  /\ UNCHANGED <<opened, bell, blockers>>

\* notifyUser, not awaited by sendMessage.
Notify(w) ==
  /\ Running(w, "notify")
  /\ bell' = [bell EXCEPT ![inflight[w].on][Other(inflight[w].side)] = @ + 1]
  /\ Commit(w)
  /\ UNCHANGED <<opened, letters, blockers>>

\* getMessages and markConversationRead, which ask for no block.
ReadRead(w, k, side) ==
  /\ k \in opened
  /\ Begin(w, [ChatReq("read", k, side) EXCEPT !.left = {"messages", "bell"}])
  /\ UNCHANGED chatRows

\* applyRead: two statements sent together, run in either order.
ReadDone(w, part) ==
  IF inflight[w].left = {part} THEN Commit(w)
  ELSE CommitThen(w, [inflight[w] EXCEPT !.left = @ \ {part}])

MarkLetters(w) ==
  LET k == inflight[w].on IN
  /\ Running(w, "read") /\ "messages" \in inflight[w].left
  /\ letters' = [letters EXCEPT ![k] = [i \in DOMAIN letters[k] |->
       [letters[k][i] EXCEPT !.isRead = @ \/ i \in Unread(k, inflight[w].side)]]]
  /\ ReadDone(w, "messages")
  /\ UNCHANGED <<opened, bell, blockers>>

\* Mutant: a read takes one notification off, rung or not.
OneBellLess(w) ==
  /\ Running(w, "read") /\ "bell" \in inflight[w].left
  /\ bell' = [bell EXCEPT ![inflight[w].on][inflight[w].side] = @ - 1]
  /\ ReadDone(w, "bell")
  /\ UNCHANGED <<opened, letters, blockers>>

MarkBell(w) ==
  /\ Running(w, "read") /\ "bell" \in inflight[w].left
  /\ bell' = [bell EXCEPT ![inflight[w].on][inflight[w].side] = 0]
  /\ ReadDone(w, "bell")
  /\ UNCHANGED <<opened, letters, blockers>>

\* Mutant: a message that was read may still be edited.
EditableUnlessDeleted(k, i, side) ==
  /\ i \in DOMAIN letters[k]
  /\ letters[k][i].from = side /\ ~ letters[k][i].deleted

Editable(k, i, side) ==
  /\ i \in DOMAIN letters[k]
  /\ letters[k][i].from = side /\ ~ letters[k][i].deleted /\ ~ letters[k][i].isRead

\* editMessage up to its update.
ReadEdit(w, k, i, side) ==
  /\ Editable(k, i, side)
  /\ Begin(w, [ChatReq("edit", k, side) EXCEPT !.index = i])
  /\ UNCHANGED chatRows

WriteEdit(w) ==
  LET k == inflight[w].on  i == inflight[w].index IN
  /\ Running(w, "edit")
  /\ letters' = [letters EXCEPT ![k][i].words = IF @ = 1 THEN 2 ELSE 1]
  /\ Commit(w)
  /\ UNCHANGED <<opened, bell, blockers>>

\* deleteMessage checks only what never changes: who sent the message.
DeleteLetter(k, i) ==
  /\ i \in DOMAIN letters[k]
  /\ letters' = [letters EXCEPT ![k][i].words = 0, ![k][i].deleted = TRUE]
  /\ CommitAtOnce(k)
  /\ UNCHANGED <<opened, bell, blockers>>

-----------------------------------------------------------------------------
(* Blocking                                                                 *)

\* blockUser, an upsert.
BlockUser(k, side) ==
  /\ blockers' = [blockers EXCEPT ![k] = @ \cup {side}]
  /\ CommitAtOnce(k)
  /\ UNCHANGED <<opened, letters, bell>>

\* unblockUser, a deleteMany: only the blocks this user made.
UnblockUser(k, side) ==
  /\ blockers' = [blockers EXCEPT ![k] = @ \ {side}]
  /\ CommitAtOnce(k)
  /\ UNCHANGED <<opened, letters, bell>>

DropChat(w) == Drop(w) /\ UNCHANGED chatRows

-----------------------------------------------------------------------------
ChatNext ==
  \/ \E k \in Threads, side \in Sides :
       \/ BlockUser(k, side) \/ UnblockUser(k, side)
       \/ \E w \in Workers :
            \/ ReadOpen(w, k, side) \/ ReadSend(w, k, side) \/ ReadRead(w, k, side)
            \/ \E i \in 1..MaxLetters : ReadEdit(w, k, i, side)
  \/ \E k \in Threads, i \in 1..MaxLetters : DeleteLetter(k, i)
  \/ \E w \in Workers :
       \/ WriteOpen(w) \/ WriteSend(w) \/ Notify(w) \/ MarkLetters(w) \/ MarkBell(w)
       \/ WriteEdit(w) \/ DropChat(w)

ChatSpec == ChatInit /\ [][ChatNext]_chatVars

-----------------------------------------------------------------------------
ChatTypeOK ==
  /\ InflightOK
  /\ \A w \in Workers :
       ~ Idle(w) /\ inflight[w].op \in ChatOps => inflight[w] \in ChatRequest
  /\ opened \subseteq Threads
  /\ letters \in [Threads -> Seq(Letter)]
  /\ bell \in [Threads -> [Sides -> Nat]]
  /\ blockers \in [Threads -> SUBSET Sides]

\* Once the other person has read a message, or its sender has withdrawn it,
\* its words change no more, except to be deleted: "once the other person has
\* read it, the words are theirs too".  Only an edit that was overtaken between
\* its check and its update gets through.
WordsSettle ==
  [][FreshStep => \A k \in Threads : \A i \in DOMAIN letters[k] :
       letters[k][i].isRead \/ letters[k][i].deleted =>
         letters'[k][i].words \in {letters[k][i].words, 0}]_chatVars

\* Across a block nothing is opened and nothing is delivered, in either
\* direction, unless the block was made while the message was on its way.
BlockedSilence ==
  [][FreshStep => \A k \in Threads : blockers[k] # {} =>
       /\ k \in opened' => k \in opened
       /\ Len(letters'[k]) = Len(letters[k])]_chatVars
=============================================================================
