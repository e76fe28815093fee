-------------------------------- MODULE Inbound --------------------------------
(***************************************************************************)
(* What happens to the WhatsApp messages of one number before the bot sees  *)
(* them.  The webhook answers 200 first; each delivery becomes a turn behind *)
(* the last turn of the number (a promise chain held in memory), and a turn  *)
(* records its message under a unique id, so that a redelivery stops there.  *)
(* The process may die at any moment: the chain goes with it, the rows stay. *)
(***************************************************************************)
EXTENDS Naturals, FiniteSets

CONSTANTS
  Messages,    \* WhatsApp message ids
  Turns        \* bound: deliveries, each a turn; the naturals 1..n

ASSUME InboundAssumption == Turns \subseteq Nat \ {0}

VARIABLES
  turn,      \* per delivery: its message, the turn it waits for, its step
  tail,      \* chains.get(phone): the turn the next one will wait for, or 0
  record,    \* WhatsAppMessage.status by message, "none" before the row exists
  answers,   \* how often the bot has been given each message, counted to 2
  lost       \* messages acknowledged to Meta whose row the process lost track of

inboundVars == <<turn, tail, record, answers, lost>>

-----------------------------------------------------------------------------
NoMessage == "no message"
Undelivered == [message |-> NoMessage, after |-> 0, step |-> "none"]
Steps == {"none", "waiting", "recording", "answering", "marking", "failing", "ending", "done"}

InboundInit ==
  /\ turn = [t \in Turns |-> Undelivered]
  /\ tail = 0
  /\ record = [m \in Messages |-> "none"]
  /\ answers = [m \in Messages |-> 0]
  /\ lost = {}

AtStep(t, s) == turn[t].step = s
GoTo(t, s) == turn' = [turn EXCEPT ![t].step = s]
Delivered(m) == \E t \in Turns : turn[t].message = m

\* A turn under way: between its start and its end.
UnderWay(t) == turn[t].step \in {"recording", "answering", "marking", "failing"}

-----------------------------------------------------------------------------
\* handleInbound: behind the tail, if the number has one.  Meta may deliver a
\* message again at any time.
Deliver(t, m) ==
  /\ AtStep(t, "none")
  /\ \A s \in Turns : s < t => ~ AtStep(s, "none")
  /\ turn' = [turn EXCEPT ![t] = [message |-> m, after |-> tail, step |-> "waiting"]]
  /\ tail' = t
  /\ UNCHANGED <<record, answers, lost>>

\* The promise it waits for has settled, whichever way: handleInbound catches.
Ended(t) == t # 0 => turn[t].step \in {"ending", "done"}

Start(t) ==
  /\ AtStep(t, "waiting")
  /\ Ended(turn[t].after)
  /\ GoTo(t, "recording")
  /\ UNCHANGED <<tail, record, answers, lost>>

\* recordInbound: the unique waMessageId stops a duplicate.
Fresh(m) == record[m] = "none"

\* Mutant: a message whose turn failed is taken up again when redelivered.
FreshOrFailed(m) == record[m] \in {"none", "FAILED"}

RecordInbound(t) ==
  LET m == turn[t].message IN
  /\ AtStep(t, "recording")
  /\ IF Fresh(m) THEN /\ record' = [record EXCEPT ![m] = "RECEIVED"]
                      /\ GoTo(t, "answering")
                 ELSE GoTo(t, "ending") /\ UNCHANGED record
  /\ UNCHANGED <<tail, answers, lost>>

\* A write of the message row fails.  On insert the turn rejects and is only
\* logged; on markProcessed the error is swallowed.
StoreFails(t) ==
  /\ turn[t].step \in {"recording", "marking", "failing"}
  /\ GoTo(t, "ending")
  /\ lost' = lost \cup {turn[t].message}
  /\ UNCHANGED <<tail, record, answers>>

Counted(n) == IF n = 2 THEN 2 ELSE n + 1

\* The bot takes the turn and it goes well.
Answer(t) ==
  LET m == turn[t].message IN
  /\ AtStep(t, "answering")
  /\ answers' = [answers EXCEPT ![m] = Counted(@)]
  /\ GoTo(t, "marking")
  /\ UNCHANGED <<tail, record, lost>>

\* It throws half-way; or the number is over its burst, and it never starts.
AnswerFails(t) ==
  LET m == turn[t].message IN
  /\ AtStep(t, "answering")
  /\ \E n \in {answers[m], Counted(answers[m])} : answers' = [answers EXCEPT ![m] = n]
  /\ GoTo(t, "failing")
  /\ UNCHANGED <<tail, record, lost>>

\* Mutant: the error is logged and the row left as it is.
MarkSuccess(t) ==
  /\ turn[t].step \in {"marking", "failing"}
  /\ record' = [record EXCEPT ![turn[t].message] = IF AtStep(t, "marking") THEN "PROCESSED" ELSE @]
  /\ GoTo(t, "ending")
  /\ UNCHANGED <<tail, answers, lost>>

\* markProcessed, on the way out or from the catch of processTurn.
MarkProcessed(t) ==
  /\ turn[t].step \in {"marking", "failing"}
  /\ record' = [record EXCEPT ![turn[t].message] =
                  IF AtStep(t, "marking") THEN "PROCESSED" ELSE "FAILED"]
  /\ GoTo(t, "ending")
  /\ UNCHANGED <<tail, answers, lost>>

\* Mutant: the chain of the number is dropped whoever is behind this turn.
DropChain(t) == 0

\* next.finally: the chain is dropped only when nobody has queued behind.
TailAfter(t) == IF tail = t THEN 0 ELSE tail

End(t) ==
  /\ AtStep(t, "ending")
  /\ GoTo(t, "done")
  /\ tail' = TailAfter(t)
  /\ UNCHANGED <<record, answers, lost>>

\* Deploy or crash: the chain and the turn under way are gone.  Meta was
\* answered, so nothing delivered so far comes again by itself.
Crash ==
  /\ \E t \in Turns : turn[t].step \notin {"none", "done"}
  /\ lost' = lost \cup {turn[t].message : t \in {s \in Turns :
                          turn[s].step \in {"waiting", "recording", "answering", "marking", "failing"}}}
  /\ turn' = [t \in Turns |-> IF AtStep(t, "none") THEN turn[t]
                              ELSE [turn[t] EXCEPT !.step = "done"]]
  /\ tail' = 0
  /\ UNCHANGED <<record, answers>>

TurnStep ==
  \E t \in Turns :
    Start(t) \/ RecordInbound(t) \/ Answer(t) \/ MarkProcessed(t) \/ End(t)

InboundNext ==
  \/ \E t \in Turns, m \in Messages : Deliver(t, m)
  \/ TurnStep
  \/ \E t \in Turns : StoreFails(t) \/ AnswerFails(t)
  \/ Crash

\* A turn that has begun is carried on: Node runs whatever is ready.
InboundFairness == WF_inboundVars(TurnStep)

InboundSpec == InboundInit /\ [][InboundNext]_inboundVars /\ InboundFairness

-----------------------------------------------------------------------------
InboundTypeOK ==
  /\ turn \in [Turns -> [message : Messages \cup {NoMessage}, after : Turns \cup {0},
                         step : Steps]]
  /\ tail \in Turns \cup {0}
  /\ record \in [Messages -> {"none", "RECEIVED", "PROCESSED", "FAILED"}]
  /\ answers \in [Messages -> 0..2]
  /\ lost \subseteq Messages

\* "Turns for one number are serialised": two turns of a number are never under
\* way together, whatever queued up while an earlier turn was ending and whatever
\* crashed; and no redelivery puts a message before the bot twice.
SerialTurns ==
  /\ \A s, t \in Turns : UnderWay(s) /\ UnderWay(t) => s = t
  /\ \A m \in Messages : answers[m] <= 1

\* A message that was acknowledged ends up processed or marked failed, unless the
\* process died with it or the row could not be written.  Failed turns do not hold up
\* the ones queued behind them.
EveryMessageSettles ==
  \A m \in Messages :
    Delivered(m) ~> record[m] \in {"PROCESSED", "FAILED"} \/ m \in lost
=============================================================================
