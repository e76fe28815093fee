---------------------------- MODULE BackgroundProofs ----------------------------
(***************************************************************************)
(* TLAPS proofs about what runs behind the requests.  Inbound: the turns of a number *)
(* stay one at a time, and a message reaches the bot once at most, for any  *)
(* number of messages and deliveries, wherever writes fail and the process  *)
(* dies.  ListingBot: what those turns, an admin, the releases and the      *)
(* reminders leave a number with, for any number of them.  Refresher: the    *)
(* order of staleness and the breaker.  Then the three of them together.     *)
(***************************************************************************)
EXTENDS MCBackground, HandlerProofs

USE InboundAssumption

-----------------------------------------------------------------------------
(* The inductive invariant                                                  *)

Row == [message : Messages \cup {NoMessage}, after : Turns \cup {0}, step : Steps]

\* A delivered turn carries a message and waits for an earlier turn, if any.
TurnsTyped ==
  /\ turn \in [Turns -> Row]
  /\ \A t \in Turns : ~ AtStep(t, "none") =>
       turn[t].message \in Messages /\ turn[t].after < t

\* Deliveries are numbered as they arrive.
InOrder == \A s, t \in Turns : s < t /\ AtStep(s, "none") => AtStep(t, "none")

\* Turns that a later delivery has to wait for.
Live(t) == turn[t].step \notin {"none", "ending", "done"}

\* The tail is behind every turn that is live, and so is what a waiting turn
\* waits for: that is why waiting for one turn is waiting for all of them.
TailBehind ==
  /\ tail \in Turns \cup {0}
  /\ tail # 0 => ~ AtStep(tail, "none")
  /\ \A s \in Turns : Live(s) => s <= tail

WaitsForAll ==
  \A s, t \in Turns : AtStep(t, "waiting") /\ s < t /\ Live(s) => s <= turn[t].after

\* Once a turn has started, the turns before it have ended.
StartsAlone ==
  \A s, t \in Turns : s < t /\ turn[t].step \notin {"none", "waiting"} => ~ Live(s)

\* The bot has seen nothing of a message without a row, nor of the message of
\* a turn that is about to answer.
SeenOnce ==
  /\ record \in [Messages -> {"none", "RECEIVED", "PROCESSED", "FAILED"}]
  /\ answers \in [Messages -> 0..1]
  /\ lost \subseteq Messages
  /\ \A m \in Messages : record[m] = "none" => answers[m] = 0
  /\ \A t \in Turns :
       /\ AtStep(t, "answering") => answers[turn[t].message] = 0
       /\ turn[t].step \in {"answering", "marking", "failing"} => record[turn[t].message] # "none"

IInv == TurnsTyped /\ InOrder /\ TailBehind /\ WaitsForAll /\ StartsAlone /\ SeenOnce

-----------------------------------------------------------------------------
(* The chain                                                                *)

\* A turn goes to its next step, and the others stay where they are.
LEMMA TurnGoes ==
  ASSUME TurnsTyped, NEW t \in Turns, NEW st \in Steps, GoTo(t, st)
  PROVE  /\ turn' \in [Turns -> Row]
         /\ \A s \in Turns :
              /\ turn'[s].message = turn[s].message /\ turn'[s].after = turn[s].after
              /\ turn'[s].step = IF s = t THEN st ELSE turn[s].step
<1> DEFINE row == [turn[t] EXCEPT !.step = st]
<1>1. turn[t] \in Row BY DEF TurnsTyped
<1>2. /\ row \in Row /\ row.message = turn[t].message /\ row.after = turn[t].after
      /\ row.step = st
  BY <1>1 DEF Row
<1>3. turn' = [turn EXCEPT ![t] = row] BY DEF GoTo
<1>4. turn \in [Turns -> Row] BY DEF TurnsTyped
<1> HIDE DEF row, Row
<1>5. QED BY <1>2, <1>3, <1>4

\* A turn that was delivered goes on or ends: the chain stays in order.
LEMMA ChainGoes ==
  ASSUME IInv, NEW t \in Turns, NEW st \in Steps \ {"none", "waiting"}, GoTo(t, st),
         ~ AtStep(t, "none"), AtStep(t, "ending") => st = "done",
         AtStep(t, "waiting") => Ended(turn[t].after),
         AtStep(t, "done") => st = "done",
         UNCHANGED tail \/ (AtStep(t, "ending") /\ tail' = TailAfter(t))
  PROVE  TurnsTyped' /\ InOrder' /\ TailBehind' /\ WaitsForAll' /\ StartsAlone'
<1>1. /\ turn' \in [Turns -> Row]
      /\ \A s \in Turns :
           /\ turn'[s].message = turn[s].message /\ turn'[s].after = turn[s].after
           /\ turn'[s].step = IF s = t THEN st ELSE turn[s].step
  BY TurnGoes DEF IInv
<1>2. \A s \in Turns : Live(s)' => Live(s) \/ s = t BY <1>1 DEF Live
<1>3. \A s \in Turns : Live(s)' => Live(s)
  BY <1>1, <1>2 DEF Live, AtStep, Steps
<1>4. TurnsTyped' /\ InOrder'
  BY <1>1 DEF IInv, TurnsTyped, InOrder, AtStep
<1>5. StartsAlone'
  <2> SUFFICES ASSUME NEW s \in Turns, NEW u \in Turns, s < u, Live(s)',
                      turn'[u].step \notin {"none", "waiting"}
               PROVE  FALSE
    BY DEF StartsAlone, Live
  <2>1. Live(s) BY <1>3
  <2>2. u = t /\ AtStep(t, "waiting")
    BY <1>1, <2>1 DEF IInv, StartsAlone, AtStep
  <2>3. s <= turn[t].after BY <2>1, <2>2 DEF IInv, WaitsForAll
  <2> DEFINE a == turn[t].after
  <2>4. a \in Turns \cup {0} /\ Ended(a) BY <2>2 DEF IInv, TurnsTyped, Row
  <2>5. a \in Turns /\ a # 0
    <3>1. s \in Nat \ {0} OBVIOUS
    <3>2. s <= a BY <2>3
    <3> HIDE DEF a
    <3>3. a # 0 BY <3>1, <3>2
    <3>4. QED BY <2>4, <3>3
  <2>6. turn[a].step \in {"ending", "done"} BY <2>4, <2>5 DEF Ended
  <2>7. CASE s = a BY <2>1, <2>6, <2>7 DEF Live
  <2>8. CASE s # a
    <3>1. s < a
      <4>1. s \in Nat /\ a \in Nat /\ s <= a BY <2>3, <2>5
      <4> HIDE DEF a
      <4>2. QED BY <2>8, <4>1
    <3>2. QED BY <2>1, <2>5, <2>6, <3>1 DEF IInv, StartsAlone
  <2>9. QED BY <2>7, <2>8
<1>6. WaitsForAll'
  BY <1>1, <1>3 DEF IInv, WaitsForAll, AtStep
<1>7. TailBehind'
  <2>1. CASE UNCHANGED tail BY <1>1, <1>3, <2>1 DEF IInv, TailBehind, AtStep
  <2>2. CASE AtStep(t, "ending") /\ tail' = TailAfter(t)
    <3>1. CASE tail # t BY <1>1, <1>3, <2>2, <3>1 DEF IInv, TailBehind, AtStep, TailAfter
    <3>2. CASE tail = t
      <4>1. ASSUME NEW s \in Turns, Live(s) PROVE FALSE
        <5>1. s <= t /\ s # t BY <2>2, <3>2, <4>1 DEF IInv, TailBehind, Live, AtStep
        <5>2. s < t BY <5>1
        <5>3. QED BY <2>2, <4>1, <5>2 DEF IInv, StartsAlone, AtStep
      <4>2. tail' = 0 BY <2>2, <3>2 DEF TailAfter
      <4>3. QED BY <1>3, <4>1, <4>2 DEF TailBehind
    <3>3. QED BY <3>1, <3>2
  <2>3. QED BY <2>1, <2>2
<1>8. QED BY <1>4, <1>5, <1>6, <1>7

\* A delivery goes behind every turn that is live.
LEMMA DeliverInv ==
  ASSUME IInv, NEW t \in Turns, NEW m \in Messages, Deliver(t, m)
  PROVE  IInv'
<1> DEFINE row == [message |-> m, after |-> tail, step |-> "waiting"]
<1>1. row \in Row BY DEF IInv, TailBehind, Row, Steps
<1>2. /\ turn' \in [Turns -> Row]
      /\ \A s \in Turns : turn'[s] = IF s = t THEN row ELSE turn[s]
  <2>1. turn \in [Turns -> Row] /\ turn' = [turn EXCEPT ![t] = row]
    BY DEF IInv, TurnsTyped, Deliver
  <2> HIDE DEF row, Row
  <2>2. QED BY <1>1, <2>1
<1>a. \A s \in Turns :
        /\ s # t => turn'[s] = turn[s]
        /\ turn'[s].step = IF s = t THEN "waiting" ELSE turn[s].step
        /\ turn'[s].after = IF s = t THEN tail ELSE turn[s].after
  BY <1>2
<1>c. turn'[t].message = m BY <1>2
<1>d. Turns \subseteq Nat OBVIOUS
<1> HIDE DEF row
<1>3. \A s \in Turns : s < t <=> ~ AtStep(s, "none")
  <2> SUFFICES ASSUME NEW s \in Turns PROVE s < t <=> ~ AtStep(s, "none") OBVIOUS
  <2>1. CASE s < t BY <2>1 DEF Deliver
  <2>2. CASE s = t BY <2>2 DEF Deliver
  <2>3. CASE t < s BY <2>3 DEF Deliver, IInv, InOrder
  <2>4. QED BY <2>1, <2>2, <2>3
<1>4. tail < t
  <2>1. CASE tail = 0 BY <2>1
  <2>2. CASE tail # 0 BY <1>3, <2>2 DEF IInv, TailBehind
  <2>3. QED BY <2>1, <2>2
<1>5. TurnsTyped'
  <2>1. turn'[t].message = m BY <1>c
  <2>2. \A s \in Turns : turn'[s].step # "none" =>
          turn'[s].message \in Messages /\ turn'[s].after < s
    <3> SUFFICES ASSUME NEW s \in Turns, turn'[s].step # "none"
                 PROVE  turn'[s].message \in Messages /\ turn'[s].after < s
      OBVIOUS
    <3>1. CASE s = t BY <1>4, <1>a, <2>1, <3>1
    <3>2. CASE s # t
      <4>1. turn'[s] = turn[s] BY <1>a, <3>2
      <4>2. QED BY <4>1 DEF IInv, TurnsTyped, AtStep
    <3>3. QED BY <3>1, <3>2
  <2>3. QED BY <1>2, <2>2 DEF TurnsTyped, AtStep
<1>6. InOrder'
  <2> SUFFICES ASSUME NEW s \in Turns, NEW u \in Turns, s < u, turn'[s].step = "none"
               PROVE  turn'[u].step = "none"
    BY DEF InOrder, AtStep
  <2>1. s # t /\ turn'[s] = turn[s] BY <1>a
  <2>2. ~ (s < t) BY <2>1, <1>3 DEF AtStep
  <2>3. ~ (u < t) /\ u # t
    <3>1. s \in Nat /\ t \in Nat /\ u \in Nat BY <1>d
    <3>2. QED BY <2>1, <2>2, <3>1
  <2>4. QED BY <2>3, <1>3, <1>a DEF AtStep
<1>7. TailBehind'
  <2>1. tail' = t BY DEF Deliver
  <2>2. \A s \in Turns : Live(s)' => s <= t
    <3> SUFFICES ASSUME NEW s \in Turns, Live(s)' PROVE s <= t OBVIOUS
    <3>1. s = t \/ s < t BY <1>a, <1>3 DEF Live, AtStep
    <3>2. s \in Nat /\ t \in Nat BY <1>d
    <3>3. QED BY <3>1, <3>2
  <2>3. ~ AtStep(t, "none")' BY <1>a DEF AtStep
  <2>4. QED BY <2>1, <2>2, <2>3 DEF TailBehind, AtStep
<1>b. \A s \in Turns : Live(s)' => Live(s) \/ s = t BY <1>a DEF Live
<1>8. WaitsForAll'
  <2> SUFFICES ASSUME NEW s \in Turns, NEW u \in Turns, AtStep(u, "waiting")', s < u, Live(s)'
               PROVE  s <= turn'[u].after
    BY DEF WaitsForAll
  <2>1. u = t \/ u < t BY <1>a, <1>3 DEF AtStep
  <2>2. s # t BY <2>1
  <2>3. Live(s) BY <1>b, <2>2
  <2>4. CASE u = t BY <1>a, <2>3, <2>4 DEF IInv, TailBehind
  <2>5. CASE u < t
    <3>1. u # t BY <2>5
    <3>2. AtStep(u, "waiting") BY <1>a, <3>1 DEF AtStep
    <3>3. s <= turn[u].after BY <2>3, <3>2 DEF IInv, WaitsForAll
    <3>4. QED BY <1>a, <3>1, <3>3
  <2>6. QED BY <2>1, <2>4, <2>5
<1>9. StartsAlone'
  <2> SUFFICES ASSUME NEW s \in Turns, NEW u \in Turns, s < u, Live(s)',
                      turn'[u].step \notin {"none", "waiting"}
               PROVE  FALSE
    BY DEF StartsAlone, Live
  <2>1. u # t /\ turn[u].step \notin {"none", "waiting"} BY <1>a
  <2>2. u < t BY <1>3, <2>1 DEF AtStep
  <2>3. s # t
    <3>1. s \in Nat /\ u \in Nat /\ t \in Nat BY <1>d
    <3>2. QED BY <2>2, <3>1
  <2>4. Live(s) BY <1>b, <2>3
  <2>5. QED BY <2>1, <2>4 DEF IInv, StartsAlone
<1>10. SeenOnce'
  <2>1. UNCHANGED <<record, answers, lost>> BY DEF Deliver
  <2>2. \A s \in Turns : turn'[s].step \in {"answering", "marking", "failing"} =>
           turn'[s] = turn[s]
    BY <1>a
  <2>3. QED BY <2>1, <2>2 DEF IInv, SeenOnce, AtStep
<1>11. QED BY <1>5, <1>6, <1>7, <1>8, <1>9, <1>10 DEF IInv

-----------------------------------------------------------------------------
(* The steps of a turn                                                      *)

\* At most one turn is between its start and its end.
LEMMA OneUnderWay ==
  ASSUME IInv, NEW s \in Turns, NEW t \in Turns, UnderWay(s), UnderWay(t)
  PROVE  s = t
<1>1. ~ (s < t) BY DEF IInv, StartsAlone, UnderWay, Live
<1>2. ~ (t < s) BY DEF IInv, StartsAlone, UnderWay, Live
<1>3. QED BY <1>1, <1>2

\* A turn that goes nowhere near the bot.
LEMMA SeenGoes ==
  ASSUME IInv, NEW t \in Turns, NEW st \in Steps \ {"answering", "marking", "failing"},
         GoTo(t, st), UNCHANGED <<record, answers>>, lost' \subseteq Messages
  PROVE  SeenOnce'
<1>1. \A s \in Turns :
        /\ turn'[s].message = turn[s].message
        /\ turn'[s].step \in {"answering", "marking", "failing"} => turn'[s].step = turn[s].step
  BY TurnGoes DEF IInv
<1>2. SeenOnce BY DEF IInv
<1>3. QED BY <1>1, <1>2 DEF SeenOnce, AtStep

\* The rows stay as they are when a turn starts, gives up or ends.
LEMMA QuietStep ==
  ASSUME IInv, NEW t \in Turns, Start(t) \/ StoreFails(t) \/ End(t)
  PROVE  IInv'
<1>1. CASE Start(t)
  <2>1. GoTo(t, "recording") /\ UNCHANGED <<tail, record, answers, lost>>
        /\ AtStep(t, "waiting") /\ Ended(turn[t].after)
    BY <1>1 DEF Start
  <2>2. "recording" \in Steps \ {"none", "waiting"} BY DEF Steps
  <2>3. TurnsTyped' /\ InOrder' /\ TailBehind' /\ WaitsForAll' /\ StartsAlone'
    BY <2>1, <2>2, ChainGoes DEF AtStep
  <2>4. SeenOnce' BY <2>1, SeenGoes DEF IInv, SeenOnce, Steps
  <2>5. QED BY <2>3, <2>4 DEF IInv
<1>2. CASE StoreFails(t)
  <2>1. GoTo(t, "ending") /\ UNCHANGED <<tail, record, answers>>
        /\ turn[t].step \in {"recording", "marking", "failing"}
        /\ lost' = lost \cup {turn[t].message}
    BY <1>2 DEF StoreFails
  <2>2. "ending" \in Steps \ {"none", "waiting"} BY DEF Steps
  <2>3. TurnsTyped' /\ InOrder' /\ TailBehind' /\ WaitsForAll' /\ StartsAlone'
    BY <2>1, <2>2, ChainGoes DEF AtStep
  <2>4. turn[t].message \in Messages BY <2>1 DEF IInv, TurnsTyped, AtStep
  <2>5. SeenOnce' BY <2>1, <2>4, SeenGoes DEF IInv, SeenOnce, Steps
  <2>6. QED BY <2>3, <2>5 DEF IInv
<1>3. CASE End(t)
  <2>1. GoTo(t, "done") /\ UNCHANGED <<record, answers, lost>>
        /\ AtStep(t, "ending") /\ tail' = TailAfter(t)
    BY <1>3 DEF End
  <2>2. "done" \in Steps \ {"none", "waiting"} BY DEF Steps
  <2>3. TurnsTyped' /\ InOrder' /\ TailBehind' /\ WaitsForAll' /\ StartsAlone'
    BY <2>1, <2>2, ChainGoes DEF AtStep
  <2>4. SeenOnce' BY <2>1, SeenGoes DEF IInv, SeenOnce, Steps
  <2>5. QED BY <2>3, <2>4 DEF IInv
<1>4. QED BY <1>1, <1>2, <1>3

\* A duplicate stops at its row; a message that is new gets one.
LEMMA RecordInv ==
  ASSUME IInv, NEW t \in Turns, RecordInbound(t)
  PROVE  IInv'
<1> DEFINE m == turn[t].message
<1>1. AtStep(t, "recording") /\ UNCHANGED <<tail, answers, lost>> BY DEF RecordInbound
<1>2. m \in Messages BY <1>1 DEF IInv, TurnsTyped, AtStep
<1>3. "answering" \in Steps \ {"none", "waiting"} /\ "ending" \in Steps \ {"none", "waiting"}
  BY DEF Steps
<1>4. CASE Fresh(m)
  <2>1. GoTo(t, "answering") /\ record' = [record EXCEPT ![m] = "RECEIVED"]
    BY <1>4 DEF RecordInbound
  <2>2. TurnsTyped' /\ InOrder' /\ TailBehind' /\ WaitsForAll' /\ StartsAlone'
    BY <1>1, <1>3, <2>1, ChainGoes DEF AtStep
  <2>3. answers[m] = 0 BY <1>2, <1>4 DEF IInv, SeenOnce, Fresh
  <2>4. SeenOnce'
    <3>1. /\ record' \in [Messages -> {"none", "RECEIVED", "PROCESSED", "FAILED"}]
          /\ answers' = answers /\ lost' = lost
          /\ \A k \in Messages : record'[k] = "none" => answers'[k] = 0
          /\ \A k \in Messages : record[k] # "none" => record'[k] # "none"
          /\ record'[m] # "none"
      BY <1>1, <1>2, <2>1 DEF IInv, SeenOnce
    <3>2. \A s \in Turns : /\ turn'[s].message = turn[s].message
                           /\ turn'[s].step = IF s = t THEN "answering" ELSE turn[s].step
      BY <1>3, <2>1, TurnGoes DEF IInv
    <3>3. SeenOnce /\ TurnsTyped BY DEF IInv
    <3>4. ASSUME NEW s \in Turns
          PROVE  /\ turn'[s].step = "answering" => answers'[turn'[s].message] = 0
                 /\ turn'[s].step \in {"answering", "marking", "failing"} =>
                      record'[turn'[s].message] # "none"
      <4>1. CASE s = t BY <2>3, <3>1, <3>2, <4>1
      <4>2. CASE s # t
        <5>1. turn'[s].step # "none" => turn[s].message \in Messages
          BY <3>2, <3>3, <4>2 DEF TurnsTyped, AtStep
        <5>2. QED BY <3>1, <3>2, <3>3, <4>2, <5>1 DEF SeenOnce, AtStep
      <4>3. QED BY <4>1, <4>2
    <3>5. QED BY <3>1, <3>3, <3>4 DEF SeenOnce, AtStep
  <2>5. QED BY <2>2, <2>4 DEF IInv
<1>5. CASE ~ Fresh(m)
  <2>1. GoTo(t, "ending") /\ UNCHANGED record BY <1>5 DEF RecordInbound
  <2>2. TurnsTyped' /\ InOrder' /\ TailBehind' /\ WaitsForAll' /\ StartsAlone'
    BY <1>1, <1>3, <2>1, ChainGoes DEF AtStep
  <2>3. SeenOnce' BY <1>1, <2>1, SeenGoes DEF IInv, SeenOnce, Steps
  <2>4. QED BY <2>2, <2>3 DEF IInv
<1>6. QED BY <1>4, <1>5

\* The bot sees the message of the one turn under way.
LEMMA AnswerInv ==
  ASSUME IInv, NEW t \in Turns, Answer(t) \/ AnswerFails(t)
  PROVE  IInv'
<1> DEFINE m == turn[t].message
<1>1. /\ AtStep(t, "answering") /\ UNCHANGED <<tail, record, lost>>
      /\ \E st \in {"marking", "failing"} : GoTo(t, st)
      /\ \E n \in {answers[m], Counted(answers[m])} : answers' = [answers EXCEPT ![m] = n]
  BY DEF Answer, AnswerFails
<1>2. PICK st \in {"marking", "failing"} : GoTo(t, st) BY <1>1
<1>3. m \in Messages BY <1>1 DEF IInv, TurnsTyped, AtStep
<1>4. answers[m] = 0 /\ record[m] # "none" BY <1>1 DEF IInv, SeenOnce, AtStep
<1>5. PICK n \in 0..1 : answers' = [answers EXCEPT ![m] = n]
  <2>1. {answers[m], Counted(answers[m])} \subseteq 0..1 BY <1>4 DEF Counted
  <2> DEFINE A == {answers[m], Counted(answers[m])}
  <2>2. \E n \in A : answers' = [answers EXCEPT ![m] = n] BY <1>1
  <2> HIDE DEF A, m
  <2>3. QED BY <2>1, <2>2 DEF A
<1>6. st \in Steps \ {"none", "waiting"} BY <1>2 DEF Steps
<1>7. TurnsTyped' /\ InOrder' /\ TailBehind' /\ WaitsForAll' /\ StartsAlone'
  BY <1>1, <1>2, <1>6, ChainGoes DEF AtStep
<1>8. /\ answers' \in [Messages -> 0..1]
      /\ \A x \in Messages : x # m => answers'[x] = answers[x]
  <2>1. answers \in [Messages -> 0..1] BY DEF IInv, SeenOnce
  <2> HIDE DEF m
  <2>2. QED BY <1>3, <1>5, <2>1
<1>9. \A s \in Turns : s # t => ~ AtStep(s, "answering")
  BY <1>1, OneUnderWay DEF UnderWay, AtStep
<1>10. SeenOnce'
  <2>1. \A s \in Turns : turn'[s].message = turn[s].message
                         /\ turn'[s].step = IF s = t THEN st ELSE turn[s].step
    BY <1>2, <1>6, TurnGoes DEF IInv
  <2>2. \A s \in Turns : ~ AtStep(s, "answering")' BY <1>2, <1>9, <2>1 DEF AtStep
  <2>3. \A s \in Turns : turn'[s].step \in {"answering", "marking", "failing"} =>
          record'[turn'[s].message] # "none"
    BY <1>1, <1>4, <2>1 DEF IInv, SeenOnce, AtStep
  <2>4. \A x \in Messages : record'[x] = "none" => answers'[x] = 0
    BY <1>1, <1>4, <1>8 DEF IInv, SeenOnce
  <2>5. QED BY <1>1, <1>8, <2>2, <2>3, <2>4 DEF IInv, SeenOnce
<1>11. QED BY <1>7, <1>10 DEF IInv

\* The row of the message is marked PROCESSED or FAILED, and its turn goes on to end.
LEMMA MarkInv ==
  ASSUME IInv, NEW t \in Turns, MarkProcessed(t)
  PROVE  IInv'
<1> DEFINE m == turn[t].message
           to == IF AtStep(t, "marking") THEN "PROCESSED" ELSE "FAILED"
<1>1. /\ turn[t].step \in {"marking", "failing"} /\ UNCHANGED <<tail, answers, lost>>
      /\ GoTo(t, "ending") /\ record' = [record EXCEPT ![m] = to]
  BY DEF MarkProcessed
<1>2. m \in Messages BY <1>1 DEF IInv, TurnsTyped, AtStep
<1>3. "ending" \in Steps \ {"none", "waiting"} BY DEF Steps
<1>4. TurnsTyped' /\ InOrder' /\ TailBehind' /\ WaitsForAll' /\ StartsAlone'
  BY <1>1, <1>3, ChainGoes DEF AtStep
<1>5. to \in {"PROCESSED", "FAILED"} OBVIOUS
<1> HIDE DEF to
<1>6. /\ record' \in [Messages -> {"none", "RECEIVED", "PROCESSED", "FAILED"}]
      /\ \A x \in Messages : record'[x] = IF x = m THEN to ELSE record[x]
  <2>1. record \in [Messages -> {"none", "RECEIVED", "PROCESSED", "FAILED"}]
    BY DEF IInv, SeenOnce
  <2> HIDE DEF m
  <2>2. QED BY <1>1, <1>2, <1>5, <2>1
<1>7. \A s \in Turns : turn'[s].message = turn[s].message
                       /\ turn'[s].step = IF s = t THEN "ending" ELSE turn[s].step
  BY <1>1, <1>3, TurnGoes DEF IInv
<1>8. \A x \in Messages : record'[x] = "none" => record[x] = "none" BY <1>5, <1>6
<1>9. \A s \in Turns :
        turn'[s].step \in {"answering", "marking", "failing"} => turn[s].message \in Messages
  BY <1>7 DEF IInv, TurnsTyped, AtStep
<1>10. SeenOnce'
  BY <1>1, <1>6, <1>7, <1>8, <1>9 DEF IInv, SeenOnce, AtStep
<1>11. QED BY <1>4, <1>10 DEF IInv

\* A crash leaves no turn live.
LEMMA CrashInv ==
  ASSUME IInv, Crash
  PROVE  IInv'
<1> DEFINE row(t) == IF AtStep(t, "none") THEN turn[t] ELSE [turn[t] EXCEPT !.step = "done"]
<1>1. turn \in [Turns -> Row] BY DEF IInv, TurnsTyped
<1>2. ASSUME NEW t \in Turns
      PROVE  /\ row(t) \in Row /\ row(t).message = turn[t].message /\ row(t).after = turn[t].after
             /\ row(t).step = IF AtStep(t, "none") THEN "none" ELSE "done"
  <2>1. turn[t] \in Row BY <1>1
  <2>2. QED BY <2>1 DEF Row, Steps, AtStep
<1>3. turn' = [t \in Turns |-> row(t)] /\ tail' = 0 /\ UNCHANGED <<record, answers>>
  BY DEF Crash
<1> HIDE DEF row
<1>4. /\ turn' \in [Turns -> Row]
      /\ \A t \in Turns :
           /\ turn'[t].message = turn[t].message /\ turn'[t].after = turn[t].after
           /\ turn'[t].step = IF AtStep(t, "none") THEN "none" ELSE "done"
  <2> HIDE DEF Row
  <2>1. QED BY <1>2, <1>3
<1>5. \A t \in Turns : ~ Live(t)' /\ turn'[t].step \in {"none", "done"} BY <1>4 DEF Live
<1>6. TurnsTyped' /\ InOrder' BY <1>4 DEF IInv, TurnsTyped, InOrder, AtStep
<1>7. TailBehind' /\ WaitsForAll' /\ StartsAlone'
  BY <1>3, <1>5 DEF TailBehind, WaitsForAll, StartsAlone
<1>8. lost' \subseteq Messages
  BY DEF Crash, IInv, SeenOnce, TurnsTyped, AtStep
<1>9. SeenOnce' BY <1>3, <1>5, <1>8 DEF IInv, SeenOnce, AtStep
<1>10. QED BY <1>6, <1>7, <1>9 DEF IInv

-----------------------------------------------------------------------------
\* The invariant holds at first,
LEMMA InitInv == InboundInit => IInv
<1> SUFFICES ASSUME InboundInit PROVE IInv OBVIOUS
<1>1. Undelivered \in Row BY DEF Undelivered, Row, Steps
<1>2. turn \in [Turns -> Row] /\ \A t \in Turns : turn[t].step = "none"
  BY <1>1 DEF InboundInit, Undelivered
<1>3. TurnsTyped /\ InOrder /\ WaitsForAll /\ StartsAlone
  BY <1>2 DEF TurnsTyped, InOrder, WaitsForAll, StartsAlone, AtStep
<1>4. TailBehind BY <1>2 DEF InboundInit, TailBehind, Live
<1>5. SeenOnce BY <1>2 DEF InboundInit, SeenOnce, AtStep
<1>6. QED BY <1>3, <1>4, <1>5 DEF IInv

\* every step keeps it,
LEMMA NextInv ==
  ASSUME IInv, [InboundNext]_inboundVars
  PROVE  IInv'
<1>1. CASE UNCHANGED inboundVars
  BY <1>1 DEF inboundVars, IInv, TurnsTyped, InOrder, TailBehind, WaitsForAll, StartsAlone,
       SeenOnce, AtStep, Live
<1>2. ASSUME NEW t \in Turns, NEW m \in Messages, Deliver(t, m) PROVE IInv'
  BY <1>2, DeliverInv
<1>3. ASSUME NEW t \in Turns,
             \/ Start(t) \/ RecordInbound(t) \/ Answer(t) \/ MarkProcessed(t) \/ End(t)
             \/ StoreFails(t) \/ AnswerFails(t)
      PROVE  IInv'
  BY <1>3, QuietStep, RecordInv, AnswerInv, MarkInv
<1>4. CASE Crash BY <1>4, CrashInv
<1>5. QED BY <1>1, <1>2, <1>3, <1>4 DEF InboundNext, TurnStep

\* and so it always holds.
LEMMA InboundInv == InboundSpec => []IInv
BY InitInv, NextInv, PTL DEF InboundSpec

\* Every delivery, row and counter has its type.
THEOREM InboundTypes == InboundSpec => []InboundTypeOK
<1>1. IInv => InboundTypeOK
  BY DEF IInv, InboundTypeOK, TurnsTyped, Row, TailBehind, SeenOnce
<1>2. QED BY <1>1, InboundInv, PTL

\* The turns of one number never overlap, whatever is delivered while an earlier
\* turn ends, fails or dies, and no redelivery puts a message before the bot twice.
THEOREM TurnsAreSerial == InboundSpec => []SerialTurns
<1>1. ASSUME IInv PROVE SerialTurns
  <2>1. \A m \in Messages : answers[m] <= 1 BY <1>1 DEF IInv, SeenOnce
  <2>2. QED BY <1>1, <2>1, OneUnderWay DEF SerialTurns
<1>2. QED BY <1>1, InboundInv, PTL

-----------------------------------------------------------------------------
(* The listing bot: what its requests hold                                  *)

Statuses == OpenStatuses \cup Submitted \cup {"none", "CANCELLED"}

\* What a message can leave to save; what it leaves by talking on.
Outcome == [row : BotRow, status : Statuses \cup {Unpatched},
            listing : Listings \cup {Null, Unpatched}]
TalkingOn == {o \in Outcome : /\ o.listing = Unpatched
                              /\ o.status \in OpenStatuses \cup {Unpatched}}

\* An outcome of a row.
LEMMA OutcomeType ==
  ASSUME NEW r \in BotRow
  PROVE  /\ \A s \in OpenStatuses \cup {Unpatched} : To(r, s) \in TalkingOn
         /\ \A s \in Statuses \cup {Unpatched} :
              /\ To(r, s) \in Outcome
              /\ To(r, s).row = r /\ To(r, s).status = s /\ To(r, s).listing = Unpatched
BY DEF To, Outcome, TalkingOn, Statuses

\* A row with an answer more or less is a row.
LEMMA RowEdits ==
  ASSUME NEW r \in BotRow
  PROVE  /\ NotPending(r) \in BotRow /\ NotPending(r).listing = r.listing
         /\ \A p : Without(r, p) \in BotRow /\ Without(r, p).listing = r.listing
         /\ \A p \in Parts : Lacking(r, p) \in BotRow /\ Lacking(r, p).listing = r.listing
         /\ [r EXCEPT !.typed = TRUE] \in BotRow
         /\ \A k \in {"none", "link", "restart", "gate", "location", "edit"} :
              [r EXCEPT !.pending = k] \in BotRow
BY DEF NotPending, Without, Lacking, BotRow

\* Asking, whatever comes next, is talking on.
LEMMA AskTalks ==
  ASSUME NEW r \in BotRow
  PROVE  /\ Ask(r) \subseteq TalkingOn /\ ShowReview(r) \in TalkingOn
         /\ AskCurrent(r) \subseteq TalkingOn
         /\ \A k \in {"none", "link", "restart", "gate", "location", "edit"} :
              Pending(r, k) \in TalkingOn
<1>1. \A p \in r.missing : StatusFor(p) \in OpenStatuses
  BY DEF StatusFor, OpenStatuses, Asking
<1>2. {"REVIEW", "PROPERTY_TYPE"} \cup Asking \subseteq OpenStatuses BY DEF OpenStatuses
<1>3. \A s \in OpenStatuses \cup {Unpatched} : To(r, s) \in TalkingOn BY OutcomeType
<1>4. ShowReview(r) \in TalkingOn BY <1>2, <1>3 DEF ShowReview
<1>5. Ask(r) \subseteq TalkingOn BY <1>1, <1>3, <1>4 DEF Ask
<1>6. AskCurrent(r) \subseteq TalkingOn BY <1>2, <1>3, <1>5 DEF AskCurrent
<1>7. ASSUME NEW k \in {"none", "link", "restart", "gate", "location", "edit"}
      PROVE  Pending(r, k) \in TalkingOn
  BY RowEdits, OutcomeType DEF Pending
<1>8. QED BY <1>4, <1>5, <1>6, <1>7

\* So is beginning the questions, and every reply to them.
LEMMA BegunTalks ==
  ASSUME NEW r \in BotRow
  PROVE  Begun(r) \subseteq TalkingOn /\ TypeSelection(r) \subseteq TalkingOn
<1> DEFINE b == [NotPending(r) EXCEPT !.typed = TRUE]
<1>1. b \in BotRow BY RowEdits
<1>2. Without(b, "details") \in BotRow /\ [b EXCEPT !.pending = "location"] \in BotRow
  BY <1>1, RowEdits
<1>3. Begun(r) \subseteq TalkingOn
  <2>1. To([b EXCEPT !.pending = "location"], "LOCATION") \in TalkingOn
    BY <1>2, OutcomeType DEF OpenStatuses, Asking
  <2>2. Ask(b) \subseteq TalkingOn /\ Ask(Without(b, "details")) \subseteq TalkingOn
    BY <1>1, <1>2, AskTalks
  <2>3. QED BY <2>1, <2>2 DEF Begun
<1>4. To(NotPending(r), "PROPERTY_TYPE") \in TalkingOn
  BY RowEdits, OutcomeType DEF OpenStatuses
<1>5. QED BY <1>3, <1>4, AskTalks DEF TypeSelection

\* Every reply is talking on.
LEMMA RepliesTalk ==
  ASSUME NEW r \in BotRow
  PROVE  Replies(r) \subseteq TalkingOn
<1>0. r.pending \in {"none", "link", "restart", "gate", "location", "edit"} BY DEF BotRow
<1>1. AskCurrent(NotPending(r)) \subseteq TalkingOn /\ Pending(r, "restart") \in TalkingOn
  BY RowEdits, AskTalks
<1>2. Located(r) \subseteq TalkingOn
  <2>1. [r EXCEPT !.pending = "location"] \in BotRow BY RowEdits
  <2>2. QED BY <2>1, OutcomeType DEF Located, OpenStatuses, Asking
<1>3. Photographed(r) \subseteq TalkingOn
  <2>1. "photos" \in Parts => To(Lacking(r, "photos"), Unpatched) \in TalkingOn
    <3>1. "photos" \in Parts => Lacking(r, "photos") \in BotRow BY RowEdits
    <3>2. QED BY <3>1, OutcomeType
  <2>2. QED BY <2>1 DEF Photographed
<1>4. ShowReview(r) \in TalkingOn /\ Ask(r) \subseteq TalkingOn BY AskTalks
<1>5. Answers(r) \subseteq TalkingOn
  <2>1. \A p : Ask(Without(r, p)) \subseteq TalkingOn BY RowEdits, AskTalks
  <2>2. ReviewReplies(r) \subseteq TalkingOn BY AskTalks DEF ReviewReplies
  <2>3. QED BY <1>4, <2>1, <2>2, BegunTalks DEF Answers
<1>6. TypeSelection(NotPending(r)) \subseteq TalkingOn BY RowEdits, BegunTalks
<1>7. PlaceReplies(r) \subseteq TalkingOn
  <2> DEFINE there == Without(NotPending(r), "place")
  <2>1. there \in BotRow /\ NotPending(r) \in BotRow BY RowEdits
  <2>2. Ask(there) \subseteq TalkingOn /\ Pending(there, "location") \in TalkingOn
    BY <2>1, AskTalks
  <2>3. To(NotPending(r), Unpatched) \in TalkingOn BY <2>1, OutcomeType
  <2>4. QED BY <2>2, <2>3 DEF PlaceReplies
<1>8. EditReplies(r) \subseteq TalkingOn
  <2>1. \A p \in Parts : Ask(Lacking(NotPending(r), p)) \subseteq TalkingOn BY RowEdits, AskTalks
  <2>2. To(NotPending(r), "QUESTIONNAIRE") \in TalkingOn
    BY RowEdits, OutcomeType DEF OpenStatuses, Asking
  <2>3. ASSUME NEW o \in EditReplies(r) PROVE o \in TalkingOn
    <3>1. \/ \E p \in Parts \ {"details"} : o \in Ask(Lacking(NotPending(r), p))
          \/ o = To(NotPending(r), "QUESTIONNAIRE")
      BY <2>3 DEF EditReplies
    <3>2. QED BY <2>1, <2>2, <3>1
  <2>4. QED BY <2>3
<1>9. CASE r.pending = "link" BY <1>9 DEF Replies
<1>10. CASE r.pending = "restart" BY <1>1, <1>10 DEF Replies
<1>11. CASE r.pending \in {"none", "gate", "location", "edit"}
  BY <1>1, <1>2, <1>3, <1>4, <1>5, <1>6, <1>7, <1>8, <1>11 DEF Replies
<1>12. QED BY <1>0, <1>9, <1>10, <1>11

-----------------------------------------------------------------------------
(* The invariant                                                            *)

\* The listing is with the moderators, or has been.
Queued(l) == l \in Listings /\ listing[l] \notin {"none", "DRAFT"}

\* Requests that mean to write to the open conversation they read.
Writers == PublishOps \cup {"turn", "identify", "retry", "nudge"}

\* What a request is about, by its step.
ErrandOK(w, r) ==
  /\ r.op \in TurnOps => w = Chain
  /\ w = Chain => r.op \in TurnOps \cup PublishOps
  /\ r.conv = Null => r.op \in {"turn", "release", "releasing"}
  /\ r.op = "relabel" => r.held[r.conv] # Absent
  /\ \A c \in Convs : r.held[c] # Absent => r.held[c].listing # Null
  /\ r.op \in {"submit", "settle", "hold"} => r.row.listing # Null
  /\ r.op = "settle" => Queued(r.row.listing)
  /\ r.op = "relabel" => Queued(r.held[r.conv].listing)

\* A request that was not overtaken finds its conversation open, and the listing it
\* read there, or has made since.
StillOpen(r) ==
  r.op \in Writers /\ r.conv # Null =>
    /\ IsOpen(r.conv)
    /\ conv[r.conv].listing # Null => conv[r.conv].listing = r.row.listing

\* While a turn is under way, its conversation is the only one open, if any is.
OnlyOpen(r) == \A d \in Convs : IsOpen(d) => d = r.conv /\ r.op # "create"

\* What is held keeps its listing.
HeldTrue(r) == \A c \in Convs : r.held[c] # Absent => conv[c].listing = r.held[c].listing

\* As long as no overtaken request has written.
WholeInv ==
  /\ \A c, d \in Convs : IsOpen(c) /\ IsOpen(d) => c = d
  /\ \A c \in Convs : conv[c].status = "VERIFICATION" => Queued(conv[c].listing)
  /\ inflight[Chain] # Null => OnlyOpen(inflight[Chain])
  /\ \A w \in Workers : inflight[w] # Null => HeldTrue(inflight[w])
  /\ \A w \in Workers \ overtaken : inflight[w] # Null => StillOpen(inflight[w])

BotInv ==
  /\ BotTypeOK
  /\ \A w \in Workers : inflight[w] # Null => ErrandOK(w, inflight[w])
  /\ ~ torn => WholeInv

\* torn' as BotNext has it.
TornNoted == torn' = (torn \/ (conv' # conv /\ ~ FreshStep))

\* The new request is r, or none.
Left(w, r) == Takes(w, r) \/ Carry(w, r)

\* The types after a step of worker w.
LEMMA BotStep ==
  ASSUME BotTypeOK, NEW w \in Workers, NEW r \in Requests \cup {Null}, Left(w, r),
         r = Null => Takes(w, r), TornNoted,
         conv' \in [Convs -> BotRow], later' \in [Convs -> SUBSET Convs],
         listing' \in [Listings -> {"none", "DRAFT", "PENDING", "REJECTED", "EDITED", "ACTIVE"}],
         profile' \in Profiles, missed' \in BOOLEAN
  PROVE  /\ BotTypeOK'
         /\ \A v \in Workers : inflight'[v] = IF v = w THEN r ELSE inflight[v]
         /\ overtaken \ {w} \subseteq overtaken'
<1>1. InflightOK BY DEF BotTypeOK
<1>2. /\ InflightOK' /\ overtaken \ {w} \subseteq overtaken'
      /\ \A v \in Workers : inflight'[v] = IF v = w THEN r ELSE inflight[v]
  <2>1. CASE Takes(w, r) BY <1>1, <2>1, GoesOn, Ends DEF Takes
  <2>2. CASE Carry(w, r) /\ r # Null
    BY <1>1, <2>2 DEF Carry, InflightOK, Idle
  <2>3. QED BY <2>1, <2>2 DEF Left
<1>3. torn' \in BOOLEAN BY DEF TornNoted, BotTypeOK
<1>4. \A v \in Workers : Idle(v)' \/ inflight'[v] \in Requests
  BY <1>2 DEF BotTypeOK, Idle
<1>5. QED BY <1>2, <1>3, <1>4 DEF BotTypeOK

\* A conversation that is written by a step that tears nothing is written by a
\* request that was not overtaken.
LEMMA WrittenFresh ==
  ASSUME TornNoted, ~ torn', conv' # conv, NEW w \in Workers, inflight'[w] # inflight[w]
  PROVE  ~ torn /\ w \notin overtaken
BY DEF TornNoted, FreshStep

\* A step of worker w keeps the invariant, if it leaves the other requests the
\* conversation they read or overtakes them.
LEMMA BotMoves ==
  ASSUME BotInv, BotTypeOK', TornNoted, NEW w \in Workers, NEW r \in Requests \cup {Null},
         \A v \in Workers : inflight'[v] = IF v = w THEN r ELSE inflight[v],
         overtaken \ {w} \subseteq overtaken',
         conv' = conv \/ \A v \in Workers \ {w} : inflight[v] # Null => v \in overtaken',
         \A l : Queued(l) => Queued(l)',
         r # Null => ErrandOK(w, r)',
         ~ torn' => \A c \in Convs :
           /\ \/ conv[c].listing # Null => conv'[c].listing = conv[c].listing
              \/ \A v \in Workers \ {w} : inflight[v] # Null => inflight[v].held[c] = Absent
           /\ conv'[c].status = "VERIFICATION" =>
                \/ conv[c].status = "VERIFICATION" /\ conv'[c].listing = conv[c].listing
                \/ Queued(conv[c].listing)',
         ~ torn' => \/ \A d \in Convs : IsOpen(d)' => IsOpen(d)
                    \/ w = Chain /\ \E c : \A d \in Convs : IsOpen(d)' => d = c,
         ~ torn' /\ w = Chain /\ r # Null => OnlyOpen(r)',
         ~ torn' /\ r # Null => HeldTrue(r)',
         ~ torn' /\ r # Null /\ w \notin overtaken' => StillOpen(r)'
  PROVE  BotInv'
<1>1. \A v \in Workers : inflight'[v] # Null => ErrandOK(v, inflight[v])'
  <2>1. TAKE v \in Workers
  <2>2. CASE v = w BY <2>2
  <2>3. CASE v # w
    <3>1. inflight'[v] = inflight[v] BY <2>3
    <3>2. inflight[v] # Null => ErrandOK(v, inflight[v]) BY DEF BotInv
    <3>3. QED BY <3>1, <3>2 DEF ErrandOK
  <2>4. QED BY <2>2, <2>3
<1>2. ASSUME ~ torn' PROVE WholeInv'
  <2>1. WholeInv BY <1>2 DEF BotInv, TornNoted
  <2>2. \A c, d \in Convs : IsOpen(c)' /\ IsOpen(d)' => c = d
    BY <1>2, <2>1 DEF WholeInv
  <2>3. \A c \in Convs : conv'[c].status = "VERIFICATION" => Queued(conv[c].listing)'
    <3>1. TAKE c \in Convs
    <3>2. HAVE conv'[c].status = "VERIFICATION"
    <3>3. CASE Queued(conv[c].listing)' BY <3>3
    <3>4. CASE conv[c].status = "VERIFICATION" /\ conv'[c].listing = conv[c].listing
      <4>1. Queued(conv[c].listing) BY <2>1, <3>4 DEF WholeInv
      <4>2. PICK l : l = conv[c].listing OBVIOUS
      <4>3. Queued(l)' BY <4>1, <4>2
      <4>4. conv'[c].listing = l BY <3>4, <4>2
      <4>5. QED BY <4>3, <4>4 DEF Queued
    <3>5. QED BY <1>2, <3>2, <3>3, <3>4
  <2>4. inflight'[Chain] # Null => OnlyOpen(inflight[Chain])'
    <3>1. CASE w = Chain
      <4>1. inflight'[Chain] = r BY <3>1
      <4>2. r # Null => OnlyOpen(r)' BY <1>2, <3>1
      <4>3. QED BY <4>1, <4>2 DEF OnlyOpen
    <3>2. CASE w # Chain
      <4>1. inflight'[Chain] = inflight[Chain] BY <3>2, BotAssumption
      <4>2. \A d \in Convs : IsOpen(d)' => IsOpen(d) BY <1>2, <3>2
      <4>3. QED BY <2>1, <4>1, <4>2 DEF WholeInv, OnlyOpen
    <3>3. QED BY <3>1, <3>2
  <2>5. ASSUME NEW v \in Workers, inflight'[v] # Null PROVE HeldTrue(inflight[v])'
    <3>1. CASE v = w
      <4>1. inflight'[v] = r /\ HeldTrue(r)' BY <1>2, <2>5, <3>1
      <4>2. QED BY <4>1 DEF HeldTrue
    <3>2. CASE v # w
      <4>1. inflight'[v] = inflight[v] BY <3>2
      <4>2. HeldTrue(inflight[v]) /\ ErrandOK(v, inflight[v])
        BY <2>1, <2>5, <4>1 DEF WholeInv, BotInv
      <4>3. ASSUME NEW c \in Convs, inflight[v].held[c] # Absent
            PROVE  conv'[c].listing = inflight[v].held[c].listing
        <5>1. conv[c].listing = inflight[v].held[c].listing /\ conv[c].listing # Null
          BY <4>2, <4>3 DEF HeldTrue, ErrandOK
        <5>2. inflight[v] # Null BY <2>5, <4>1
        <5>3. QED BY <1>2, <3>2, <4>3, <5>1, <5>2
      <4>4. QED BY <4>1, <4>3 DEF HeldTrue
    <3>3. QED BY <3>1, <3>2
  <2>6. ASSUME NEW v \in Workers \ overtaken', inflight'[v] # Null
        PROVE  StillOpen(inflight[v])'
    <3>1. CASE v = w
      <4>1. inflight'[v] = r /\ StillOpen(r)' BY <1>2, <2>6, <3>1
      <4>2. QED BY <4>1 DEF StillOpen, IsOpen
    <3>2. CASE v # w
      <4>1. inflight'[v] = inflight[v] /\ v \notin overtaken BY <2>6, <3>2
      <4>2. conv' = conv BY <2>6, <3>2, <4>1
      <4>3. StillOpen(inflight[v]) BY <2>1, <2>6, <4>1 DEF WholeInv
      <4>4. QED BY <4>1, <4>2, <4>3 DEF StillOpen, IsOpen
    <3>3. QED BY <3>1, <3>2
  <2>7. QED BY <2>2, <2>3, <2>4, <2>5, <2>6 DEF WholeInv
<1>3. QED BY <1>1, <1>2 DEF BotInv

-----------------------------------------------------------------------------
(* What the steps do                                                        *)

\* The request of a worker.
LEMMA AtErrand ==
  ASSUME BotInv, NEW w \in Workers, inflight[w] # Null
  PROVE  /\ inflight[w] \in Requests /\ ErrandOK(w, inflight[w])
         /\ inflight[w].row \in BotRow /\ inflight[w].held \in [Convs -> BotRow]
         /\ inflight[w].conv \in Convs \cup {Null}
         /\ ~ torn => HeldTrue(inflight[w])
         /\ ~ torn /\ w = Chain => OnlyOpen(inflight[w])
         /\ ~ torn /\ w \notin overtaken => StillOpen(inflight[w])
BY DEF BotInv, BotTypeOK, WholeInv, Requests, Idle

\* What a save leaves of the row.
LEMMA SavedRow ==
  ASSUME BotTypeOK, NEW c \in Convs, NEW o \in Outcome
  PROVE  /\ Saved(c, o) \in BotRow
         /\ Saved(c, o).status = Patched(o.status, conv[c].status)
         /\ Saved(c, o).listing = Patched(o.listing, conv[c].listing)
<1>1. conv[c] \in BotRow BY DEF BotTypeOK
<1>2. /\ o.row \in BotRow /\ o.status \in Statuses \cup {Unpatched}
      /\ o.listing \in Listings \cup {Null, Unpatched}
  BY DEF Outcome
<1>3. /\ Patched(o.status, conv[c].status) \in Statuses
      /\ Patched(o.listing, conv[c].listing) \in Listings \cup {Null}
  BY <1>1, <1>2 DEF Patched, BotRow, Statuses
<1>4. /\ (o.row.owner \/ conv[c].owner) \in BOOLEAN /\ (o.row.typed \/ conv[c].typed) \in BOOLEAN
      /\ o.row.pending \in {"none", "link", "restart", "gate", "location", "edit"}
      /\ o.row.missing \in SUBSET Parts
  BY <1>1, <1>2 DEF BotRow
<1>5. Saved(c, o) = [o.row EXCEPT !.status = Patched(o.status, conv[c].status),
                                  !.listing = Patched(o.listing, conv[c].listing),
                                  !.owner = o.row.owner \/ conv[c].owner,
                                  !.typed = o.row.typed \/ conv[c].typed]
  BY DEF Saved
<1>6. /\ Saved(c, o).status = Patched(o.status, conv[c].status)
      /\ Saved(c, o).listing = Patched(o.listing, conv[c].listing)
  BY <1>2, <1>5 DEF BotRow
<1>7. Saved(c, o) \in BotRow
  BY <1>2, <1>3, <1>4, <1>5 DEF BotRow, Statuses
<1>8. QED BY <1>6, <1>7

\* A write leaves the order of the rows one of rows.
LEMMA TouchType ==
  ASSUME BotTypeOK, NEW c \in Convs, Touch(c)
  PROVE  later' \in [Convs -> SUBSET Convs]
<1>1. \A d \in Convs : (IF d # c /\ conv[d].status # "none" THEN later[d] \cup {c} ELSE {}) \in SUBSET Convs
  BY DEF BotTypeOK
<1>2. QED BY <1>1 DEF Touch

\* A row is written.
LEMMA RowWritten ==
  ASSUME BotTypeOK, NEW c \in Convs, NEW row \in BotRow, conv' = [conv EXCEPT ![c] = row]
  PROVE  /\ conv' \in [Convs -> BotRow]
         /\ \A d \in Convs : conv'[d] = IF d = c THEN row ELSE conv[d]
BY DEF BotTypeOK

\* A commit overtakes the other requests: they are all on the number.
LEMMA OvertakesAll ==
  ASSUME BotTypeOK, NEW w \in Workers, inflight[w] # Null,
         Commit(w) \/ \E r : CommitThen(w, r)
  PROVE  \A v \in Workers \ {w} : inflight[v] # Null => v \in overtaken'
<1>1. \A v \in Workers : inflight[v] # Null => inflight[v].on = "number"
  BY DEF BotTypeOK, Requests, Idle
<1>2. QED BY <1>1 DEF Commit, CommitThen, ReadersOf, Idle

\* A request saves its conversation and ends: the conversation was open, and stays
\* so or is submitted.
LEMMA AnsweredInv ==
  ASSUME BotInv, TornNoted, NEW w \in Workers,
         inflight[w] # Null, inflight[w].op \in Writers, inflight[w].conv # Null,
         NEW o \in Outcome, Answered(w, o),
         listing' = listing, profile' \in Profiles, missed' \in BOOLEAN,
         \/ o \in TalkingOn
         \/ /\ o.listing = inflight[w].row.listing
            /\ \/ o.status = "AWAITING_PROFILE"
               \/ o.status = "VERIFICATION" /\ Queued(o.listing)
  PROVE  BotInv'
<1>1. PICK c \in Convs : c = inflight[w].conv BY AtErrand
<1>2. /\ BotTypeOK /\ Saved(c, o) \in BotRow
      /\ Saved(c, o).status = Patched(o.status, conv[c].status)
      /\ Saved(c, o).listing = Patched(o.listing, conv[c].listing)
  BY SavedRow DEF BotInv
<1>3. Save(c, o) /\ Commit(w) BY <1>1 DEF Answered
<1>4. /\ conv' \in [Convs -> BotRow]
      /\ \A d \in Convs : conv'[d] = IF d = c THEN Saved(c, o) ELSE conv[d]
  BY <1>2, <1>3, RowWritten DEF Save
<1>5. later' \in [Convs -> SUBSET Convs] BY <1>2, <1>3, TouchType DEF Save
<1>6. /\ BotTypeOK' /\ overtaken \ {w} \subseteq overtaken'
      /\ \A v \in Workers : inflight'[v] = IF v = w THEN Null ELSE inflight[v]
  <2>1. Takes(w, Null) BY <1>3, EndTakesNull
  <2>2. listing' \in [Listings -> {"none", "DRAFT", "PENDING", "REJECTED", "EDITED", "ACTIVE"}]
    BY <1>2 DEF BotTypeOK
  <2>3. QED BY <1>2, <1>4, <1>5, <2>1, <2>2, BotStep DEF Left
<1>7. \A v \in Workers \ {w} : inflight[v] # Null => v \in overtaken'
  BY <1>2, <1>3, OvertakesAll
<1>8. \A l : Queued(l) <=> Queued(l)' BY DEF Queued
<1>9. ASSUME ~ torn', conv' # conv
      PROVE  IsOpen(c) /\ (conv[c].listing # Null => conv[c].listing = inflight[w].row.listing)
  <2>1. inflight'[w] # inflight[w] BY <1>6
  <2>2. ~ torn /\ w \notin overtaken BY <1>9, <2>1, WrittenFresh
  <2>3. StillOpen(inflight[w]) BY <2>2, AtErrand
  <2>4. QED BY <1>1, <2>3 DEF StillOpen
<1>0. /\ o.listing \in {Unpatched, inflight[w].row.listing}
      /\ \/ o.status \in OpenStatuses /\ o.listing = Unpatched
         \/ o.status = Unpatched /\ o.listing = Unpatched
         \/ o.status = "AWAITING_PROFILE"
         \/ o.status = "VERIFICATION" /\ Queued(o.listing)
  BY DEF TalkingOn
<1>10. ASSUME ~ torn', NEW d \in Convs
       PROVE  /\ conv[d].listing # Null => conv'[d].listing = conv[d].listing
              /\ IsOpen(d)' => IsOpen(d)
  <2>1. CASE conv' = conv BY <2>1 DEF IsOpen
  <2>2. CASE conv' # conv /\ d = c
    <3>1. conv'[d].listing = conv[d].listing \/ conv[d].listing = Null
      BY <1>0, <1>2, <1>4, <1>9, <1>10, <2>2 DEF Patched
    <3>2. QED BY <1>9, <1>10, <2>2, <3>1
  <2>3. CASE d # c BY <1>4, <2>3 DEF IsOpen
  <2>4. QED BY <2>1, <2>2, <2>3
<1>11. ASSUME NEW d \in Convs, conv'[d].status = "VERIFICATION"
       PROVE  \/ conv[d].status = "VERIFICATION" /\ conv'[d].listing = conv[d].listing
              \/ Queued(conv[d].listing)'
  <2>1. CASE d # c BY <1>4, <1>11, <2>1
  <2>2. CASE d = c /\ o.status = Unpatched /\ o.listing = Unpatched
    BY <1>2, <1>4, <1>11, <2>2 DEF Patched
  <2>3. CASE d = c /\ o.status = "VERIFICATION"
    <3>1. Queued(o.listing) /\ o.listing # Unpatched
      BY <1>0, <2>3, PatchAssumption DEF Queued, OpenStatuses, Asking, Unpatched
    <3>2. conv'[d].listing = o.listing BY <1>2, <1>4, <2>3, <3>1 DEF Patched
    <3>3. QED BY <1>8, <3>1, <3>2 DEF Queued
  <2>4. CASE d = c /\ o.status \in OpenStatuses \cup {"AWAITING_PROFILE"}
    <3>1. o.status # "VERIFICATION" /\ o.status # Unpatched
      BY <2>4 DEF OpenStatuses, Asking, Unpatched
    <3>2. conv'[d].status = o.status BY <1>2, <1>4, <2>4, <3>1 DEF Patched
    <3>3. QED BY <1>11, <3>1, <3>2
  <2>5. QED BY <1>0, <2>1, <2>2, <2>3, <2>4
<1>12. QED BY <1>6, <1>7, <1>8, <1>10, <1>11, BotMoves

\* What a turn talks about.
LEMMA TalksInv ==
  ASSUME BotInv, TornNoted, NEW w \in Workers, Reply(w) \/ LinkReply(w) \/ Identify(w)
  PROVE  BotInv'
<1>1. /\ inflight[w] # Null /\ inflight[w].op \in {"turn", "identify"}
      /\ inflight[w].op = "turn" => inflight[w].conv # Null
  BY DEF Reply, LinkReply, Identify, InTurn, Running
<1>2. inflight[w].conv # Null /\ inflight[w].op \in Writers /\ Memory(w) \in BotRow
  BY <1>1, AtErrand DEF ErrandOK, Writers, Memory
<1>3. Identified(Memory(w)) \in TalkingOn
  <2>1. [Memory(w) EXCEPT !.owner = TRUE, !.pending = "gate"] \in BotRow BY <1>2 DEF BotRow
  <2>2. QED BY <2>1, OutcomeType DEF Identified, OpenStatuses
<1>4. To([Memory(w) EXCEPT !.pending = "link"], "START") \in TalkingOn
  <2>1. [Memory(w) EXCEPT !.pending = "link"] \in BotRow BY <1>2, RowEdits
  <2>2. QED BY <2>1, OutcomeType DEF OpenStatuses
<1>5. Replies(Memory(w)) \subseteq TalkingOn BY <1>2, RepliesTalk
<1>6. PICK o \in TalkingOn : Answered(w, o)
  BY <1>3, <1>4, <1>5 DEF Reply, LinkReply, Identify
<1>7. listing' = listing /\ profile' \in Profiles /\ missed' \in BOOLEAN
  BY DEF Reply, LinkReply, Identify, BotInv, BotTypeOK, Profiles
<1>8. o \in Outcome BY DEF TalkingOn
<1>9. QED BY <1>1, <1>2, <1>6, <1>7, <1>8, AnsweredInv

\* How a publish ends, or a nudge.
LEMMA EndPublishInv ==
  ASSUME BotInv, TornNoted, NEW w \in Workers, EndPublish(w)
  PROVE  BotInv'
<1> DEFINE m == Memory(w)
           ops == {"settle", "hold", "reask", "fail", "nudge"}
<1>1. PICK o \in Ending(w) : Answered(w, o) BY DEF EndPublish
<1>2. inflight[w] # Null /\ inflight[w].op \in ops
  BY <1>1 DEF Ending, Running
<1>3. /\ inflight[w].conv # Null /\ inflight[w].op \in Writers /\ m \in BotRow
      /\ ErrandOK(w, inflight[w]) /\ m = inflight[w].row
  BY <1>2, AtErrand DEF ErrandOK, Writers, PublishOps, Memory
<1>4. listing' = listing /\ profile' \in Profiles /\ missed' \in BOOLEAN
  BY DEF EndPublish, BotInv, BotTypeOK
<1>5. CASE inflight[w].op \in {"reask", "fail", "nudge"}
  <2>1. o \in TalkingOn
    BY <1>1, <1>2, <1>3, <1>5, AskTalks DEF Ending, Running
  <2>2. o \in Outcome BY <2>1 DEF TalkingOn
  <2>3. QED BY <1>1, <1>2, <1>3, <1>4, <2>1, <2>2, AnsweredInv
<1>6. ASSUME NEW st \in {"VERIFICATION", "AWAITING_PROFILE"},
             inflight[w].op = IF st = "VERIFICATION" THEN "settle" ELSE "hold"
      PROVE  BotInv'
  <2>1. o = [To(m, st) EXCEPT !.listing = m.listing]
    BY <1>1, <1>2, <1>6 DEF Ending, Running
  <2>2. o \in Outcome /\ o.status = st /\ o.listing = m.listing
    <3>1. m.listing \in Listings \cup {Null} BY <1>3 DEF BotRow
    <3>2. st \in Statuses BY <1>6 DEF Statuses, Submitted
    <3>3. QED BY <1>3, <2>1, <3>1, <3>2 DEF To, Outcome
  <2>3. st = "VERIFICATION" => Queued(o.listing)
    BY <1>3, <1>6, <2>2 DEF ErrandOK
  <2>4. st = "AWAITING_PROFILE" \/ st = "VERIFICATION" BY <1>6
  <2>5. QED BY <1>1, <1>2, <1>3, <1>4, <2>2, <2>3, <2>4, AnsweredInv
<1>7. QED BY <1>2, <1>5, <1>6

\* A conversation is closed, by its owner, to start over, or done with; or a flag of
\* its draft is written.
LEMMA ClosesInv ==
  ASSUME BotInv, TornNoted, NEW w \in Workers,
         inflight[w] # Null, Commit(w), NEW c \in Convs, NEW row \in BotRow,
         conv' = [conv EXCEPT ![c] = row], later' \in [Convs -> SUBSET Convs],
         UNCHANGED <<listing, profile, missed>>,
         row.listing = conv[c].listing,
         row.status = conv[c].status \/ row.status \in {"CANCELLED", "COMPLETED"}
  PROVE  BotInv'
<1>1. BotTypeOK BY DEF BotInv
<1>2. /\ conv' \in [Convs -> BotRow]
      /\ \A d \in Convs : conv'[d] = IF d = c THEN row ELSE conv[d]
  BY <1>1, RowWritten
<1>3. /\ BotTypeOK' /\ overtaken \ {w} \subseteq overtaken'
      /\ \A v \in Workers : inflight'[v] = IF v = w THEN Null ELSE inflight[v]
  <2>1. Takes(w, Null) BY EndTakesNull
  <2>2. QED BY <1>1, <1>2, <2>1, BotStep DEF Left, BotTypeOK
<1>4. \A v \in Workers \ {w} : inflight[v] # Null => v \in overtaken'
  BY <1>1, OvertakesAll
<1>5. \A l : Queued(l) => Queued(l)' BY DEF Queued
<1>6. \A d \in Convs : /\ IsOpen(d)' => IsOpen(d)
                       /\ conv'[d].listing = conv[d].listing
                       /\ conv'[d].status = "VERIFICATION" => conv[d].status = "VERIFICATION"
  BY <1>2 DEF IsOpen, OpenStatuses, Asking
<1>7. QED BY <1>3, <1>4, <1>5, <1>6, BotMoves

\* The row of a cancelled conversation, and of a completed one.
LEMMA ClosedRow ==
  ASSUME BotInv, NEW c \in Convs
  PROVE  /\ Cancelled(c) \in BotRow /\ Cancelled(c).status = "CANCELLED"
         /\ Cancelled(c).listing = conv[c].listing
         /\ [conv[c] EXCEPT !.status = "COMPLETED"] \in BotRow
         /\ [conv[c] EXCEPT !.status = "COMPLETED"].status = "COMPLETED"
         /\ [conv[c] EXCEPT !.status = "COMPLETED"].listing = conv[c].listing
<1>1. conv[c] \in BotRow BY DEF BotInv, BotTypeOK
<1>2. QED BY <1>1 DEF Cancelled, Absent, NewConv, BotRow, Submitted

\* A conversation is cancelled by its owner, completed, or flagged.
LEMMA CancelInv ==
  ASSUME BotInv, TornNoted, NEW w \in Workers, CancelReply(w) \/ Complete(w) \/ Remind(w)
  PROVE  BotInv'
<1>1. /\ inflight[w] # Null /\ inflight[w].op \in {"turn", "live", "remind"}
      /\ inflight[w].op = "turn" => inflight[w].conv # Null
  BY DEF CancelReply, Complete, Remind, InTurn, Running
<1>2. PICK c \in Convs : c = inflight[w].conv
  BY <1>1, AtErrand DEF ErrandOK
<1>3. BotTypeOK /\ Memory(w) \in BotRow BY <1>1, AtErrand DEF BotInv, Memory
<1>4. CASE CancelReply(w)
  <2>1. conv' = [conv EXCEPT ![c] = Cancelled(c)] /\ Touch(c) /\ Commit(w)
        /\ UNCHANGED <<listing, profile, missed>>
    BY <1>2, <1>4 DEF CancelReply
  <2>2. QED BY <1>1, <1>3, <2>1, ClosedRow, TouchType, ClosesInv
<1>5. CASE Complete(w)
  <2> DEFINE row == [conv[c] EXCEPT !.status = "COMPLETED"]
  <2>1. conv' = [conv EXCEPT ![c] = row] /\ Touch(c) /\ Commit(w)
        /\ UNCHANGED <<listing, profile, missed>>
    BY <1>2, <1>3, <1>5 DEF Complete, BotTypeOK
  <2>2. QED BY <1>1, <1>3, <2>1, ClosedRow, TouchType, ClosesInv
<1>6. CASE Remind(w)
  <2> DEFINE o == To(Memory(w), Unpatched)
  <2>1. o \in Outcome /\ o.status = Unpatched /\ o.listing = Unpatched
    BY <1>3, OutcomeType
  <2>2. /\ conv' = [conv EXCEPT ![c] = Saved(c, o)] /\ Commit(w)
        /\ UNCHANGED <<later, listing, profile, missed>>
    BY <1>2, <1>6 DEF Remind
  <2> HIDE DEF o
  <2>3. /\ Saved(c, o) \in BotRow /\ Saved(c, o).status = conv[c].status
        /\ Saved(c, o).listing = conv[c].listing
    BY <1>3, <2>1, SavedRow DEF Patched
  <2>4. QED BY <1>1, <1>3, <2>2, <2>3, ClosesInv DEF BotTypeOK
<1>7. QED BY <1>4, <1>5, <1>6

-----------------------------------------------------------------------------
(* Steps that write no conversation                                         *)

ListingStatuses == {"none", "DRAFT", "PENDING", "REJECTED", "EDITED", "ACTIVE"}

\* A request that has just begun, and holds nothing.
LEMMA FreshRequest ==
  ASSUME NEW w \in Workers, NEW c \in Convs \cup {Null}, NEW row \in BotRow,
         NEW op \in {"turn", "identify", "release", "retry", "nudge", "remind", "live"},
         w = Chain <=> op \in {"turn", "identify"},
         c = Null => op \in {"turn", "release"}
  PROVE  /\ Request(op, c, row) \in Requests /\ Request(op, c, row) # Null
         /\ Request(op, c, row).op = op /\ Request(op, c, row).conv = c
         /\ Request(op, c, row).row = row
         /\ ErrandOK(w, Request(op, c, row)) /\ ErrandOK(w, Request(op, c, row))'
         /\ HeldTrue(Request(op, c, row)) /\ HeldTrue(Request(op, c, row))'
<1> DEFINE r == Request(op, c, row)
<1>1. Absent \in BotRow BY DEF Absent, NewConv, BotRow
<1>2. /\ r \in Requests /\ r.op = op /\ r.conv = c /\ r.row = row
      /\ \A d \in Convs : r.held[d] = Absent
  BY <1>1 DEF Request, Requests, TurnOps, ReleaseOps
<1> HIDE DEF r
<1>3. r # Null BY <1>2, BotRequestAssumption
<1>4. op \notin {"relabel", "settle", "submit", "hold", "create", "releasing"} OBVIOUS
<1>5. (w = Chain => op \in TurnOps \cup PublishOps) /\ (op \in TurnOps => w = Chain)
  BY DEF TurnOps
<1>6. ErrandOK(w, r) /\ ErrandOK(w, r)' BY <1>2, <1>4, <1>5 DEF ErrandOK
<1>7. HeldTrue(r) /\ HeldTrue(r)' BY <1>2 DEF HeldTrue
<1>8. QED BY <1>2, <1>3, <1>6, <1>7 DEF r

\* A request goes on, or ends, and no conversation is written.
LEMMA ReadsOn ==
  ASSUME BotInv, TornNoted, NEW w \in Workers, NEW r \in Requests \cup {Null}, Left(w, r),
         r = Null => Takes(w, r),
         conv' = conv, later' = later, profile' \in Profiles, missed' \in BOOLEAN,
         listing' \in [Listings -> ListingStatuses],
         \A l : Queued(l) => Queued(l)',
         r # Null => ErrandOK(w, r)',
         ~ torn /\ w = Chain /\ r # Null => OnlyOpen(r),
         ~ torn /\ r # Null => HeldTrue(r),
         ~ torn /\ r # Null /\ w \notin overtaken' => StillOpen(r)
  PROVE  BotInv'
<1>1. BotTypeOK BY DEF BotInv
<1>2. /\ BotTypeOK' /\ overtaken \ {w} \subseteq overtaken'
      /\ \A v \in Workers : inflight'[v] = IF v = w THEN r ELSE inflight[v]
  BY <1>1, BotStep DEF BotTypeOK, ListingStatuses
<1>3. ~ torn' => ~ torn BY DEF TornNoted
<1>4. \A d \in Convs : IsOpen(d)' <=> IsOpen(d) BY DEF IsOpen
<1>5. ~ torn' /\ w = Chain /\ r # Null => OnlyOpen(r)' BY <1>3, <1>4 DEF OnlyOpen
<1>6. ~ torn' /\ r # Null => HeldTrue(r)' BY <1>3 DEF HeldTrue
<1>7. ~ torn' /\ r # Null /\ w \notin overtaken' => StillOpen(r)'
  BY <1>3 DEF StillOpen, IsOpen
<1>8. QED BY <1>2, <1>3, <1>4, <1>5, <1>6, <1>7, BotMoves

\* No request moves: a listing may.
LEMMA RequestsStay ==
  ASSUME BotInv, UNCHANGED <<conv, later, profile, missed, torn, handlerVars>>,
         listing' \in [Listings -> ListingStatuses],
         \A l : Queued(l) => Queued(l)'
  PROVE  BotInv'
<1>1. BotTypeOK'
  BY DEF BotInv, BotTypeOK, ListingStatuses, InflightOK, Idle, handlerVars
<1>2. Chain \in Workers /\ TornNoted
  BY BotAssumption DEF TornNoted, BotInv, BotTypeOK
<1>3. /\ inflight' = inflight /\ overtaken' = overtaken /\ conv' = conv /\ torn' = torn
      /\ inflight[Chain] \in Requests \cup {Null}
  BY <1>2 DEF handlerVars, BotInv, BotTypeOK, Idle
<1>4. \A d \in Convs : IsOpen(d)' <=> IsOpen(d) BY <1>3 DEF IsOpen
<1>5. PICK r \in Requests \cup {Null} : r = inflight[Chain] BY <1>3
<1>6. r # Null => /\ ErrandOK(Chain, r)
                  /\ ~ torn => OnlyOpen(r) /\ HeldTrue(r)
                  /\ ~ torn /\ Chain \notin overtaken => StillOpen(r)
  BY <1>2, <1>5, AtErrand
<1>7. r # Null => ErrandOK(Chain, r)' BY <1>6 DEF ErrandOK
<1>8. ~ torn' /\ r # Null => OnlyOpen(r)' /\ HeldTrue(r)'
  BY <1>3, <1>4, <1>6 DEF OnlyOpen, HeldTrue
<1>9. ~ torn' /\ r # Null /\ Chain \notin overtaken' => StillOpen(r)'
  BY <1>3, <1>4, <1>6 DEF StillOpen, IsOpen
<1>10. \A v \in Workers : inflight'[v] = IF v = Chain THEN r ELSE inflight[v] BY <1>3, <1>5
<1>11. overtaken \ {Chain} \subseteq overtaken' BY <1>3
<1>12. QED BY <1>1, <1>2, <1>3, <1>4, <1>7, <1>8, <1>9, <1>10, <1>11, BotMoves

\* A turn reads the open conversation, or that there is none.
LEMMA ReadTurnInv ==
  ASSUME BotInv, TornNoted, ReadTurn(Chain)
  PROVE  BotInv'
<1>1. PICK c \in findOpen : Begin(Chain, Request("turn", c, IF c = Null THEN Absent ELSE conv[c]))
  BY DEF ReadTurn
<1>2. BotTypeOK BY DEF BotInv
<1>3. \/ c = Null /\ \A d \in Convs : ~ IsOpen(d)
      \/ c \in Convs /\ IsOpen(c)
  BY <1>1 DEF findOpen, LastOf
<1>4. (IF c = Null THEN Absent ELSE conv[c]) \in BotRow
  BY <1>2, <1>3, BotAssumption DEF Absent, NewConv, BotRow, BotTypeOK
<1>6. PICK row \in BotRow : row = IF c = Null THEN Absent ELSE conv[c] BY <1>4
<1> DEFINE r == Request("turn", c, row)
<1>7. Begin(Chain, r) BY <1>1, <1>6
<1>5. /\ r \in Requests /\ r # Null /\ r.op = "turn" /\ r.conv = c /\ r.row = row
      /\ ErrandOK(Chain, r)' /\ HeldTrue(r)
  <2>1. Chain \in Workers /\ c \in Convs \cup {Null} BY <1>3, BotAssumption
  <2>2. QED BY <2>1, FreshRequest
<1> HIDE DEF r
<1>8. ~ torn => OnlyOpen(r)
  <2>1. ~ torn => \A d, e \in Convs : IsOpen(d) /\ IsOpen(e) => d = e
    BY DEF BotInv, WholeInv
  <2>2. QED BY <2>1, <1>3, <1>5 DEF OnlyOpen
<1>9. StillOpen(r) BY <1>3, <1>5, <1>6 DEF StillOpen
<1>10. UNCHANGED <<conv, later, listing, profile, missed>> BY DEF ReadTurn, botRows
<1>11. \A l : Queued(l) => Queued(l)' BY <1>10 DEF Queued
<1>12. Left(Chain, r) BY <1>7 DEF Left, Takes
<1>13. /\ profile' \in Profiles /\ missed' \in BOOLEAN
       /\ listing' \in [Listings -> ListingStatuses]
       /\ Chain \in Workers
  BY <1>2, <1>10, BotAssumption DEF BotTypeOK, ListingStatuses
<1>14. QED BY <1>5, <1>8, <1>9, <1>10, <1>11, <1>12, <1>13, ReadsOn

\* A listing moves among the statuses it has once submitted, or is submitted.
LEMMA ListingMoved ==
  ASSUME BotTypeOK, NEW l \in Listings, NEW s \in {"PENDING", "REJECTED", "EDITED", "ACTIVE"},
         listing' = [listing EXCEPT ![l] = s]
  PROVE  /\ listing' \in [Listings -> ListingStatuses]
         /\ \A k : Queued(k) => Queued(k)'
         /\ Queued(l)'
BY DEF BotTypeOK, ListingStatuses, Queued

\* A request beside the turns begins, having read a conversation or not.
LEMMA AsideBegins ==
  ASSUME BotInv, TornNoted, NEW w \in Aside, NEW c \in Convs \cup {Null},
         NEW row \in BotRow, NEW op \in {"release", "retry", "nudge", "remind", "live"},
         c = Null => op = "release", Begin(w, Request(op, c, row)),
         op \in {"retry", "nudge"} => IsOpen(c) /\ row = conv[c],
         conv' = conv, later' = later, profile' \in Profiles, missed' \in BOOLEAN,
         listing' \in [Listings -> ListingStatuses],
         \A l : Queued(l) => Queued(l)'
  PROVE  BotInv'
<1> DEFINE r == Request(op, c, row)
<1>1. w \in Workers /\ w # Chain BY DEF Aside
<1>2. /\ r \in Requests /\ r # Null /\ r.op = op /\ r.conv = c /\ r.row = row
      /\ ErrandOK(w, r)' /\ HeldTrue(r)
  BY <1>1, FreshRequest
<1>3. Left(w, r) BY DEF Left, Takes
<1> HIDE DEF r
<1>4. StillOpen(r)
  BY <1>2 DEF StillOpen, Writers, PublishOps
<1>5. QED BY <1>1, <1>2, <1>3, <1>4, ReadsOn

\* What begins beside the turns, but for the admin's cancel.
LEMMA BeginsInv ==
  ASSUME BotInv, TornNoted, NEW w \in Aside,
         ReadForAdmin(w) \/ SaveProfile(w) \/ ReadForReminder(w)
  PROVE  BotInv'
<1>1. BotTypeOK /\ \A c \in Convs : conv[c] \in BotRow BY DEF BotInv, BotTypeOK
<1>2. Absent \in BotRow BY DEF Absent, NewConv, BotRow
<1>3. /\ UNCHANGED <<conv, later, listing, missed>>
      /\ profile' \in Profiles /\ missed' \in BOOLEAN
      /\ listing' \in [Listings -> ListingStatuses]
  BY <1>1 DEF ReadForAdmin, SaveProfile, ReadForReminder, botRows, BotTypeOK, Profiles,
     ListingStatuses
<1>4. \A l : Queued(l) => Queued(l)' BY <1>3 DEF Queued
<1>5. PICK op \in {"release", "retry", "nudge", "remind"}, c \in Convs \cup {Null},
           row \in BotRow :
        /\ c = Null => op = "release"
        /\ Begin(w, Request(op, c, row))
        /\ op \in {"retry", "nudge"} => IsOpen(c) /\ row = conv[c]
  <2>1. CASE ReadForAdmin(w)
    BY <1>1, <2>1, BotAssumption DEF ReadForAdmin
  <2>2. CASE SaveProfile(w)
    BY <1>2, <2>2 DEF SaveProfile
  <2>3. CASE ReadForReminder(w)
    BY <1>1, <2>3, BotAssumption DEF ReadForReminder
  <2>4. QED BY <2>1, <2>2, <2>3
<1>6. QED BY <1>3, <1>4, <1>5, AsideBegins

\* An approval, whose notice may get as far as the conversation.
LEMMA ApproveInv ==
  ASSUME BotInv, TornNoted, NEW w \in Aside, Approve(w)
  PROVE  BotInv'
<1>1. BotTypeOK BY DEF BotInv
<1>2. PICK l \in Listings :
        /\ listing' = [listing EXCEPT ![l] = "ACTIVE"]
        /\ \/ \E c \in Convs : Begin(w, Request("live", c, Absent))
           \/ UNCHANGED handlerVars
  BY DEF Approve
<1>3. listing' \in [Listings -> ListingStatuses] /\ \A k : Queued(k) => Queued(k)'
  BY <1>1, <1>2, ListingMoved
<1>4. UNCHANGED <<conv, later, profile, missed>> /\ profile' \in Profiles /\ missed' \in BOOLEAN
  BY <1>1 DEF Approve, BotTypeOK
<1>5. CASE UNCHANGED handlerVars
  <2>1. torn' = torn BY <1>1, <1>4 DEF TornNoted, BotTypeOK
  <2>2. QED BY <1>3, <1>4, <1>5, <2>1, RequestsStay
<1>6. CASE \E c \in Convs : Begin(w, Request("live", c, Absent))
  <2>1. Absent \in BotRow BY DEF Absent, NewConv, BotRow
  <2>2. PICK c \in Convs : Begin(w, Request("live", c, Absent)) BY <1>6
  <2>3. c \in Convs \cup {Null} /\ c # Null BY BotAssumption
  <2>4. QED BY <1>3, <1>4, <2>1, <2>2, <2>3, AsideBegins
<1>7. QED BY <1>2, <1>5, <1>6

\* A listing is rejected, edited or submitted elsewhere.
LEMMA ListingMovesInv ==
  ASSUME BotInv, TornNoted, ListingMoves
  PROVE  BotInv'
<1>1. BotTypeOK BY DEF BotInv
<1>2. PICK l \in Listings, s \in {"PENDING", "REJECTED", "EDITED", "ACTIVE"} :
        listing' = [listing EXCEPT ![l] = s]
  <2> DEFINE moves == {<<"PENDING", "REJECTED">>, <<"REJECTED", "EDITED">>,
                       <<"DRAFT", "PENDING">>, <<"EDITED", "PENDING">>}
  <2>1. PICK l \in Listings, move \in moves : listing' = [listing EXCEPT ![l] = move[2]]
    BY DEF ListingMoves
  <2>2. move[2] \in {"PENDING", "REJECTED", "EDITED"} OBVIOUS
  <2>3. QED BY <2>1, <2>2
<1>3. listing' \in [Listings -> ListingStatuses] /\ \A k : Queued(k) => Queued(k)'
  BY <1>1, <1>2, ListingMoved
<1>4. UNCHANGED <<conv, later, profile, missed, torn, handlerVars>>
  BY <1>1 DEF ListingMoves, TornNoted, BotTypeOK
<1>5. QED BY <1>3, <1>4, RequestsStay

\* A request dies.
LEMMA DropInv ==
  ASSUME BotInv, TornNoted, NEW w \in Workers, Drop(w),
         UNCHANGED <<conv, later, listing, profile>>, missed' \in BOOLEAN
  PROVE  BotInv'
<1>1. Takes(w, Null) /\ Left(w, Null) BY EndTakesNull DEF Left
<1>2. profile' \in Profiles /\ listing' \in [Listings -> ListingStatuses]
  BY DEF BotInv, BotTypeOK, ListingStatuses
<1>3. \A l : Queued(l) => Queued(l)' BY DEF Queued
<1>4. QED BY <1>1, <1>2, <1>3, ReadsOn

\* The next step of a request, on what it has in memory.
LEMMA GoesType ==
  ASSUME BotInv, NEW w \in Workers, inflight[w] # Null, NEW row \in BotRow,
         NEW op \in TurnOps \cup PublishOps
  PROVE  /\ Goes(w, op, row) \in Requests /\ Goes(w, op, row) # Null
         /\ Goes(w, op, row).op = op /\ Goes(w, op, row).row = row
         /\ Goes(w, op, row).conv = inflight[w].conv
         /\ Goes(w, op, row).held = inflight[w].held
<1>1. inflight[w] \in Requests BY AtErrand
<1>2. Goes(w, op, row) \in Requests BY <1>1 DEF Goes, Requests
<1>3. QED BY <1>1, <1>2, BotRequestAssumption DEF Goes, Requests

\* A publish goes on, the conversation as it was.
LEMMA PublishGoesOn ==
  ASSUME BotInv, TornNoted, NEW w \in Workers, inflight[w] # Null,
         inflight[w].op \in {"publish", "submit"},
         NEW op \in PublishOps \ {"publish"}, NEW row \in BotRow,
         Carry(w, Goes(w, op, row)),
         row.listing = inflight[w].row.listing \/ inflight[w].row.listing = Null,
         op \in {"submit", "settle", "hold"} => row.listing # Null,
         op = "settle" => Queued(row.listing)',
         UNCHANGED <<conv, later, profile, missed>>,
         listing' \in [Listings -> ListingStatuses],
         \A l : Queued(l) => Queued(l)'
  PROVE  BotInv'
<1>1. /\ ErrandOK(w, inflight[w])
      /\ ~ torn => HeldTrue(inflight[w])
      /\ ~ torn /\ w = Chain => OnlyOpen(inflight[w])
      /\ ~ torn /\ w \notin overtaken => StillOpen(inflight[w])
  BY AtErrand
<1>2. op \in PublishOps /\ op \in TurnOps \cup PublishOps OBVIOUS
<1>3. PICK r \in Requests :
        /\ r = Goes(w, op, row)
        /\ r # Null /\ r.op = op /\ r.row = row
        /\ r.conv = inflight[w].conv /\ r.held = inflight[w].held
  BY <1>2, GoesType
<1>4. /\ Carry(w, r) /\ Left(w, r) BY <1>3 DEF Left
<1>5. op \notin {"turn", "create", "identify", "relabel"} /\ inflight[w].conv # Null
  BY <1>1 DEF PublishOps, ErrandOK
<1>6. ErrandOK(w, r)'
  <2>1. \A c \in Convs : r.held[c] # Absent => r.held[c].listing # Null
    BY <1>1, <1>3 DEF ErrandOK
  <2>2. r.op \notin TurnOps BY <1>3, <1>5 DEF TurnOps
  <2>3. r.op = "settle" => Queued(r.row.listing)'
    BY <1>3
  <2>4. QED BY <1>2, <1>3, <1>5, <2>1, <2>2, <2>3 DEF ErrandOK
<1>7. ~ torn /\ w = Chain => OnlyOpen(r) BY <1>1, <1>3, <1>5 DEF OnlyOpen
<1>8. ~ torn => HeldTrue(r) BY <1>1, <1>3 DEF HeldTrue
<1>9. ~ torn /\ w \notin overtaken' => StillOpen(r)
  <2>1. overtaken' = overtaken BY <1>4 DEF Carry
  <2>2. inflight[w].op \in Writers BY DEF Writers, PublishOps
  <2>3. QED BY <1>1, <1>3, <1>5, <2>1, <2>2 DEF StillOpen
<1>10. profile' \in Profiles /\ missed' \in BOOLEAN BY DEF BotInv, BotTypeOK
<1>11. QED BY <1>3, <1>4, <1>6, <1>7, <1>8, <1>9, <1>10, ReadsOn

\* The listing is validated, and made or edited.
LEMMA MakeListingInv ==
  ASSUME BotInv, TornNoted, NEW w \in Workers, MakeListing(w)
  PROVE  BotInv'
<1> DEFINE m == Memory(w)
<1>1. /\ inflight[w] # Null /\ inflight[w].op = "publish"
      /\ UNCHANGED <<conv, later, profile, missed>>
  BY DEF MakeListing, Running
<1>2. BotTypeOK /\ m \in BotRow /\ m = inflight[w].row BY <1>1, AtErrand DEF BotInv, Memory
<1>3. PICK mm \in BotRow : mm = m BY <1>2
<1> DEFINE route == Route(profile = "complete")
<1>4. PICK rt \in {"submit", "hold"} : rt = route BY DEF Route
<1>5. \/ \E row \in BotRow : /\ row.listing = m.listing
                             /\ Carry(w, Goes(w, "reask", row)) /\ listing' = listing
      \/ /\ m.listing # Null
         /\ \/ listing[m.listing] = "ACTIVE" /\ Carry(w, Goes(w, "fail", m)) /\ listing' = listing
            \/ listing[m.listing] = "PENDING" /\ Carry(w, Goes(w, "settle", m)) /\ listing' = listing
            \/ /\ Carry(w, Goes(w, rt, [m EXCEPT !.listing = m.listing]))
               /\ listing' = [listing EXCEPT ![m.listing] = IF @ = "REJECTED" THEN "EDITED" ELSE @]
      \/ /\ m.listing = Null
         /\ \E l \in Listings : /\ listing[l] = "none"
                                /\ listing' = [listing EXCEPT ![l] = "DRAFT"]
                                /\ Carry(w, Goes(w, rt, [m EXCEPT !.listing = l]))
  <2>1. \A p \in Parts : Lacking(m, p) \in BotRow /\ Lacking(m, p).listing = m.listing
    BY <1>2, RowEdits
  <2>2. QED BY <1>2, <1>4, <2>1 DEF MakeListing
<1>6. "reask" \in PublishOps /\ "fail" \in PublishOps /\ "settle" \in PublishOps
      /\ rt \in PublishOps \ {"publish"}
  BY DEF PublishOps
<1>7. listing' = listing =>
        listing' \in [Listings -> ListingStatuses] /\ \A k : Queued(k) => Queued(k)'
  BY <1>2 DEF BotTypeOK, ListingStatuses, Queued
<1> HIDE DEF m, route
<1>8. CASE \E row \in BotRow : /\ row.listing = m.listing
                               /\ Carry(w, Goes(w, "reask", row)) /\ listing' = listing
  BY <1>1, <1>2, <1>6, <1>7, <1>8, PublishGoesOn
<1>9. CASE m.listing # Null /\ listing' = listing /\ listing[m.listing] = "ACTIVE"
           /\ Carry(w, Goes(w, "fail", m))
  BY <1>1, <1>2, <1>3, <1>6, <1>7, <1>9, PublishGoesOn
<1>10. CASE m.listing # Null /\ listing' = listing /\ listing[m.listing] = "PENDING"
            /\ Carry(w, Goes(w, "settle", m))
  <2>1. mm.listing \in Listings BY <1>3, <1>10 DEF BotRow
  <2>2. Queued(mm.listing)' BY <1>3, <1>10, <2>1 DEF Queued
  <2>3. QED BY <1>1, <1>2, <1>3, <1>6, <1>7, <1>10, <2>2, PublishGoesOn
<1>11. CASE /\ m.listing # Null
            /\ Carry(w, Goes(w, rt, [m EXCEPT !.listing = m.listing]))
            /\ listing' = [listing EXCEPT ![m.listing] = IF @ = "REJECTED" THEN "EDITED" ELSE @]
  <2>1. m.listing \in Listings /\ [mm EXCEPT !.listing = mm.listing] = mm
    BY <1>2, <1>3, <1>11 DEF BotRow
  <2>2. listing' \in [Listings -> ListingStatuses] /\ \A k : Queued(k) => Queued(k)'
    BY <1>2, <1>11, <2>1 DEF BotTypeOK, ListingStatuses, Queued
  <2>3. Carry(w, Goes(w, rt, mm)) BY <1>3, <1>11, <2>1
  <2>4. rt # "settle" OBVIOUS
  <2>5. QED BY <1>1, <1>2, <1>3, <1>6, <1>11, <2>2, <2>3, <2>4, PublishGoesOn
<1>12. CASE /\ m.listing = Null
            /\ \E l \in Listings : /\ listing[l] = "none"
                                   /\ listing' = [listing EXCEPT ![l] = "DRAFT"]
                                   /\ Carry(w, Goes(w, rt, [m EXCEPT !.listing = l]))
  <2>1. PICK l \in Listings : /\ listing[l] = "none"
                              /\ listing' = [listing EXCEPT ![l] = "DRAFT"]
                              /\ Carry(w, Goes(w, rt, [m EXCEPT !.listing = l]))
    BY <1>12
  <2>2. listing' \in [Listings -> ListingStatuses] /\ \A k : Queued(k) => Queued(k)'
    BY <1>2, <2>1 DEF BotTypeOK, ListingStatuses, Queued
  <2>3. PICK row \in BotRow : row = [mm EXCEPT !.listing = l] BY DEF BotRow
  <2>4. row.listing = l /\ l # Null BY <2>3, BotAssumption DEF BotRow
  <2>5. Carry(w, Goes(w, rt, row)) BY <1>3, <2>1, <2>3
  <2>6. rt # "settle" OBVIOUS
  <2>7. QED BY <1>1, <1>2, <1>6, <1>12, <2>2, <2>4, <2>5, <2>6, PublishGoesOn
<1>13. QED BY <1>5, <1>8, <1>9, <1>10, <1>11, <1>12

\* The listing is submitted, or refused.
LEMMA SubmitInv ==
  ASSUME BotInv, TornNoted, NEW w \in Workers, Submit(w)
  PROVE  BotInv'
<1>1. /\ inflight[w] # Null /\ inflight[w].op = "submit"
      /\ UNCHANGED <<conv, later, profile, missed>>
  BY DEF Submit, Running
<1>2. /\ BotTypeOK /\ Memory(w) = inflight[w].row /\ inflight[w].row \in BotRow
      /\ inflight[w].row.listing # Null
  BY <1>1, AtErrand DEF BotInv, Memory, ErrandOK
<1>3. PICK m \in BotRow : m = Memory(w) BY <1>2
<1>4. m.listing \in Listings /\ m.listing = inflight[w].row.listing BY <1>2, <1>3 DEF BotRow
<1>5. \A p \in Parts : Lacking(m, p) \in BotRow /\ Lacking(m, p).listing = m.listing
  BY RowEdits
<1>6. {"settle", "reask", "fail"} \subseteq PublishOps \ {"publish"} BY DEF PublishOps
<1>7. listing' = listing =>
        listing' \in [Listings -> ListingStatuses] /\ \A k : Queued(k) => Queued(k)'
  BY <1>2 DEF BotTypeOK, ListingStatuses, Queued
<1>8. CASE listing' = [listing EXCEPT ![m.listing] = "PENDING"] /\ Carry(w, Goes(w, "settle", m))
  <2>1. /\ listing' \in [Listings -> ListingStatuses]
        /\ \A k : Queued(k) => Queued(k)'
        /\ Queued(m.listing)'
    BY <1>2, <1>4, <1>8, ListingMoved
  <2>2. QED BY <1>1, <1>2, <1>4, <1>6, <1>8, <2>1, PublishGoesOn
<1>9. CASE listing' = listing /\ Carry(w, Goes(w, "reask", Lacking(m, "place")))
  <2>1. PICK row \in BotRow : row = Lacking(m, "place") /\ row.listing = m.listing
    BY <1>5, BotAssumption
  <2>2. QED BY <1>1, <1>4, <1>6, <1>7, <1>9, <2>1, PublishGoesOn
<1>10. CASE listing' = listing /\ Carry(w, Goes(w, "fail", m))
  BY <1>1, <1>4, <1>6, <1>7, <1>10, PublishGoesOn
<1>11. QED BY <1>3, <1>8, <1>9, <1>10 DEF Submit

-----------------------------------------------------------------------------
(* Steps that write a conversation                                          *)

\* CONFIRMATION is saved, and memory refreshed from the row.
LEMMA ConfirmInv ==
  ASSUME BotInv, TornNoted, NEW w \in Workers, Confirm(w)
  PROVE  BotInv'
<1>1. /\ inflight[w] # Null /\ inflight[w].op \in {"turn", "retry"}
      /\ inflight[w].op = "turn" => inflight[w].conv # Null
  BY DEF Confirm, InTurn, Running
<1>2. PICK c \in Convs : c = inflight[w].conv BY <1>1, AtErrand DEF ErrandOK
<1>3. /\ BotTypeOK /\ Memory(w) \in BotRow /\ Memory(w) = inflight[w].row
      /\ ErrandOK(w, inflight[w])
      /\ ~ torn => HeldTrue(inflight[w])
      /\ ~ torn /\ w = Chain => OnlyOpen(inflight[w])
      /\ ~ torn /\ w \notin overtaken => StillOpen(inflight[w])
  BY <1>1, AtErrand DEF BotInv, Memory
<1>4. PICK o \in Outcome : /\ o = To(Memory(w), "CONFIRMATION")
                           /\ o.status = "CONFIRMATION" /\ o.listing = Unpatched
  BY <1>3, OutcomeType DEF Statuses, OpenStatuses
<1>5. PICK row \in BotRow : row = Saved(c, o) BY <1>3, SavedRow
<1>6. row.status = "CONFIRMATION" /\ row.listing = conv[c].listing
  BY <1>3, <1>4, <1>5, SavedRow DEF Patched, Unpatched
<1>7. /\ conv' = [conv EXCEPT ![c] = row] /\ Touch(c)
      /\ CommitThen(w, Goes(w, "publish", row))
      /\ UNCHANGED <<listing, profile, missed>>
  BY <1>2, <1>4, <1>5 DEF Confirm, Save
<1>8. PICK r \in Requests :
        /\ r = Goes(w, "publish", row)
        /\ r # Null /\ r.op = "publish" /\ r.row = row
        /\ r.conv = c /\ r.held = inflight[w].held
  BY <1>1, <1>2, GoesType DEF PublishOps
<1>9. /\ BotTypeOK' /\ overtaken \ {w} \subseteq overtaken'
      /\ \A v \in Workers : inflight'[v] = IF v = w THEN r ELSE inflight[v]
      /\ conv' \in [Convs -> BotRow]
      /\ \A d \in Convs : conv'[d] = IF d = c THEN row ELSE conv[d]
  <2>1. /\ conv' \in [Convs -> BotRow]
        /\ \A d \in Convs : conv'[d] = IF d = c THEN row ELSE conv[d]
    BY <1>3, <1>7, RowWritten
  <2>2. later' \in [Convs -> SUBSET Convs] BY <1>3, <1>7, TouchType
  <2>3. Takes(w, r) /\ Left(w, r) BY <1>7, <1>8 DEF Takes, Left
  <2>4. QED BY <1>3, <1>7, <1>8, <2>1, <2>2, <2>3, BotStep DEF BotTypeOK
<1>10. \A v \in Workers \ {w} : inflight[v] # Null => v \in overtaken'
  BY <1>1, <1>3, <1>7, OvertakesAll
<1>11. \A l : Queued(l) => Queued(l)' BY <1>7 DEF Queued
<1>12. ErrandOK(w, r)'
  BY <1>1, <1>2, <1>3, <1>8, BotAssumption DEF ErrandOK, TurnOps, PublishOps
<1>13. ~ torn' => IsOpen(c) /\ ~ torn
  <2>1. CASE conv' # conv /\ ~ torn'
    <3>1. inflight'[w] # inflight[w] BY <1>1, <1>8, <1>9
    <3>2. ~ torn /\ w \notin overtaken BY <2>1, <3>1, WrittenFresh
    <3>3. QED BY <1>1, <1>2, <1>3, <3>2, BotAssumption DEF StillOpen, Writers
  <2>2. CASE conv' = conv /\ ~ torn'
    <3>1. conv[c].status = "CONFIRMATION" BY <1>6, <1>9, <2>2
    <3>2. QED BY <2>2, <3>1 DEF IsOpen, OpenStatuses, TornNoted
  <2>3. QED BY <2>1, <2>2
<1>14. ASSUME ~ torn', NEW d \in Convs
       PROVE  /\ conv'[d].listing = conv[d].listing
              /\ conv'[d].status = "VERIFICATION" => conv[d].status = "VERIFICATION"
              /\ IsOpen(d)' => IsOpen(d)
  BY <1>6, <1>9, <1>13, <1>14 DEF IsOpen
<1>15. ~ torn' /\ w = Chain => OnlyOpen(r)'
  BY <1>2, <1>3, <1>8, <1>13, <1>14 DEF OnlyOpen
<1>16. ~ torn' => HeldTrue(r)' BY <1>3, <1>8, <1>13, <1>14 DEF HeldTrue
<1>17. StillOpen(r)'
  BY <1>6, <1>8, <1>9 DEF StillOpen, IsOpen, OpenStatuses
<1>18. QED BY <1>8, <1>9, <1>10, <1>11, <1>12, <1>14, <1>15, <1>16, <1>17, BotMoves

\* A turn starts over: its conversation is closed.
LEMMA RestartInv ==
  ASSUME BotInv, TornNoted, NEW w \in Workers, RestartReply(w)
  PROVE  BotInv'
<1>1. inflight[w] # Null /\ inflight[w].op = "turn" /\ inflight[w].conv # Null
  BY DEF RestartReply, InTurn, Running
<1>2. PICK c \in Convs : c = inflight[w].conv BY <1>1, AtErrand
<1>3. /\ BotTypeOK /\ ErrandOK(w, inflight[w])
      /\ ~ torn => HeldTrue(inflight[w])
      /\ ~ torn /\ w = Chain => OnlyOpen(inflight[w])
  BY <1>1, AtErrand DEF BotInv
<1>4. w = Chain BY <1>1, <1>3 DEF ErrandOK, TurnOps
<1>5. PICK row \in BotRow : /\ row = Cancelled(c) /\ row.status = "CANCELLED"
                            /\ row.listing = conv[c].listing
  BY ClosedRow
<1>6. /\ conv' = [conv EXCEPT ![c] = row] /\ Touch(c)
      /\ CommitThen(w, Goes(w, "create", Absent))
      /\ UNCHANGED <<listing, profile, missed>>
  BY <1>2, <1>5 DEF RestartReply, OnRestart
<1>7. Absent \in BotRow BY DEF Absent, NewConv, BotRow
<1>8. PICK r \in Requests :
        /\ r = Goes(w, "create", Absent)
        /\ r # Null /\ r.op = "create"
        /\ r.conv = c /\ r.held = inflight[w].held
  BY <1>1, <1>2, <1>7, GoesType DEF TurnOps
<1>9. /\ BotTypeOK' /\ overtaken \ {w} \subseteq overtaken'
      /\ \A v \in Workers : inflight'[v] = IF v = w THEN r ELSE inflight[v]
      /\ \A d \in Convs : conv'[d] = IF d = c THEN row ELSE conv[d]
  <2>1. /\ conv' \in [Convs -> BotRow]
        /\ \A d \in Convs : conv'[d] = IF d = c THEN row ELSE conv[d]
    BY <1>3, <1>6, RowWritten
  <2>2. later' \in [Convs -> SUBSET Convs] BY <1>3, <1>6, TouchType
  <2>3. Takes(w, r) /\ Left(w, r) BY <1>6, <1>8 DEF Takes, Left
  <2>4. QED BY <1>3, <1>6, <1>8, <2>1, <2>2, <2>3, BotStep DEF BotTypeOK
<1>10. \A v \in Workers \ {w} : inflight[v] # Null => v \in overtaken'
  BY <1>1, <1>3, <1>6, OvertakesAll
<1>11. \A l : Queued(l) => Queued(l)' BY <1>6 DEF Queued
<1>12. ErrandOK(w, r)'
  BY <1>1, <1>2, <1>3, <1>4, <1>8, BotAssumption DEF ErrandOK, TurnOps
<1>13. ~ torn' => ~ torn BY DEF TornNoted
<1>14. \A d \in Convs : /\ conv'[d].listing = conv[d].listing
                        /\ conv'[d].status = "VERIFICATION" => conv[d].status = "VERIFICATION"
                        /\ IsOpen(d)' => IsOpen(d) /\ d # c
  BY <1>5, <1>9 DEF IsOpen, OpenStatuses, Asking
<1>15. ~ torn' => OnlyOpen(r)'
  BY <1>2, <1>3, <1>4, <1>13, <1>14 DEF OnlyOpen
<1>16. ~ torn' => HeldTrue(r)' BY <1>3, <1>8, <1>13, <1>14 DEF HeldTrue
<1>17. StillOpen(r)' BY <1>8 DEF StillOpen, Writers, PublishOps
<1>18. QED BY <1>8, <1>9, <1>10, <1>11, <1>12, <1>14, <1>15, <1>16, <1>17, BotMoves

\* A conversation is started where none is open.
LEMMA CreateInv ==
  ASSUME BotInv, TornNoted, NEW w \in Workers, Create(w)
  PROVE  BotInv'
<1>1. /\ inflight[w] # Null /\ inflight[w].op \in {"create", "turn"}
      /\ inflight[w].op = "turn" => inflight[w].conv = Null
  BY DEF Create, Running
<1>2. /\ BotTypeOK /\ ErrandOK(w, inflight[w])
      /\ ~ torn /\ w = Chain => OnlyOpen(inflight[w])
  BY <1>1, AtErrand DEF BotInv
<1>3. w = Chain BY <1>1, <1>2 DEF ErrandOK, TurnOps
<1>4. PICK c \in Convs :
        /\ \/ conv[c].listing = Null
           \/ \A v \in Workers : inflight[v] # Null => inflight[v].held[c] = Absent
        /\ conv' = [conv EXCEPT ![c] = NewConv]
        /\ Touch(c)
        /\ CommitThen(w, Request("identify", c, NewConv))
        /\ UNCHANGED <<listing, profile, missed>>
  BY DEF Create, Unused, Idle, Held
<1>5. NewConv \in BotRow /\ c # Null BY BotAssumption DEF NewConv, BotRow, OpenStatuses
<1>6. PICK r \in Requests :
        /\ r = Request("identify", c, NewConv)
        /\ r # Null /\ r.op = "identify" /\ r.conv = c /\ r.row = NewConv
        /\ ErrandOK(w, r)' /\ HeldTrue(r)'
  BY <1>3, <1>5, FreshRequest
<1>7. PICK row \in BotRow : row = NewConv /\ row.status = "START" /\ row.listing = Null
  BY <1>5 DEF NewConv
<1>8. /\ BotTypeOK' /\ overtaken \ {w} \subseteq overtaken'
      /\ \A v \in Workers : inflight'[v] = IF v = w THEN r ELSE inflight[v]
      /\ \A d \in Convs : conv'[d] = IF d = c THEN row ELSE conv[d]
  <2>1. /\ conv' \in [Convs -> BotRow]
        /\ \A d \in Convs : conv'[d] = IF d = c THEN row ELSE conv[d]
    BY <1>2, <1>4, <1>7, RowWritten
  <2>2. later' \in [Convs -> SUBSET Convs] BY <1>2, <1>4, TouchType
  <2>3. Takes(w, r) /\ Left(w, r) BY <1>4, <1>6 DEF Takes, Left
  <2>4. QED BY <1>2, <1>4, <1>6, <2>1, <2>2, <2>3, BotStep DEF BotTypeOK
<1>9. \A v \in Workers \ {w} : inflight[v] # Null => v \in overtaken'
  BY <1>1, <1>2, <1>4, OvertakesAll
<1>10. \A l : Queued(l) => Queued(l)' BY <1>4 DEF Queued
<1>11. ASSUME ~ torn' PROVE \A d \in Convs : IsOpen(d)' => d = c
  <2>1. \A d \in Convs : ~ IsOpen(d)
    BY <1>1, <1>2, <1>3, <1>11, BotAssumption DEF OnlyOpen, TornNoted
  <2>2. QED BY <1>8, <2>1 DEF IsOpen
<1>12. \A d \in Convs :
         /\ \/ conv[d].listing # Null => conv'[d].listing = conv[d].listing
            \/ \A v \in Workers \ {w} : inflight[v] # Null => inflight[v].held[d] = Absent
         /\ conv'[d].status = "VERIFICATION" =>
              conv[d].status = "VERIFICATION" /\ conv'[d].listing = conv[d].listing
  BY <1>4, <1>7, <1>8
<1>13. ~ torn' => OnlyOpen(r)' BY <1>6, <1>11 DEF OnlyOpen
<1>14. StillOpen(r)' BY <1>6, <1>7, <1>8 DEF StillOpen, IsOpen, OpenStatuses
<1>15. QED BY <1>3, <1>6, <1>8, <1>9, <1>10, <1>11, <1>12, <1>13, <1>14, BotMoves

\* A submission is opened again, where no conversation is open.
LEMMA ReopenInv ==
  ASSUME BotInv, TornNoted, NEW w \in Workers, Reopen(w)
  PROVE  BotInv'
<1>1. inflight[w] # Null /\ inflight[w].op = "turn" /\ inflight[w].conv = Null
  BY DEF Reopen, Running
<1>2. /\ BotTypeOK /\ ErrandOK(w, inflight[w])
      /\ ~ torn /\ w = Chain => OnlyOpen(inflight[w])
  BY <1>1, AtErrand DEF BotInv
<1>3. w = Chain BY <1>1, <1>2 DEF ErrandOK, TurnOps
<1>4. PICK c \in findLatest : \E o \in Ask(conv[c]) \cup {ShowReview(conv[c])} : Save(c, o)
  BY DEF Reopen
<1>5. c \in Convs /\ conv[c] \in BotRow BY <1>2, <1>4 DEF findLatest, LastOf, BotTypeOK
<1>6. PICK o \in TalkingOn : Save(c, o)
  BY <1>4, <1>5, AskTalks
<1>7. o \in Outcome /\ o.listing = Unpatched /\ o.status \in OpenStatuses \cup {Unpatched}
  BY DEF TalkingOn
<1>8. PICK row \in BotRow :
        /\ row = Saved(c, o) /\ row.listing = conv[c].listing
        /\ row.status \in OpenStatuses \cup {conv[c].status}
  BY <1>2, <1>5, <1>7, SavedRow DEF Patched
<1>9. /\ conv' = [conv EXCEPT ![c] = row] /\ Touch(c) /\ Commit(w)
      /\ UNCHANGED <<listing, profile, missed>>
  BY <1>6, <1>8 DEF Save, Reopen
<1>10. /\ BotTypeOK' /\ overtaken \ {w} \subseteq overtaken'
       /\ \A v \in Workers : inflight'[v] = IF v = w THEN Null ELSE inflight[v]
       /\ \A d \in Convs : conv'[d] = IF d = c THEN row ELSE conv[d]
  <2>1. /\ conv' \in [Convs -> BotRow]
        /\ \A d \in Convs : conv'[d] = IF d = c THEN row ELSE conv[d]
    BY <1>2, <1>5, <1>9, RowWritten
  <2>2. later' \in [Convs -> SUBSET Convs] BY <1>2, <1>5, <1>9, TouchType
  <2>3. Takes(w, Null) /\ Left(w, Null) BY <1>9, EndTakesNull DEF Left
  <2>4. QED BY <1>2, <1>9, <2>1, <2>2, <2>3, BotStep DEF BotTypeOK
<1>11. \A v \in Workers \ {w} : inflight[v] # Null => v \in overtaken'
  BY <1>1, <1>2, <1>9, OvertakesAll
<1>12. \A l : Queued(l) => Queued(l)' BY <1>9 DEF Queued
<1>13. ASSUME ~ torn' PROVE \A d \in Convs : IsOpen(d)' => d = c
  <2>1. \A d \in Convs : ~ IsOpen(d)
    BY <1>1, <1>2, <1>3, <1>13, BotAssumption DEF OnlyOpen, TornNoted
  <2>2. QED BY <1>10, <2>1 DEF IsOpen
<1>14. \A d \in Convs :
         /\ conv'[d].listing = conv[d].listing
         /\ conv'[d].status = "VERIFICATION" => conv[d].status = "VERIFICATION"
  BY <1>8, <1>10 DEF OpenStatuses, Asking
<1>15. QED BY <1>3, <1>10, <1>11, <1>12, <1>13, <1>14, BotMoves

\* An admin cancels the open conversation.
LEMMA AdminCancelInv ==
  ASSUME BotInv, TornNoted, NEW w \in Workers, AdminCancel(w)
  PROVE  BotInv'
<1>1. PICK c \in Convs : conv' = [conv EXCEPT ![c] = Cancelled(c)] BY DEF AdminCancel
<1>2. PICK row \in BotRow : /\ row = Cancelled(c) /\ row.status = "CANCELLED"
                            /\ row.listing = conv[c].listing
  BY ClosedRow
<1>3. BotTypeOK /\ InflightOK /\ TornNoted BY DEF BotInv, BotTypeOK
<1>4. /\ conv' \in [Convs -> BotRow]
      /\ \A d \in Convs : conv'[d] = IF d = c THEN row ELSE conv[d]
  BY <1>1, <1>2, <1>3, RowWritten
<1>5. /\ inflight[w] = Null /\ CommitAtOnce("number")
      /\ UNCHANGED <<later, listing, profile, missed>>
  BY DEF AdminCancel, Idle
<1>6. /\ InflightOK' /\ inflight' = inflight /\ overtaken \subseteq overtaken'
      /\ \A v \in Workers : ~ Idle(v) /\ inflight[v].on = "number" => v \in overtaken'
  BY <1>3, <1>5, AtOnce
<1>7. torn' \in BOOLEAN BY <1>3 DEF TornNoted, BotTypeOK
<1>8. BotTypeOK' BY <1>3, <1>4, <1>5, <1>6, <1>7 DEF BotTypeOK, Idle
<1>9. \A v \in Workers : inflight[v] # Null => v \in overtaken'
  BY <1>3, <1>6 DEF BotTypeOK, Requests, Idle
<1>10. \A l : Queued(l) => Queued(l)' BY <1>5 DEF Queued
<1>11. \A d \in Convs : /\ IsOpen(d)' => IsOpen(d)
                        /\ conv'[d].listing = conv[d].listing
                        /\ conv'[d].status = "VERIFICATION" => conv[d].status = "VERIFICATION"
  BY <1>2, <1>4 DEF IsOpen, OpenStatuses, Asking
<1>12. \A v \in Workers : inflight'[v] = IF v = w THEN Null ELSE inflight[v] BY <1>5, <1>6
<1>13. overtaken \ {w} \subseteq overtaken' BY <1>6
<1>14. QED BY <1>8, <1>9, <1>10, <1>11, <1>12, <1>13, BotMoves

-----------------------------------------------------------------------------
(* The release of what is held                                              *)

\* A release writes one of the conversations it holds and goes on to the next, or
\* ends.
LEMMA NextHeldInv ==
  ASSUME BotInv, TornNoted, NEW w \in Workers, inflight[w] # Null,
         inflight[w].op \in {"releasing", "relabel"}, NEW c \in Convs,
         NEW row \in BotRow, conv' = [conv EXCEPT ![c] = row], Touch(c), NextHeld(w, c),
         UNCHANGED <<listing, profile, missed>>,
         row.listing = conv[c].listing,
         \/ row.status = "COMPLETED"
         \/ row.status = "VERIFICATION" /\ (~ torn => Queued(conv[c].listing))
  PROVE  BotInv'
<1> DEFINE rest == [inflight[w] EXCEPT !.op = "releasing", !.conv = Null, !.held[c] = Absent]
<1>1. /\ BotTypeOK /\ ErrandOK(w, inflight[w]) /\ inflight[w] \in Requests
      /\ inflight[w].held \in [Convs -> BotRow]
      /\ ~ torn => HeldTrue(inflight[w])
  BY AtErrand DEF BotInv
<1>2. w # Chain BY <1>1 DEF ErrandOK, TurnOps, PublishOps
<1>3. Absent \in BotRow BY DEF Absent, NewConv, BotRow
<1>4. /\ rest \in Requests /\ rest # Null /\ rest.op = "releasing" /\ rest.conv = Null
      /\ \A d \in Convs : rest.held[d] = IF d = c THEN Absent ELSE inflight[w].held[d]
  <2>1. rest \in Requests BY <1>1, <1>3 DEF Requests, ReleaseOps
  <2>2. QED BY <1>1, <2>1, BotRequestAssumption DEF Requests
<1>5. PICK r \in Requests \cup {Null} :
        \/ r = Null /\ Commit(w)
        \/ r = rest /\ CommitThen(w, rest)
  BY <1>4 DEF NextHeld
<1> HIDE DEF rest
<1>6. Takes(w, r) /\ Left(w, r) BY <1>5, EndTakesNull DEF Takes, Left
<1>7. /\ BotTypeOK' /\ overtaken \ {w} \subseteq overtaken'
      /\ \A v \in Workers : inflight'[v] = IF v = w THEN r ELSE inflight[v]
      /\ \A d \in Convs : conv'[d] = IF d = c THEN row ELSE conv[d]
  <2>1. /\ conv' \in [Convs -> BotRow]
        /\ \A d \in Convs : conv'[d] = IF d = c THEN row ELSE conv[d]
    BY <1>1, RowWritten
  <2>2. later' \in [Convs -> SUBSET Convs] BY <1>1, TouchType
  <2>3. QED BY <1>1, <1>6, <2>1, <2>2, BotStep DEF BotTypeOK
<1>8. \A v \in Workers \ {w} : inflight[v] # Null => v \in overtaken'
  <2>1. Commit(w) \/ CommitThen(w, rest) BY <1>5
  <2>2. QED BY <1>1, <2>1, OvertakesAll
<1>9. \A l : Queued(l) <=> Queued(l)' BY DEF Queued
<1>10. r # Null => ErrandOK(w, r)'
  <2>1. r # Null => r = rest BY <1>5
  <2>2. r # Null => \A d \in Convs : r.held[d] # Absent => r.held[d].listing # Null
    BY <1>1, <1>4, <2>1 DEF ErrandOK
  <2>3. QED BY <1>2, <1>4, <2>1, <2>2 DEF ErrandOK, TurnOps
<1>11. ~ torn' => ~ torn BY DEF TornNoted
<1>12. \A d \in Convs : /\ IsOpen(d)' => IsOpen(d)
                        /\ conv'[d].listing = conv[d].listing
  BY <1>7 DEF IsOpen, OpenStatuses, Asking
<1>13. ASSUME ~ torn', NEW d \in Convs, conv'[d].status = "VERIFICATION"
       PROVE  \/ conv[d].status = "VERIFICATION" /\ conv'[d].listing = conv[d].listing
              \/ Queued(conv[d].listing)'
  <2>1. CASE d # c BY <1>7, <1>13, <2>1
  <2>2. CASE d = c
    <3>1. Queued(conv[c].listing) BY <1>7, <1>11, <1>13, <2>2
    <3>2. PICK l : l = conv[c].listing OBVIOUS
    <3>3. Queued(l)' BY <1>9, <3>1, <3>2
    <3>4. conv'[d].listing = l BY <1>12, <2>2, <3>2
    <3>5. QED BY <3>3, <3>4 DEF Queued
  <2>3. QED BY <2>1, <2>2
<1>14. ~ torn' /\ r # Null => HeldTrue(r)'
  <2>1. r # Null => r = rest BY <1>5
  <2>2. QED BY <1>1, <1>4, <1>11, <1>12, <2>1 DEF HeldTrue
<1>15. r # Null => StillOpen(r)'
  BY <1>4, <1>5 DEF StillOpen
<1>16. QED BY <1>2, <1>7, <1>8, <1>9, <1>10, <1>12, <1>13, <1>14, <1>15, BotMoves

\* The release looks for what is held.
LEMMA ReadHeldInv ==
  ASSUME BotInv, TornNoted, NEW w \in Workers, ReadHeld(w)
  PROVE  BotInv'
<1> DEFINE Kept(d) == conv[d].status = "AWAITING_PROFILE" /\ conv[d].listing # Null
           read == [d \in Convs |-> IF Kept(d) THEN conv[d] ELSE Absent]
<1>1. /\ inflight[w] # Null /\ inflight[w].op = "release"
      /\ UNCHANGED <<conv, later, listing, profile, missed>>
  BY DEF ReadHeld, Running, botRows
<1>2. /\ BotTypeOK /\ ErrandOK(w, inflight[w]) /\ inflight[w] \in Requests
      /\ missed' \in BOOLEAN
  BY <1>1, AtErrand DEF BotInv, BotTypeOK
<1>3. w # Chain BY <1>1, <1>2 DEF ErrandOK, TurnOps, PublishOps
<1>4. Absent \in BotRow BY DEF Absent, NewConv, BotRow
<1>5. read \in [Convs -> BotRow] BY <1>2, <1>4 DEF BotTypeOK
<1>6. PICK held \in [Convs -> BotRow] : held = read BY <1>5
<1>7. \A d \in Convs : held[d] # Absent =>
        held[d] = conv[d] /\ conv[d].listing # Null
  BY <1>6
<1>8. \/ Drop(w)
      \/ Reread(w, [inflight[w] EXCEPT !.op = "releasing", !.held = held])
  BY <1>6 DEF ReadHeld
<1> HIDE DEF read, Kept
<1>9. PICK r \in Requests :
        /\ r = [inflight[w] EXCEPT !.op = "releasing", !.held = held]
        /\ r # Null /\ r.op = "releasing" /\ r.held = held /\ r.conv = inflight[w].conv
  <2>1. [inflight[w] EXCEPT !.op = "releasing", !.held = held] \in Requests
    BY <1>2 DEF Requests, ReleaseOps
  <2>2. QED BY <1>2, <2>1, BotRequestAssumption DEF Requests
<1>10. CASE Drop(w) BY <1>1, <1>2, <1>10, DropInv
<1>11. CASE Reread(w, r)
  <2>1. Takes(w, r) /\ Left(w, r) BY <1>11 DEF Takes, Left
  <2>2. ErrandOK(w, r)'
    <3>1. \A d \in Convs : r.held[d] # Absent => r.held[d].listing # Null BY <1>7, <1>9
    <3>2. QED BY <1>3, <1>9, <3>1 DEF ErrandOK, TurnOps
  <2>3. HeldTrue(r) BY <1>7, <1>9 DEF HeldTrue
  <2>4. StillOpen(r) BY <1>9 DEF StillOpen, Writers, PublishOps
  <2>5. profile' \in Profiles /\ listing' \in [Listings -> ListingStatuses]
    BY <1>1, <1>2 DEF BotTypeOK, ListingStatuses
  <2>6. \A l : Queued(l) => Queued(l)' BY <1>1 DEF Queued
  <2>7. QED BY <1>1, <1>2, <1>3, <1>9, <2>1, <2>2, <2>3, <2>4, <2>5, <2>6, ReadsOn
<1>12. QED BY <1>8, <1>9, <1>10, <1>11

\* One of what is held is submitted, completed, or ends the release.
LEMMA ReleaseOneInv ==
  ASSUME BotInv, TornNoted, NEW w \in Workers, ReleaseOne(w)
  PROVE  BotInv'
<1>1. inflight[w] # Null /\ inflight[w].op = "releasing" /\ profile' = profile
  BY DEF ReleaseOne, Running
<1>2. /\ BotTypeOK /\ ErrandOK(w, inflight[w]) /\ inflight[w] \in Requests
      /\ inflight[w].held \in [Convs -> BotRow]
      /\ ~ torn => HeldTrue(inflight[w])
      /\ missed \in BOOLEAN /\ profile' \in Profiles
  BY <1>1, AtErrand DEF BotInv, BotTypeOK
<1>3. w # Chain BY <1>1, <1>2 DEF ErrandOK, TurnOps, PublishOps
<1>4. PICK c \in Held(w), l \in Listings :
        /\ l = inflight[w].held[c].listing
        /\ \/ /\ conv' = [conv EXCEPT ![c].status = "COMPLETED"]
              /\ Touch(c) /\ NextHeld(w, c)
              /\ UNCHANGED <<listing, missed>>
           \/ /\ UNCHANGED <<conv, later>>
              /\ \/ /\ listing' = [listing EXCEPT ![l] = "PENDING"]
                    /\ Carry(w, [inflight[w] EXCEPT !.op = "relabel", !.conv = c])
                    /\ UNCHANGED missed
                 \/ /\ missed' = (missed \/ listing[l] = "REJECTED")
                    /\ UNCHANGED listing /\ Drop(w)
  <2>1. PICK c \in Held(w) :
          LET l == inflight[w].held[c].listing IN
          IF listing[l] = "ACTIVE"
            THEN /\ conv' = [conv EXCEPT ![c].status = "COMPLETED"]
                 /\ Touch(c) /\ NextHeld(w, c)
                 /\ UNCHANGED <<listing, missed>>
            ELSE /\ UNCHANGED <<conv, later>>
                 /\ IF Relabelled(listing[l])
                      THEN /\ listing' = [listing EXCEPT ![l] = "PENDING"]
                           /\ Carry(w, [inflight[w] EXCEPT !.op = "relabel", !.conv = c])
                           /\ UNCHANGED missed
                      ELSE /\ missed' = (missed \/ listing[l] = "REJECTED")
                           /\ UNCHANGED listing /\ Drop(w)
    BY DEF ReleaseOne
  <2>2. inflight[w].held[c].listing \in Listings
    <3>1. c \in Convs /\ inflight[w].held[c] # Absent BY DEF Held
    <3>2. inflight[w].held[c].listing # Null BY <1>2, <3>1 DEF ErrandOK
    <3>3. inflight[w].held[c] \in BotRow BY <1>2, <3>1
    <3>4. QED BY <3>2, <3>3 DEF BotRow
  <2>3. QED BY <2>1, <2>2
<1>5. c \in Convs /\ inflight[w].held[c] # Absent BY DEF Held
<1>6. CASE /\ conv' = [conv EXCEPT ![c].status = "COMPLETED"]
           /\ Touch(c) /\ NextHeld(w, c)
           /\ UNCHANGED <<listing, missed>>
  <2>1. PICK row \in BotRow : /\ row = [conv[c] EXCEPT !.status = "COMPLETED"]
                              /\ row.status = "COMPLETED" /\ row.listing = conv[c].listing
    BY <1>5, ClosedRow
  <2>2. conv' = [conv EXCEPT ![c] = row] BY <1>2, <1>5, <1>6, <2>1 DEF BotTypeOK
  <2>3. QED BY <1>1, <1>5, <1>6, <2>1, <2>2, NextHeldInv
<1>7. CASE /\ UNCHANGED <<conv, later>>
           /\ listing' = [listing EXCEPT ![l] = "PENDING"]
           /\ Carry(w, [inflight[w] EXCEPT !.op = "relabel", !.conv = c])
           /\ UNCHANGED missed
  <2>1. PICK r \in Requests :
          /\ r = [inflight[w] EXCEPT !.op = "relabel", !.conv = c]
          /\ r # Null /\ r.op = "relabel" /\ r.conv = c /\ r.held = inflight[w].held
    <3>1. [inflight[w] EXCEPT !.op = "relabel", !.conv = c] \in Requests
      BY <1>2, <1>5 DEF Requests, ReleaseOps
    <3>2. QED BY <1>2, <3>1, BotRequestAssumption DEF Requests
  <2>2. /\ listing' \in [Listings -> ListingStatuses] /\ \A k : Queued(k) => Queued(k)'
        /\ Queued(l)'
    BY <1>2, <1>7, ListingMoved
  <2>3. ErrandOK(w, r)'
    <3>1. \A d \in Convs : r.held[d] # Absent => r.held[d].listing # Null
      BY <1>2, <2>1 DEF ErrandOK
    <3>2. r.held[r.conv].listing = l /\ r.held[r.conv] # Absent BY <1>4, <1>5, <2>1
    <3>3. r.conv # Null BY <1>5, <2>1, BotAssumption
    <3>4. Queued(r.held[r.conv].listing)' BY <2>2, <3>2
    <3>5. QED BY <1>3, <2>1, <3>1, <3>2, <3>3, <3>4 DEF ErrandOK, TurnOps
  <2>4. ~ torn => HeldTrue(r) BY <1>2, <2>1 DEF HeldTrue
  <2>5. StillOpen(r) BY <2>1 DEF StillOpen, Writers, PublishOps
  <2>6. Left(w, r) BY <1>7, <2>1 DEF Left
  <2>7. QED BY <1>2, <1>3, <1>7, <2>1, <2>2, <2>3, <2>4, <2>5, <2>6, ReadsOn
<1>8. CASE /\ UNCHANGED <<conv, later>> /\ UNCHANGED listing /\ Drop(w)
           /\ missed' = (missed \/ listing[l] = "REJECTED")
  <2>1. missed' \in BOOLEAN BY <1>2, <1>8
  <2>2. QED BY <1>1, <1>8, <2>1, DropInv
<1>9. QED BY <1>4, <1>6, <1>7, <1>8

\* ... and its conversation says so.
LEMMA RelabelInv ==
  ASSUME BotInv, TornNoted, NEW w \in Workers, Relabel(w)
  PROVE  BotInv'
<1>1. inflight[w] # Null /\ inflight[w].op = "relabel"
  BY DEF Relabel, Running
<1>2. /\ BotTypeOK /\ ErrandOK(w, inflight[w])
      /\ inflight[w].held \in [Convs -> BotRow]
      /\ ~ torn => HeldTrue(inflight[w])
  BY <1>1, AtErrand DEF BotInv
<1>3. PICK c \in Convs : c = inflight[w].conv BY <1>1, AtErrand DEF ErrandOK
<1>4. inflight[w].held[c] \in BotRow /\ inflight[w].held[c] # Absent
  BY <1>1, <1>2, <1>3 DEF ErrandOK
<1>5. PICK o \in Outcome : /\ o = To(inflight[w].held[c], "VERIFICATION")
                           /\ o.status = "VERIFICATION" /\ o.listing = Unpatched
  BY <1>4, OutcomeType DEF Statuses, Submitted
<1>6. PICK row \in BotRow : /\ row = Saved(c, o) /\ row.status = "VERIFICATION"
                            /\ row.listing = conv[c].listing
  BY <1>2, <1>5, SavedRow DEF Patched, Unpatched
<1>7. /\ conv' = [conv EXCEPT ![c] = row] /\ Touch(c) /\ NextHeld(w, c)
      /\ UNCHANGED <<listing, profile, missed>>
  BY <1>3, <1>5, <1>6 DEF Relabel, Save
<1>8. ~ torn => Queued(conv[c].listing)
  BY <1>1, <1>2, <1>3, <1>4 DEF HeldTrue, ErrandOK
<1>9. QED BY <1>1, <1>6, <1>7, <1>8, NextHeldInv

-----------------------------------------------------------------------------
(* Theorems about the listing bot                                           *)

\* Nothing is written yet.
LEMMA BotBegins ==
  ASSUME BotInit, InflightInit
  PROVE  BotInv
<1>1. InflightOK /\ \A w \in Workers : inflight[w] = Null
  BY DEF InflightInit, InflightOK
<1>2. Absent \in BotRow BY DEF Absent, NewConv, BotRow
<1>3. BotTypeOK BY <1>1, <1>2 DEF BotInit, BotTypeOK, Profiles, Idle
<1>4. WholeInv
  <2>1. \A c \in Convs : conv[c].status = "none" BY DEF BotInit, Absent, NewConv
  <2>2. QED BY <1>1, <2>1, BotAssumption DEF WholeInv, IsOpen, OpenStatuses, Asking
<1>5. QED BY <1>1, <1>3, <1>4 DEF BotInv

\* Every step keeps the invariant.
LEMMA BotGoesOn ==
  ASSUME BotInv, [BotNext]_botVars
  PROVE  BotInv'
<1>1. CASE UNCHANGED botVars
  <2>1. UNCHANGED <<conv, later, listing, profile, missed, torn, handlerVars>>
    BY <1>1 DEF botVars, botRows
  <2>2. listing' \in [Listings -> ListingStatuses]
    BY <2>1 DEF BotInv, BotTypeOK, ListingStatuses
  <2>3. \A l : Queued(l) => Queued(l)' BY <2>1 DEF Queued
  <2>4. QED BY <2>1, <2>2, <2>3, RequestsStay
<1>2. CASE BotNext
  <2>0. TornNoted /\ BotAction BY <1>2 DEF BotNext, TornNoted
  <2>1. CASE ReadTurn(Chain) BY <2>0, <2>1, ReadTurnInv
  <2>2. CASE \E w \in Aside : BotRequest(w)
    <3>1. PICK w \in Aside : BotRequest(w) BY <2>2
    <3>2. w \in Workers BY DEF Aside
    <3>3. CASE AdminCancel(w) BY <2>0, <3>2, <3>3, AdminCancelInv
    <3>4. CASE Approve(w) BY <2>0, <3>4, ApproveInv
    <3>5. CASE ReadForAdmin(w) \/ SaveProfile(w) \/ ReadForReminder(w)
      BY <2>0, <3>5, BeginsInv
    <3>6. QED BY <3>1, <3>3, <3>4, <3>5 DEF BotRequest
  <2>3. CASE BotTurn(Chain)
    BY <2>0, <2>3, BotAssumption, TalksInv, CancelInv, RestartInv, ReopenInv, CreateInv
    DEF BotTurn
  <2>4. CASE \E w \in Aside : Remind(w) \/ Complete(w)
    BY <2>0, <2>4, CancelInv DEF Aside
  <2>5. CASE \E w \in Workers : PublishStep(w) \/ Dies(w)
    <3>1. PICK w \in Workers : PublishStep(w) \/ Dies(w) BY <2>5
    <3>2. CASE Dies(w)
      <4>1. missed' \in BOOLEAN BY <3>2 DEF Dies, BotInv, BotTypeOK
      <4>2. QED BY <2>0, <3>2, <4>1, DropInv DEF Dies
    <3>3. CASE PublishStep(w)
      BY <2>0, <3>3, ConfirmInv, MakeListingInv, SubmitInv, EndPublishInv DEF PublishStep
    <3>4. QED BY <3>1, <3>2, <3>3
  <2>6. CASE ReleaseStep
    BY <2>0, <2>6, ReadHeldInv, ReleaseOneInv, RelabelInv DEF ReleaseStep
  <2>7. CASE ListingMoves BY <2>0, <2>7, ListingMovesInv
  <2>8. QED BY <2>0, <2>1, <2>2, <2>3, <2>4, <2>5, <2>6, <2>7 DEF BotAction
<1>3. QED BY <1>1, <1>2

\* The invariant of the listing bot.
LEMMA BotInvHolds == BotSpec => []BotInv
<1>1. BotInit /\ InflightInit => BotInv BY BotBegins
<1>2. BotInv /\ [BotNext]_botVars => BotInv' BY BotGoesOn
<1>3. QED BY <1>1, <1>2, PTL DEF BotSpec

\* The bot's rows and requests keep their types.
THEOREM BotTyped == BotSpec => []BotTypeOK
<1>1. BotInv => BotTypeOK BY DEF BotInv
<1>2. QED BY <1>1, BotInvHolds, PTL

\* "The one conversation this number is in the middle of": for any number of
\* conversations, listings and requests, a number that has at most one open
\* conversation keeps at most one, unless an overtaken request has written one.
THEOREM OneConversationOpen == BotSpec => []OneOpenConversation
<1>1. BotInv => OneOpenConversation BY DEF BotInv, WholeInv, OneOpenConversation
<1>2. QED BY <1>1, BotInvHolds, PTL

\* A conversation that says its listing is with the moderators points at a listing
\* that was submitted, under the same proviso.
THEOREM QueuedTellsTruth == BotSpec => []QueuedIsSubmitted
<1>1. BotInv => QueuedIsSubmitted
  BY BotAssumption DEF BotInv, WholeInv, QueuedIsSubmitted, Queued
<1>2. QED BY <1>1, BotInvHolds, PTL

-----------------------------------------------------------------------------
(* The refresher: the order of staleness                                    *)

USE RefresherAssumption

\* An answer that takes another's place is as stale as that one, and Valid ones are not
\* stale at all: the order stays an order.
LEMMA PlacedInOrder ==
  ASSUME BacklogOrdered, NEW from \in [Envelopes -> Envelopes \cup {Valid}], Placed(from)
  PROVE  /\ backlog' \subseteq Envelopes \X Envelopes
         /\ \A a, b \in Envelopes : <<a, b>> \in backlog' <=> <<from[a], from[b]>> \in backlog
         /\ \A a, b \in Envelopes : RanOut(a)' /\ RanOut(b)' =>
              <<a, b>> \in backlog' \/ <<b, a>> \in backlog'
         /\ \A p, q \in backlog' : p[2] = q[1] => <<p[1], q[2]>> \in backlog'
         /\ \A p \in backlog' : RanOut(p[1])' /\ RanOut(p[2])'
<1> DEFINE At(x) == {a \in Envelopes : from[a] = x}
<1>1. backlog' = UNION {At(p[1]) \X At(p[2]) : p \in backlog} BY DEF Placed
<1>2. backlog' \subseteq Envelopes \X Envelopes BY <1>1
<1>3. ASSUME NEW a \in Envelopes, NEW b \in Envelopes
      PROVE  <<a, b>> \in backlog' <=> <<from[a], from[b]>> \in backlog
  <2>1. ASSUME <<a, b>> \in backlog' PROVE <<from[a], from[b]>> \in backlog
    <3>1. PICK p \in backlog : <<a, b>> \in At(p[1]) \X At(p[2]) BY <1>1, <2>1
    <3>2. from[a] = p[1] /\ from[b] = p[2] BY <3>1
    <3>3. p = <<p[1], p[2]>> BY <3>1 DEF BacklogOrdered
    <3>4. QED BY <3>1, <3>2, <3>3
  <2>2. ASSUME <<from[a], from[b]>> \in backlog PROVE <<a, b>> \in backlog'
    <3> DEFINE p == <<from[a], from[b]>>
    <3>1. <<a, b>> \in At(p[1]) \X At(p[2]) OBVIOUS
    <3>2. QED BY <1>1, <2>2, <3>1
  <2>3. QED BY <2>1, <2>2
<1> HIDE DEF At
<1>4. \A p \in backlog' : p = <<p[1], p[2]>> /\ p[1] \in Envelopes /\ p[2] \in Envelopes BY <1>2
<1>5. \A a \in Envelopes : from[a] \in Envelopes \cup {Valid} OBVIOUS
<1>6. \A p \in backlog : p = <<p[1], p[2]>> /\ p[1] \in Envelopes /\ p[2] \in Envelopes
  BY DEF BacklogOrdered
<1>7. \A x, y : <<x, y>> \in backlog => x \in Envelopes /\ y \in Envelopes BY <1>6
<1>8. \A a, b \in Envelopes : RanOut(a)' /\ RanOut(b)' =>
        <<a, b>> \in backlog' \/ <<b, a>> \in backlog'
  BY <1>3, <1>7 DEF BacklogOrdered, RanOut
<1>9. \A p, q \in backlog' : p[2] = q[1] => <<p[1], q[2]>> \in backlog'
  <2> SUFFICES ASSUME NEW p \in backlog', NEW q \in backlog', p[2] = q[1]
               PROVE  <<p[1], q[2]>> \in backlog'
    OBVIOUS
  <2>1. <<from[p[1]], from[p[2]]>> \in backlog /\ <<from[q[1]], from[q[2]]>> \in backlog
    BY <1>3, <1>4
  <2>2. <<from[p[1]], from[q[2]]>> \in backlog BY <2>1 DEF BacklogOrdered
  <2>3. QED BY <1>3, <1>4, <2>2
<1>10. \A p \in backlog' : RanOut(p[1])' /\ RanOut(p[2])'
  <2> SUFFICES ASSUME NEW p \in backlog' PROVE RanOut(p[1])' /\ RanOut(p[2])' OBVIOUS
  <2>1. <<from[p[1]], from[p[2]]>> \in backlog BY <1>3, <1>4
  <2>2. RanOut(from[p[1]]) /\ RanOut(from[p[2]]) BY <2>1 DEF BacklogOrdered
  <2>3. QED BY <1>3, <1>4, <2>2 DEF RanOut
<1>11. QED BY <1>2, <1>3, <1>8, <1>9, <1>10

-----------------------------------------------------------------------------
(* The refresher: its steps                                                 *)

\* The columns that are not about the order.
RefreshRows ==
  /\ lock \in Instances \cup {Nobody}
  /\ job \in [Jobs -> Job]
  /\ \A i \in Jobs : IsStep(i, "write") => job[i].cells # <<>>
  /\ fails \in [Cells -> 0..MaxFailures]
  /\ crashes \in 0..MaxCrashes
  /\ threw \in BOOLEAN

\* The types of the rows and the order of staleness are proved apart.
LEMMA RefreshParts == RefreshTypeOK <=> RefreshRows /\ BacklogOrdered
BY DEF RefreshTypeOK, RefreshRows

\* A job that is at rest.
LEMMA RestingIsJob == Resting \in Job /\ Resting.step = "rest" /\ Resting.cells = <<>>
BY DEF Resting, Job, Slots

\* Nothing is stale and nobody at work to begin with.
LEMMA RefreshStart ==
  ASSUME RefreshInit PROVE RefreshTypeOK
<1>1. RefreshRows
  <2>1. job = [i \in Jobs |-> Resting] /\ \A i \in Jobs : job[i] = Resting BY DEF RefreshInit
  <2>2. job \in [Jobs -> Job] BY <2>1, RestingIsJob
  <2>3. \A i \in Jobs : ~ IsStep(i, "write") BY <2>1, RestingIsJob DEF IsStep
  <2>4. fails \in [Cells -> 0..MaxFailures] /\ crashes \in 0..MaxCrashes
    BY DEF RefreshInit
  <2>5. QED BY <2>2, <2>3, <2>4 DEF RefreshRows, RefreshInit
<1>2. BacklogOrdered BY DEF RefreshInit, BacklogOrdered, RanOut, Stale
<1>3. QED BY <1>1, <1>2, RefreshParts

\* A job that does not write holds no copies; while the table's order is untouched,
\* only the steps of jobs matter.
LEMMA OrderUntouched ==
  ASSUME BacklogOrdered, UNCHANGED backlog,
         \A i \in Jobs : IsStep(i, "write") => IsStep(i, "write")'
  PROVE  BacklogOrdered'
BY DEF BacklogOrdered, RanOut, Stale

\* What a job becomes, and the others stay.
LEMMA JobGoes ==
  ASSUME job \in [Jobs -> Job], NEW i \in Jobs, NEW v \in Job,
         job' = [job EXCEPT ![i] = v]
  PROVE  /\ job' \in [Jobs -> Job]
         /\ job'[i] = v
         /\ \A j \in Jobs \ {i} : job'[j] = job[j]
<1> HIDE DEF Job
<1>1. QED OBVIOUS

\* Jobs whose copies are let go of, or stay.
LEMMA ForgetOrder ==
  ASSUME BacklogOrdered, NEW i \in Jobs, Forget(i),
         \A j \in Jobs \ {i} : job'[j] = job[j]
  PROVE  BacklogOrdered'
<1> DEFINE from == [a \in Envelopes |-> IF a[1] = i THEN Valid ELSE a]
<1>1. from \in [Envelopes -> Envelopes \cup {Valid}] /\ Placed(from) BY DEF Forget
<1>2. \A a \in Envelopes : from[a] = IF a[1] = i THEN Valid ELSE a OBVIOUS
<1> HIDE DEF from
<1>3. /\ backlog' \subseteq Envelopes \X Envelopes
      /\ \A a, b \in Envelopes : <<a, b>> \in backlog' <=> <<from[a], from[b]>> \in backlog
      /\ \A a, b \in Envelopes : RanOut(a)' /\ RanOut(b)' =>
           <<a, b>> \in backlog' \/ <<b, a>> \in backlog'
      /\ \A p, q \in backlog' : p[2] = q[1] => <<p[1], q[2]>> \in backlog'
      /\ \A p \in backlog' : RanOut(p[1])' /\ RanOut(p[2])'
  BY <1>1, PlacedInOrder
<1>4. ~ (<<Valid, Valid>> \in backlog)
  BY DEF BacklogOrdered, Envelopes, Valid
<1>5. ASSUME NEW j \in Jobs, NEW s \in Slots, Stale(j, s)' PROVE IsStep(j, "write")'
  <2>1. <<j, s>> \in Envelopes BY DEF Envelopes
  <2>2. <<from[<<j, s>>], from[<<j, s>>]>> \in backlog
    BY <1>3, <1>5, <2>1 DEF Stale, RanOut
  <2>3. j # i /\ from[<<j, s>>] = <<j, s>> BY <1>2, <1>4, <2>1, <2>2
  <2>4. Stale(j, s) BY <2>2, <2>3 DEF Stale, RanOut
  <2>5. QED BY <2>3, <2>4 DEF BacklogOrdered, IsStep
<1>6. QED BY <1>3, <1>5 DEF BacklogOrdered

\* Where a step leaves the order, and the jobs that write, as they are.
LEMMA RowsGo ==
  ASSUME RefreshRows, BacklogOrdered, NEW i \in Jobs, NEW v \in Job,
         job' = [job EXCEPT ![i] = v], v.step # "write", ~ IsStep(i, "write"),
         UNCHANGED <<backlog, fails, crashes, threw>>, lock' \in Instances \cup {Nobody}
  PROVE  RefreshTypeOK'
<1>1. job \in [Jobs -> Job] BY DEF RefreshRows
<1>2. /\ job' \in [Jobs -> Job] /\ job'[i] = v
      /\ \A j \in Jobs \ {i} : job'[j] = job[j]
  BY <1>1, JobGoes
<1>3. BacklogOrdered' BY <1>2, OrderUntouched DEF IsStep
<1>4. RefreshRows' BY <1>2 DEF RefreshRows, IsStep
<1>5. QED BY <1>3, <1>4 DEF RefreshTypeOK, RefreshRows

\* A queue of cells, but for its head.
LEMMA TailOfCells ==
  ASSUME NEW q \in Seq(Cells), q # <<>>
  PROVE  Head(q) \in Cells /\ Tail(q) \in Seq(Cells)
OBVIOUS

\* What the tick takes is a queue of cells.
LEMMA FirstCellsAreCells ==
  ASSUME NEW q \in FirstCells(DueOrder(backlog)) PROVE q \in Seq(Cells)
<1>1. PICK n \in 0..CellsPerTick :
        q \in [1..n -> {c \in Cells : ~ CircuitOpen(c) /\ \E s \in Slots : Stale(c, s)}]
  BY DEF FirstCells
<1>2. n \in Nat OBVIOUS
<1>3. \A r \in 1..n : q[r] \in Cells BY <1>1
<1>4. q \in [1..n -> Cells] BY <1>1, <1>3
<1> HIDE DEF Stale
<1>5. QED BY <1>2, <1>4

\* What runs out last goes to the end of the order.
LEMMA GoStaleInv ==
  ASSUME RefreshTypeOK, GoStale PROVE RefreshTypeOK'
<1>1. PICK a \in Cells \X Slots :
        /\ ~ RanOut(a)
        /\ backlog' = backlog \cup ({b \in Envelopes : RanOut(b) \/ b = a} \X {a})
  BY DEF GoStale
<1> DEFINE S == {b \in Envelopes : RanOut(b) \/ b = a}
<1>2. a \in Envelopes BY DEF Envelopes
<1>3. \A x, y : <<x, y>> \in backlog' <=> <<x, y>> \in backlog \/ (x \in S /\ y = a)
  BY <1>1
<1>4. \A x, y : <<x, y>> \in backlog =>
        x \in Envelopes /\ y \in Envelopes /\ RanOut(x) /\ RanOut(y)
  BY DEF RefreshTypeOK, BacklogOrdered
<1>5. \A b \in Envelopes : RanOut(b)' <=> b \in S
  BY <1>1, <1>3 DEF RanOut
<1>6. backlog' \subseteq Envelopes \X Envelopes
  BY <1>1, <1>2 DEF RefreshTypeOK, BacklogOrdered
<1>7. \A b, c \in Envelopes : RanOut(b)' /\ RanOut(c)' =>
        <<b, c>> \in backlog' \/ <<c, b>> \in backlog'
  <2> SUFFICES ASSUME NEW b \in S, NEW c \in S
               PROVE  <<b, c>> \in backlog' \/ <<c, b>> \in backlog'
    BY <1>5
  <2>1. CASE b = a BY <1>3, <2>1
  <2>2. CASE c = a BY <1>3, <2>2
  <2>3. CASE b # a /\ c # a
    BY <1>3, <2>3 DEF RefreshTypeOK, BacklogOrdered
  <2>4. QED BY <2>1, <2>2, <2>3
<1>8. \A p, q \in backlog' : p[2] = q[1] => <<p[1], q[2]>> \in backlog'
  <2> SUFFICES ASSUME NEW x, NEW y, NEW z, <<x, y>> \in backlog', <<y, z>> \in backlog'
               PROVE  <<x, z>> \in backlog'
    BY <1>6
  <2>1. CASE <<y, z>> \in backlog
    <3>1. <<x, y>> \in backlog BY <1>1, <1>3, <1>4, <2>1
    <3>2. <<x, z>> \in backlog BY <2>1, <3>1 DEF RefreshTypeOK, BacklogOrdered
    <3>3. QED BY <1>3, <3>2
  <2>2. CASE z = a
    <3>1. x \in S BY <1>3, <1>4
    <3>2. QED BY <1>3, <2>2, <3>1
  <2>3. QED BY <1>3, <2>1, <2>2
<1>9. \A p \in backlog' : RanOut(p[1])' /\ RanOut(p[2])'
  <2> SUFFICES ASSUME NEW x, NEW y, <<x, y>> \in backlog' PROVE RanOut(x)' /\ RanOut(y)'
    BY <1>6
  <2>1. x \in S /\ y \in S BY <1>2, <1>3, <1>4
  <2>2. QED BY <1>5, <2>1
<1>10. ASSUME NEW i \in Jobs, NEW s \in Slots, Stale(i, s)' PROVE IsStep(i, "write")'
  <2>1. <<i, s>> # a BY RefresherAssumption DEF Jobs
  <2>2. Stale(i, s) BY <1>3, <1>10, <2>1 DEF Stale, RanOut
  <2>3. QED BY <2>2 DEF RefreshTypeOK, BacklogOrdered, GoStale, IsStep
<1>11. BacklogOrdered' BY <1>6, <1>7, <1>8, <1>9, <1>10 DEF BacklogOrdered
<1>12. QED BY <1>11 DEF RefreshTypeOK, GoStale, IsStep

\* The steps that neither read a cell to recompute it nor write one.
LEMMA SmallStepsInv ==
  ASSUME RefreshTypeOK, NEW i \in Jobs,
         \/ i \in Instances /\ Acquire(i)
         \/ FindDue(i)
         \/ EndJob(i)
         \/ i = Visitor /\ View
  PROVE  RefreshTypeOK'
<1>1. RefreshRows /\ BacklogOrdered BY RefreshParts
<1>2. job[i] \in Job BY <1>1 DEF RefreshRows
<1>3. CASE i \in Instances /\ Acquire(i)
  <2> DEFINE v == [job[i] EXCEPT !.step = "find"]
  <2>1. v \in Job /\ v.step = "find" BY <1>2 DEF Job
  <2>2. job' = [job EXCEPT ![i] = v] BY <1>3 DEF Acquire, Step
  <2> HIDE DEF v
  <2>3. QED BY <1>1, <1>3, <2>1, <2>2, RowsGo DEF Acquire, IsStep
<1>4. CASE FindDue(i)
  <2>1. PICK q \in FirstCells(DueOrder(backlog)) :
          job' = [job EXCEPT ![i].step = "cells", ![i].cells = q]
    BY <1>4 DEF FindDue
  <2> DEFINE v == [job[i] EXCEPT !.step = "cells", !.cells = q]
  <2>2. q \in Seq(Cells) BY <2>1, FirstCellsAreCells
  <2>3. v \in Job /\ v.step = "cells" BY <1>2, <2>2 DEF Job
  <2>4. job' = [job EXCEPT ![i] = v] BY <2>1
  <2> HIDE DEF v
  <2>5. QED BY <1>1, <1>4, <2>3, <2>4, RowsGo DEF FindDue, IsStep, RefreshRows
<1>5. CASE EndJob(i)
  <2>1. lock' \in Instances \cup {Nobody} BY <1>1, <1>5 DEF EndJob, RefreshRows
  <2>2. QED BY <1>1, <1>5, <2>1, RestingIsJob, RowsGo DEF EndJob, IsStep, Rest
<1>6. CASE i = Visitor /\ View
  <2>1. PICK c \in Cells, s \in Slots :
          job' = [job EXCEPT ![Visitor] =
                    [Resting EXCEPT !.step = "cells", !.cells = <<c>>, !.type = s]]
    BY <1>6 DEF View
  <2> DEFINE v == [Resting EXCEPT !.step = "cells", !.cells = <<c>>, !.type = s]
  <2>a. <<c>> \in Seq(Cells) /\ s \in Slots /\ 0 \in 0..(MaxFailures - 1) OBVIOUS
  <2>2. v \in Job /\ v.step = "cells" BY <2>a DEF Job, Resting
  <2>3. job' = [job EXCEPT ![i] = v] BY <1>6, <2>1
  <2> HIDE DEF v
  <2>4. QED BY <1>1, <1>6, <2>2, <2>3, RowsGo DEF View, IsStep, RefreshRows
<1>7. QED BY <1>3, <1>4, <1>5, <1>6

\* The lock goes by itself.
LEMMA ExpireLockInv ==
  ASSUME RefreshTypeOK, ExpireLock PROVE RefreshTypeOK'
<1>1. BacklogOrdered' BY OrderUntouched DEF RefreshTypeOK, ExpireLock, IsStep
<1>2. QED BY <1>1 DEF RefreshTypeOK, ExpireLock, IsStep

\* A row is read: the copies that go back as they were read are as stale as the row.
LEMMA ReadCellInv ==
  ASSUME RefreshTypeOK, NEW i \in Jobs, ReadCell(i) PROVE RefreshTypeOK'
<1> DEFINE c == Head(job[i].cells)
<1>1. RefreshRows /\ BacklogOrdered BY RefreshParts
<1>2. job[i] \in Job /\ job \in [Jobs -> Job] BY <1>1 DEF RefreshRows
<1>3. job[i].cells \in Seq(Cells) /\ job[i].cells # <<>> BY <1>2 DEF Job, ReadCell
<1>4. c \in Cells /\ Tail(job[i].cells) \in Seq(Cells) BY <1>3, TailOfCells
<1>5. CASE CircuitOpen(c)
  <2> DEFINE v == [job[i] EXCEPT !.cells = Tail(@)]
  <2>1. v \in Job /\ v.step = "cells" BY <1>2, <1>4 DEF Job, ReadCell, IsStep
  <2>2. job' = [job EXCEPT ![i] = v] /\ UNCHANGED <<backlog, fails, crashes, threw, lock>>
    BY <1>5 DEF ReadCell
  <2> HIDE DEF v
  <2>3. QED BY <1>1, <2>1, <2>2, RowsGo DEF ReadCell, IsStep, RefreshRows
<1>6. CASE ~ CircuitOpen(c)
  <2> DEFINE v == [job[i] EXCEPT !.step = "write", !.failed = fails[c],
                                 !.redo = {s \in Wanted(i) : Stale(c, s)}]
             from == [a \in Envelopes |->
                        IF a[1] = i /\ a[2] \notin Wanted(i) THEN <<c, a[2]>> ELSE a]
  <2>1. fails[c] \in 0..MaxFailures /\ ~ fails[c] >= MaxFailures
    BY <1>1, <1>4, <1>6 DEF RefreshRows, CircuitOpen
  <2>2. fails[c] \in 0..(MaxFailures - 1) BY <2>1
  <2>3. Wanted(i) \subseteq Slots BY <1>2 DEF Wanted, Job, Slots
  <2>4. v \in Job /\ v.step = "write" /\ v.cells = job[i].cells
    BY <1>2, <2>2, <2>3 DEF Job
  <2>5. job' = [job EXCEPT ![i] = v] BY <1>6 DEF ReadCell
  <2>6. Placed(from) BY <1>6 DEF ReadCell
  <2>7. from \in [Envelopes -> Envelopes \cup {Valid}] BY <1>4 DEF Envelopes
  <2>8. \A a \in Envelopes :
          from[a] = IF a[1] = i /\ a[2] \notin Wanted(i) THEN <<c, a[2]>> ELSE a
    OBVIOUS
  <2> HIDE DEF v, from
  <2>9. /\ job' \in [Jobs -> Job] /\ job'[i] = v
        /\ \A j \in Jobs \ {i} : job'[j] = job[j]
    BY <1>2, <2>4, <2>5, JobGoes
  <2>10. /\ backlog' \subseteq Envelopes \X Envelopes
         /\ \A a, b \in Envelopes : <<a, b>> \in backlog' <=> <<from[a], from[b]>> \in backlog
         /\ \A a, b \in Envelopes : RanOut(a)' /\ RanOut(b)' =>
              <<a, b>> \in backlog' \/ <<b, a>> \in backlog'
         /\ \A p, q \in backlog' : p[2] = q[1] => <<p[1], q[2]>> \in backlog'
         /\ \A p \in backlog' : RanOut(p[1])' /\ RanOut(p[2])'
    BY <1>1, <2>6, <2>7, PlacedInOrder
  <2>11. ASSUME NEW j \in Jobs \ {i}, NEW s \in Slots, Stale(j, s)'
         PROVE  IsStep(j, "write")'
    <3>1. <<j, s>> \in Envelopes /\ from[<<j, s>>] = <<j, s>> BY <2>8 DEF Envelopes
    <3>2. Stale(j, s) BY <2>10, <2>11, <3>1 DEF Stale, RanOut
    <3>3. QED BY <1>1, <2>9, <3>2 DEF BacklogOrdered, IsStep
  <2>12. IsStep(i, "write")' BY <2>4, <2>9 DEF IsStep
  <2>13. BacklogOrdered' BY <2>10, <2>11, <2>12 DEF BacklogOrdered
  <2>14. RefreshRows' BY <1>1, <1>3, <2>4, <2>9 DEF RefreshRows, IsStep, ReadCell
  <2>15. QED BY <2>13, <2>14 DEF RefreshTypeOK, RefreshRows
<1>7. QED BY <1>5, <1>6

\* The job goes on to its next cell.
LEMMA NextCellGoes ==
  ASSUME RefreshTypeOK, NEW i \in Jobs, IsStep(i, "write"), NextCell(i)
  PROVE  /\ job' \in [Jobs -> Job]
         /\ ~ IsStep(i, "write")'
         /\ \A j \in Jobs \ {i} : job'[j] = job[j]
         /\ \A j \in Jobs : IsStep(j, "write")' => job'[j].cells # <<>>
<1> DEFINE v == [job[i] EXCEPT !.step = "cells", !.cells = Tail(@), !.redo = {}, !.failed = 0]
<1>1. job \in [Jobs -> Job] /\ job[i] \in Job /\ job[i].cells # <<>> BY DEF RefreshTypeOK
<1>2. Tail(job[i].cells) \in Seq(Cells) BY <1>1, TailOfCells DEF Job
<1>a. 0 \in 0..(MaxFailures - 1) OBVIOUS
<1>3. v \in Job /\ v.step = "cells" BY <1>1, <1>2, <1>a DEF Job
<1>4. job' = [job EXCEPT ![i] = v] BY DEF NextCell
<1> HIDE DEF v
<1>5. /\ job' \in [Jobs -> Job] /\ job'[i] = v
      /\ \A j \in Jobs \ {i} : job'[j] = job[j]
  BY <1>1, <1>3, <1>4, JobGoes
<1>6. QED BY <1>3, <1>5 DEF IsStep, RefreshTypeOK

\* What is written back: nothing fails more often than the breaker allows, since the
\* circuit was closed when the row was read; and the copies take their places again.
LEMMA WriteCellInv ==
  ASSUME RefreshTypeOK, NEW i \in Jobs, WriteCell(i) PROVE RefreshTypeOK'
<1> DEFINE c == Head(job[i].cells)
           from == [a \in Envelopes |->
                      IF a[1] = i \/ (a[1] = c /\ a[2] \in job[i].redo) THEN Valid
                      ELSE IF a[1] = c /\ Stale(i, a[2]) THEN <<i, a[2]>> ELSE a]
<1>1. /\ job' \in [Jobs -> Job]
      /\ ~ IsStep(i, "write")'
      /\ \A j \in Jobs \ {i} : job'[j] = job[j]
      /\ \A j \in Jobs : IsStep(j, "write")' => job'[j].cells # <<>>
  BY NextCellGoes DEF WriteCell
<1>2. job[i] \in Job /\ job[i].cells # <<>> BY DEF RefreshTypeOK, WriteCell
<1>3. c \in Cells BY <1>2, TailOfCells DEF Job
<1>4. c \notin Jobs BY <1>3, RefresherAssumption DEF Jobs
<1>5. fails' \in [Cells -> 0..MaxFailures]
  <2>1. PICK n \in {0, job[i].failed + 1} : fails' = [fails EXCEPT ![c] = n]
    BY DEF WriteCell
  <2>2. job[i].failed \in 0..(MaxFailures - 1) BY <1>2 DEF Job
  <2>a. job[i].failed + 1 \in 0..MaxFailures BY <2>2
  <2>3. n \in 0..MaxFailures BY <2>1, <2>a
  <2>4. QED BY <2>1, <2>3 DEF RefreshTypeOK
<1>6. Placed(from) BY DEF WriteCell
<1>7. from \in [Envelopes -> Envelopes \cup {Valid}] BY DEF Envelopes
<1>8. \A a \in Envelopes : from[a] =
        IF a[1] = i \/ (a[1] = c /\ a[2] \in job[i].redo) THEN Valid
        ELSE IF a[1] = c /\ Stale(i, a[2]) THEN <<i, a[2]>> ELSE a
  OBVIOUS
<1> HIDE DEF from
<1>9. BacklogOrdered BY DEF RefreshTypeOK
<1>10. /\ backlog' \subseteq Envelopes \X Envelopes
       /\ \A a, b \in Envelopes : <<a, b>> \in backlog' <=> <<from[a], from[b]>> \in backlog
       /\ \A a, b \in Envelopes : RanOut(a)' /\ RanOut(b)' =>
            <<a, b>> \in backlog' \/ <<b, a>> \in backlog'
       /\ \A p, q \in backlog' : p[2] = q[1] => <<p[1], q[2]>> \in backlog'
       /\ \A p \in backlog' : RanOut(p[1])' /\ RanOut(p[2])'
  BY <1>6, <1>7, <1>9, PlacedInOrder
<1>11. ~ (<<Valid, Valid>> \in backlog) BY <1>9 DEF BacklogOrdered, Envelopes, Valid
<1>12. ASSUME NEW j \in Jobs, NEW s \in Slots, Stale(j, s)' PROVE IsStep(j, "write")'
  <2> DEFINE a == <<j, s>>
  <2>1. a \in Envelopes /\ a[1] = j /\ a[1] # c BY <1>4 DEF Envelopes
  <2>2. <<from[a], from[a]>> \in backlog BY <1>10, <1>12, <2>1 DEF Stale, RanOut
  <2> HIDE DEF a
  <2>3. j # i /\ from[a] = a BY <1>8, <1>11, <2>1, <2>2
  <2>4. Stale(j, s) BY <2>2, <2>3 DEF Stale, RanOut, a
  <2>5. QED BY <1>1, <1>9, <2>3, <2>4 DEF BacklogOrdered, IsStep
<1>13. BacklogOrdered' BY <1>10, <1>12 DEF BacklogOrdered
<1>14. QED BY <1>1, <1>5, <1>13 DEF RefreshTypeOK, WriteCell

\* A materialize that throws lets go of its copies and goes on.
LEMMA WriteThrowsInv ==
  ASSUME RefreshTypeOK, NEW i \in Jobs, WriteThrows(i) PROVE RefreshTypeOK'
<1>1. /\ job' \in [Jobs -> Job]
      /\ \A j \in Jobs \ {i} : job'[j] = job[j]
      /\ \A j \in Jobs : IsStep(j, "write")' => job'[j].cells # <<>>
  BY NextCellGoes DEF WriteThrows
<1>2. BacklogOrdered' BY <1>1, ForgetOrder DEF RefreshTypeOK, WriteThrows
<1>3. QED BY <1>1, <1>2 DEF RefreshTypeOK, WriteThrows

\* So does an instance that dies.
LEMMA CrashTickInv ==
  ASSUME RefreshTypeOK, NEW i \in Jobs, CrashTick(i) PROVE RefreshTypeOK'
<1>1. job \in [Jobs -> Job] BY DEF RefreshTypeOK
<1>2. /\ job' \in [Jobs -> Job] /\ job'[i] = Resting
      /\ \A j \in Jobs \ {i} : job'[j] = job[j]
  BY <1>1, RestingIsJob, JobGoes DEF CrashTick, Rest
<1>3. BacklogOrdered' BY <1>2, ForgetOrder DEF RefreshTypeOK, CrashTick
<1>4. \A j \in Jobs : IsStep(j, "write")' => job'[j].cells # <<>>
  BY <1>2, RestingIsJob DEF RefreshTypeOK, IsStep
<1>5. crashes' \in 0..MaxCrashes BY DEF RefreshTypeOK, CrashTick
<1>6. QED BY <1>2, <1>3, <1>4, <1>5 DEF RefreshTypeOK, CrashTick

\* Every step of the refresher keeps its types and the order.
LEMMA RefreshStep ==
  ASSUME RefreshTypeOK, [RefreshNext]_refreshVars PROVE RefreshTypeOK'
<1>1. CASE UNCHANGED refreshVars
  <2>1. BacklogOrdered' BY <1>1, OrderUntouched DEF RefreshTypeOK, refreshVars, IsStep
  <2>2. QED BY <1>1, <2>1 DEF RefreshTypeOK, refreshVars, IsStep
<1>2. CASE GoStale BY <1>2, GoStaleInv
<1>3. CASE View BY <1>3, SmallStepsInv DEF Jobs
<1>4. CASE ExpireLock BY <1>4, ExpireLockInv
<1>5. ASSUME NEW i \in Instances, Acquire(i) \/ CrashTick(i) PROVE RefreshTypeOK'
  BY <1>5, SmallStepsInv, CrashTickInv DEF Jobs
<1>6. ASSUME NEW i \in Jobs, JobStep(i) \/ WriteThrows(i) PROVE RefreshTypeOK'
  BY <1>6, SmallStepsInv, ReadCellInv, WriteCellInv, WriteThrowsInv DEF JobStep
<1>7. QED BY <1>1, <1>2, <1>3, <1>4, <1>5, <1>6 DEF RefreshNext

\* The columns and jobs of the refresher are well formed, the order of staleness is one,
\* and no cell's failures pass the breaker, for any number of instances and cells.
THEOREM RefreshTypes == RefreshSpec => []RefreshTypeOK
BY RefreshStart, RefreshStep, PTL DEF RefreshSpec

-----------------------------------------------------------------------------
(* Together                                                                 *)

\* A behaviour that follows one component leaves the others as they are: each goes by
\* a step of its own, or by none.
LEMMA OneMoves ==
  ASSUME [Next]_vars
  PROVE  [InboundNext]_inboundVars /\ [BotNext]_botVars /\ [RefreshNext]_refreshVars
BY DEF Next, vars

\* In a run that follows one of the three components, the invariants of all hold.
LEMMA BackgroundInv == Spec => [](IInv /\ BotInv /\ RefreshTypeOK)
<1>1. Init => IInv /\ BotInv /\ RefreshTypeOK
  BY InitInv, BotBegins, RefreshStart DEF Init
<1>2. IInv /\ BotInv /\ RefreshTypeOK /\ [Next]_vars => (IInv /\ BotInv /\ RefreshTypeOK)'
  BY OneMoves, NextInv, BotGoesOn, RefreshStep
<1>3. QED BY <1>1, <1>2, PTL DEF Spec

\* Every row, request and queue behind the requests keeps its type, and no cell fails
\* more often than opens its circuit, whatever is redelivered, dies or is late.
THEOREM BackgroundTypes == Spec => []TypeOK
<1>1. IInv => InboundTypeOK
  BY DEF IInv, InboundTypeOK, TurnsTyped, Row, TailBehind, SeenOnce
<1>2. BotInv => BotTypeOK BY DEF BotInv
<1>3. QED BY <1>1, <1>2, BackgroundInv, PTL DEF TypeOK
=============================================================================
