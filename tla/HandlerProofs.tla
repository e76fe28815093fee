----------------------------- MODULE HandlerProofs -----------------------------
(* What the steps of modules Handlers and Settling do to the requests in      *)
(* flight, for the proofs of the components built on them.                    *)
EXTENDS Settling, TLAPS

\* One request begins or goes on, and the others keep what they have read.
LEMMA GoesOn ==
  ASSUME InflightOK, NEW w \in Workers, NEW r,
         Begin(w, r) \/ Reread(w, r) \/ CommitThen(w, r) \/ CommitFirst(w, r)
  PROVE  /\ InflightOK'
         /\ \A v \in Workers : inflight'[v] = IF v = w THEN r ELSE inflight[v]
         /\ w \notin overtaken'
         /\ overtaken \ {w} \subseteq overtaken'
BY DEF InflightOK, Begin, Reread, CommitThen, CommitFirst, ReadersOf, Idle

\* One request ends.
LEMMA Ends ==
  ASSUME InflightOK, NEW w \in Workers, Commit(w) \/ Drop(w)
  PROVE  /\ InflightOK'
         /\ \A v \in Workers : inflight'[v] = IF v = w THEN Null ELSE inflight[v]
         /\ w \notin overtaken'
         /\ overtaken \ {w} \subseteq overtaken'
BY DEF InflightOK, Commit, Drop, ReadersOf, Idle

\* No request moves, and those that had read row k are overtaken.
LEMMA AtOnce ==
  ASSUME InflightOK, NEW k, CommitAtOnce(k)
  PROVE  /\ InflightOK'
         /\ inflight' = inflight
         /\ overtaken \subseteq overtaken'
         /\ \A v \in Workers : ~ Idle(v) /\ inflight[v].on = k => v \in overtaken'
BY DEF InflightOK, CommitAtOnce, Idle

\* A commit on row k overtakes every other request that has read it.
LEMMA CommitOvertakes ==
  ASSUME InflightOK, NEW w \in Workers, NEW r,
         Commit(w) \/ CommitThen(w, r),
         NEW v \in Workers \ {w}, ~ Idle(v), inflight[v].on = inflight[w].on
  PROVE  v \in overtaken'
BY DEF Commit, CommitThen, ReadersOf, Idle

\* Nobody has read anything yet.
LEMMA NoneInflight ==
  InflightInit => InflightOK /\ (\A w \in Workers : inflight[w] = Null) /\ overtaken = {}
BY DEF InflightInit, InflightOK

-----------------------------------------------------------------------------
(* Handlers one after another                                               *)

\* A step that is not overlapping finds every other worker idle.
LEMMA Alone ==
  ASSUME NEW w \in Workers, Noted, ~ overlapped', overlapped \in BOOLEAN,
         \A v \in Workers : v # w => inflight'[v] = inflight[v]
  PROVE  /\ ~ overlapped
         /\ \A v \in Workers : v # w => inflight[v] = Null /\ inflight'[v] = Null
BY DEF Noted, Bystander, Idle

\* Worker w begins or goes on with request r, or ends and is left with Null.
Takes(w, r) ==
  \/ Begin(w, r) \/ Reread(w, r) \/ CommitThen(w, r) \/ CommitFirst(w, r)
  \/ r = Null /\ (Commit(w) \/ Drop(w))

\* A worker whose handler ends is left with nothing.
LEMMA EndTakesNull ==
  ASSUME NEW w \in Workers, Commit(w) \/ Drop(w)
  PROVE  Takes(w, Null)
BY DEF Takes

\* The others wait.
LEMMA StepBy ==
  ASSUME SettlingOK, NEW w \in Workers, NEW r, Takes(w, r), Noted, died' \in BOOLEAN
  PROVE  SettlingOK' /\ \A v \in Workers : inflight'[v] = IF v = w THEN r ELSE inflight[v]
<1>1. InflightOK' /\ \A v \in Workers : inflight'[v] = IF v = w THEN r ELSE inflight[v]
  BY GoesOn, Ends DEF SettlingOK, Takes
<1>2. overlapped' \in BOOLEAN BY DEF Noted, Bystander, SettlingOK
<1>3. QED BY <1>1, <1>2 DEF SettlingOK

\* A handler that is one statement.
LEMMA StepAtOnce ==
  ASSUME SettlingOK, NEW k, CommitAtOnce(k), Noted, died' \in BOOLEAN
  PROVE  SettlingOK' /\ inflight' = inflight
<1>1. InflightOK' /\ inflight' = inflight BY AtOnce DEF SettlingOK
<1>2. overlapped' \in BOOLEAN BY DEF Noted, Bystander, SettlingOK
<1>3. QED BY <1>1, <1>2 DEF SettlingOK
\* While nothing overlaps, the worker that takes a step is the only one at work, and
\* nothing has overtaken it.
LEMMA SoloStep ==
  ASSUME SettlingOK, NEW w \in Workers, NEW r, Takes(w, r), Noted, ~ overlapped'
  PROVE  /\ ~ overlapped /\ overtaken' = {}
         /\ \A v \in Workers : v # w => inflight[v] = Null /\ inflight'[v] = Null
<1>1. /\ InflightOK' /\ w \notin overtaken'
      /\ \A v \in Workers : inflight'[v] = IF v = w THEN r ELSE inflight[v]
  BY GoesOn, Ends DEF SettlingOK, Takes
<1>2. /\ ~ overlapped
      /\ \A v \in Workers : v # w => inflight[v] = Null /\ inflight'[v] = Null
  BY <1>1, Alone DEF SettlingOK
<1>3. overtaken' = {} BY <1>1, <1>2 DEF InflightOK, Idle
<1>4. QED BY <1>2, <1>3
=============================================================================
