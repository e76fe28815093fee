------------------------------- MODULE Handlers -------------------------------
(***************************************************************************)
(* Requests in flight, for the components whose rows are independent of     *)
(* each other.                                                              *)
(*                                                                          *)
(* A backend handler reads rows, checks them and, after one or more awaits, *)
(* writes by primary key.  Nothing is locked, so another request may commit *)
(* in between: the write then rests on a row that is no longer as it was    *)
(* read.  `overtaken` remembers to which requests that has happened.  It is *)
(* not program state: with it a property can say that a rule is only ever   *)
(* broken through that window (FreshStep), next to the properties that hold *)
(* whatever overlaps.                                                       *)
(*                                                                          *)
(* A request is a record with at least `op`, the step it awaits, and `on`,  *)
(* the row its checks were made against.                                    *)
(***************************************************************************)
EXTENDS Naturals, FiniteSets

CONSTANTS
  Workers,  \* requests the server can have in flight at once
  Null      \* SQL null, and "no request" for a worker

VARIABLES
  inflight,   \* per worker: the request between its read and its write
  overtaken   \* the workers whose request was overtaken since it read

handlerVars == <<inflight, overtaken>>

Idle(w) == inflight[w] = Null
Running(w, o) == inflight[w] # Null /\ inflight[w].op = o

InflightInit == inflight = [w \in Workers |-> Null] /\ overtaken = {}

\* The part of the type invariant every component shares.
InflightOK ==
  /\ DOMAIN inflight = Workers
  /\ overtaken \subseteq {w \in Workers : ~ Idle(w)}

\* The other requests that have read row `k`.
ReadersOf(k, w) == {v \in Workers \ {w} : ~ Idle(v) /\ inflight[v].on = k}

\* The reads passed their checks; the handler now awaits its next step.
Begin(w, r) ==
  /\ Idle(w)
  /\ inflight' = [inflight EXCEPT ![w] = r]
  /\ UNCHANGED overtaken

\* The handler goes on to its next step, having read again.
Reread(w, r) ==
  /\ inflight' = [inflight EXCEPT ![w] = r]
  /\ overtaken' = overtaken \ {w}

\* The handler's statement or $transaction commits, and it answers.
Commit(w) ==
  /\ overtaken' = (overtaken \cup ReadersOf(inflight[w].on, w)) \ {w}
  /\ inflight' = [inflight EXCEPT ![w] = Null]

\* The same, but the handler has work left.
CommitThen(w, r) ==
  /\ inflight' = [inflight EXCEPT ![w] = r]
  /\ overtaken' = (overtaken \cup ReadersOf(inflight[w].on, w)) \ {w}

\* A handler whose first step is a write, with work left after it.
CommitFirst(w, r) ==
  /\ Idle(w)
  /\ inflight' = [inflight EXCEPT ![w] = r]
  /\ overtaken' = overtaken \cup ReadersOf(r.on, w)

\* A handler that is one conditional statement on row `k`.
CommitAtOnce(k) ==
  /\ overtaken' = overtaken \cup {v \in Workers : ~ Idle(v) /\ inflight[v].on = k}
  /\ UNCHANGED inflight

\* The process dies before the next step, or the database refuses it: a
\* statement or a $transaction leaves no trace.
Drop(w) ==
  /\ ~ Idle(w)
  /\ inflight' = [inflight EXCEPT ![w] = Null]
  /\ overtaken' = overtaken \ {w}

\* No overtaken request takes part in this step.
FreshStep == \A w \in overtaken : inflight'[w] = inflight[w]
=============================================================================
