------------------------------ MODULE Refresher ------------------------------
(***************************************************************************)
(* Keeping the spatial cells fresh.  A cell stores one answer per slot: one  *)
(* for the place, and one per property type for the modules that vary by     *)
(* type.  Every few minutes each API instance tries to take a Redis lock;     *)
(* the one that has it recomputes the stalest cells.  A page view recomputes  *)
(* the slots of its own type, without the lock.                              *)
(*                                                                          *)
(* Staleness is an order: `backlog` says of two stale answers which ran out    *)
(* first.  Those are the answers in the table, and the copies in memory that   *)
(* will be written back as they were read.  A cell's staleAfter is that of its *)
(* stalest slot.                                                            *)
(***************************************************************************)
EXTENDS Naturals, Sequences

CONSTANTS
  Instances,     \* API instances with the interval or the queue running
  Visitor,       \* a page view, at most one at a time
  Cells,         \* materialised cells
  Types,         \* property types with a slot of their own
  CellsPerTick,  \* CELLS_PER_TICK
  MaxFailures,   \* MAX_FAILURES
  MaxCrashes,    \* bound: instances that die in the middle of a tick
  Nobody         \* no lock holder

ASSUME RefresherAssumption ==
  /\ CellsPerTick \in Nat \ {0} /\ MaxFailures \in Nat \ {0} /\ MaxCrashes \in Nat
  /\ Cells \cap (Instances \cup {Visitor}) = {}

VARIABLES
  lock,      \* the instance whose SET NX succeeded last, or Nobody
  job,       \* per instance and for the visitor: the cells to do, and of the one it
             \* is at the failCount it read and the slots to recompute
  backlog,   \* pairs of stale answers, the first of them stale as long as the other
             \* or longer; <<cell, slot>> is in the table, <<job, slot>> a copy of it
  fails,     \* failCount by cell
  crashes,   \* instances that have died so far
  threw      \* has a materialize thrown? (history)

refreshVars == <<lock, job, backlog, fails, crashes, threw>>

-----------------------------------------------------------------------------
Place == "place"
Slots == Types \cup {Place}
Jobs == Instances \cup {Visitor}

\* Nothing under way; and what a tick does: find the due cells, then one by one
\* read a cell and write it back.
Resting == [step |-> "rest", cells |-> <<>>, type |-> Place, redo |-> {}, failed |-> 0]

Envelopes == (Cells \cup Jobs) \X Slots
Valid == <<>>

RefreshInit ==
  /\ lock = Nobody
  /\ job = [i \in Jobs |-> Resting]
  /\ backlog = {}
  /\ fails = [c \in Cells |-> 0]
  /\ crashes = 0
  /\ threw = FALSE

RanOut(a) == <<a, a>> \in backlog
Stale(h, s) == RanOut(<<h, s>>)

\* Envelopes take the places of others in the order: a that of from[a], unless it is Valid.
Placed(from) ==
  LET At(b) == {a \in Envelopes : from[a] = b} IN
  backlog' = UNION {At(p[1]) \X At(p[2]) : p \in backlog}

\* A job lets go of its copies.
Forget(i) == Placed([a \in Envelopes |-> IF a[1] = i THEN Valid ELSE a])

IsStep(i, s) == job[i].step = s
Step(i, s) == job' = [job EXCEPT ![i].step = s]
Rest(i) == job' = [job EXCEPT ![i] = Resting]

\* Mutant: the breaker opens one failure late.
OpensLate(c) == fails[c] > MaxFailures

\* The breaker: MAX_FAILURES runs in which nothing could be computed.
CircuitOpen(c) == fails[c] >= MaxFailures

-----------------------------------------------------------------------------
\* Time passes: the TTL of an answer in the table runs out.
GoStale ==
  /\ \E a \in Cells \X Slots :
       /\ ~ RanOut(a)
       /\ backlog' = backlog \cup ({b \in Envelopes : RanOut(b) \/ b = a} \X {a})
  /\ UNCHANGED <<lock, job, fails, crashes, threw>>

\* acquireLock: SET NX EX.
Acquire(i) ==
  /\ IsStep(i, "rest")
  /\ lock = Nobody
  /\ lock' = i
  /\ Step(i, "find")
  /\ UNCHANGED <<backlog, fails, crashes, threw>>

\* Mutant: the cells that became stale last come first.
NewestFirst(order) == {p \in Envelopes \X Envelopes : <<p[2], p[1]>> \in order}

\* ORDER BY staleAfter ASC.
DueOrder(order) == order

\* The due cells, circuit-broken ones left out, by the stalest slot of each in the
\* order given, and no more than fit in a tick.
FirstCells(order) ==
  LET due == {c \in Cells : ~ CircuitOpen(c) /\ \E s \in Slots : Stale(c, s)}
      Remaining(q, r) == due \ {q[k] : k \in 1..(r - 1)}
      Stalest(c, D) == \E s \in Slots : \A d \in D, t \in Slots :
        Stale(d, t) => <<<<c, s>>, <<d, t>>>> \in order IN
  {q \in UNION {[1..n -> due] : n \in 0..CellsPerTick} :
     /\ \A r \in 1..Len(q) :
          q[r] \in Remaining(q, r) /\ Stalest(q[r], Remaining(q, r))
     /\ Len(q) < CellsPerTick => Remaining(q, Len(q) + 1) = {}}

FindDue(i) ==
  /\ IsStep(i, "find")
  /\ \E q \in FirstCells(DueOrder(backlog)) :
       job' = [job EXCEPT ![i].step = "cells", ![i].cells = q]
  /\ UNCHANGED <<lock, backlog, fails, crashes, threw>>

\* getContext: a page view, of any type, of a cell whose staleAfter has passed: one of
\* its slots is stale, if not one the view wants.
View ==
  /\ IsStep(Visitor, "rest")
  /\ \E c \in Cells, s, t \in Slots :
       /\ Stale(c, t)
       /\ job' = [job EXCEPT ![Visitor] =
                    [Resting EXCEPT !.step = "cells", !.cells = <<c>>, !.type = s]]
  /\ UNCHANGED <<lock, backlog, fails, crashes, threw>>

\* modulesFor: the place, and the slot of the type the caller gave; a tick gives none.
Wanted(i) == {Place, job[i].type}

\* materialize reads the row: what it wants and is stale will be computed anew, the rest
\* it keeps a copy of.  An open circuit ends it.
ReadCell(i) ==
  LET c == Head(job[i].cells) IN
  /\ IsStep(i, "cells") /\ job[i].cells # <<>>
  /\ IF CircuitOpen(c)
       THEN /\ job' = [job EXCEPT ![i].cells = Tail(@)]
            /\ UNCHANGED backlog
       ELSE /\ job' = [job EXCEPT ![i].step = "write", ![i].failed = fails[c],
                                  ![i].redo = {s \in Wanted(i) : Stale(c, s)}]
            /\ Placed([a \in Envelopes |->
                        IF a[1] = i /\ a[2] \notin Wanted(i) THEN <<c, a[2]>> ELSE a])
  /\ UNCHANGED <<lock, fails, crashes, threw>>

\* The cell is done with, whatever came of it.
NextCell(i) ==
  job' = [job EXCEPT ![i].step = "cells", ![i].cells = Tail(@), ![i].redo = {},
                        ![i].failed = 0]

\* ... and upserts it: slots that were not wanted go back as stale as they were when
\* read.  (One that ran out and was redone after it was read is taken to run out
\* again later.)  "Everything unavailable" counts a failure more than was read,
\* anything else none.
WriteCell(i) ==
  LET c == Head(job[i].cells) IN
  /\ IsStep(i, "write")
  /\ NextCell(i)
  /\ Placed([a \in Envelopes |->
              IF a[1] = i \/ (a[1] = c /\ a[2] \in job[i].redo) THEN Valid
              ELSE IF a[1] = c /\ Stale(i, a[2]) THEN <<i, a[2]>> ELSE a])
  /\ \E n \in {0, job[i].failed + 1} : fails' = [fails EXCEPT ![c] = n]
  /\ UNCHANGED <<lock, crashes, threw>>

\* materialize throws, and catches: nothing is written, and no failure counted.
WriteThrows(i) ==
  /\ IsStep(i, "write")
  /\ threw' = TRUE
  /\ NextCell(i)
  /\ Forget(i)
  /\ UNCHANGED <<lock, fails, crashes>>

\* Nothing (more) to do.  The tick deletes the lock, whoever holds it by now.
EndJob(i) ==
  /\ IsStep(i, "cells") /\ job[i].cells = <<>>
  /\ Rest(i)
  /\ lock' = IF i = Visitor THEN lock ELSE Nobody
  /\ UNCHANGED <<backlog, fails, crashes, threw>>

\* LOCK_TTL_S: the lock goes by itself, under a slow tick or after a crash.
ExpireLock ==
  /\ lock # Nobody
  /\ lock' = Nobody
  /\ UNCHANGED <<job, backlog, fails, crashes, threw>>

\* The instance dies and is started again; its lock stays behind.
CrashTick(i) ==
  /\ crashes < MaxCrashes
  /\ ~ IsStep(i, "rest")
  /\ crashes' = crashes + 1
  /\ Rest(i)
  /\ Forget(i)
  /\ UNCHANGED <<lock, fails, threw>>

JobStep(i) == FindDue(i) \/ ReadCell(i) \/ WriteCell(i) \/ EndJob(i)

RefreshNext ==
  \/ GoStale \/ View \/ ExpireLock
  \/ \E i \in Instances : Acquire(i) \/ CrashTick(i)
  \/ \E i \in Jobs : JobStep(i) \/ WriteThrows(i)

\* The interval fires again and again, and a tick goes on; Redis expires keys.
Ticks == \E i \in Instances : Acquire(i)

RefreshFairness ==
  /\ WF_refreshVars(Ticks) /\ WF_refreshVars(ExpireLock)
  /\ \A i \in Jobs : WF_refreshVars(JobStep(i))

RefreshSpec == RefreshInit /\ [][RefreshNext]_refreshVars /\ RefreshFairness

-----------------------------------------------------------------------------
Job == [step : {"rest", "find", "cells", "write"}, cells : Seq(Cells), type : Slots,
        redo : SUBSET Slots, failed : 0..(MaxFailures - 1)]

\* Any two stale answers can be compared, and only jobs about to write hold copies.
BacklogOrdered ==
  /\ backlog \subseteq Envelopes \X Envelopes
  /\ \A a, b \in Envelopes : RanOut(a) /\ RanOut(b) =>
       <<a, b>> \in backlog \/ <<b, a>> \in backlog
  /\ \A p, q \in backlog : p[2] = q[1] => <<p[1], q[2]>> \in backlog
  /\ \A p \in backlog : RanOut(p[1]) /\ RanOut(p[2])
  /\ \A i \in Jobs, s \in Slots : Stale(i, s) => IsStep(i, "write")

\* Columns and jobs are well formed.  No cell fails more often than opens its circuit,
\* however ticks and page views overlap and write back what they read.
RefreshTypeOK ==
  /\ lock \in Instances \cup {Nobody}
  /\ job \in [Jobs -> Job]
  /\ \A i \in Jobs : IsStep(i, "write") => job[i].cells # <<>>
  /\ BacklogOrdered
  /\ fails \in [Cells -> 0..MaxFailures]
  /\ crashes \in 0..MaxCrashes
  /\ threw \in BOOLEAN

\* "A permanently broken cell can't monopolise every tick", "a backlog drains in the
\* order that matters rather than starving the cells that have been wrong longest": a
\* stale cell is refreshed, or its circuit opens, through crashed instances, expired
\* locks, overlapping ticks and cells that keep failing.  Not so once a materialize
\* has thrown: that counts no failure.
StaleIsRefreshed ==
  \A c \in Cells : Stale(c, Place) ~> ~ Stale(c, Place) \/ CircuitOpen(c) \/ threw
=============================================================================
