----------------------------- MODULE CaseLifecycle -----------------------------
(***************************************************************************)
(* What the support desk promises about a case, without its requests,       *)
(* messages or people.  A case moves along lifecycle.js's table, and the    *)
(* instants a service level is computed from are written once.  The one     *)
(* exception the handlers leave open is explicit: a writer who was late,    *)
(* that is, whose reading another commit had overtaken, may do anything but *)
(* return the case to OPEN or leave a finished case without its stamps.     *)
(***************************************************************************)
EXTENDS CaseRules, Naturals

CONSTANT Cases

VARIABLES
  status,      \* "none" before the case exists
  resolvedAt,  \* 0 is null, 1 the first instant written, 2 a later one
  closed,      \* closedAt is set
  late         \* the writers whose reading has been overtaken

caseVars == <<status, resolvedAt, closed>>

Init ==
  /\ status = [c \in Cases |-> "none"]
  /\ resolvedAt = [c \in Cases |-> 0]
  /\ closed = [c \in Cases |-> FALSE]

Open(c) ==
  /\ status[c] = "none"
  /\ status' = [status EXCEPT ![c] = "OPEN"]
  /\ UNCHANGED <<resolvedAt, closed>>

\* A finished case has resolvedAt, a closed one closedAt too.
Stamped(to, resolved, isClosed) ==
  /\ to \in Finished => resolved # 0
  /\ to = "CLOSED" => isClosed

\* Along the table; resolvedAt is written once and closedAt never cleared.
Move(c) ==
  /\ status[c] # "none"
  /\ \E to \in Onward :
       /\ CanTransition(status[c], to)
       /\ status' = [status EXCEPT ![c] = to]
       /\ closed' = [closed EXCEPT ![c] = closed[c] \/ to = "CLOSED"]
       /\ \E at \in 0..2 :
            /\ Stamped(to, at, closed[c] \/ to = "CLOSED")
            /\ resolvedAt[c] # 0 => at = resolvedAt[c]
            /\ resolvedAt' = [resolvedAt EXCEPT ![c] = at]

\* A late writer finishes: off the table, and resolvedAt perhaps once more.
MoveLate(c) ==
  /\ status[c] # "none"
  /\ late \ late' # {}
  /\ \E to \in Onward, at \in 0..2, isClosed \in BOOLEAN :
       /\ Stamped(to, at, isClosed)
       /\ resolvedAt[c] <= at
       /\ closed[c] => isClosed
       /\ status' = [status EXCEPT ![c] = to]
       /\ resolvedAt' = [resolvedAt EXCEPT ![c] = at]
       /\ closed' = [closed EXCEPT ![c] = isClosed]

Next == \E c \in Cases : Open(c) \/ Move(c) \/ MoveLate(c)

Spec == Init /\ [][Next]_caseVars
=============================================================================
