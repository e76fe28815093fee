------------------------------ MODULE TenancyBook ------------------------------
(***************************************************************************)
(* What the tenancy records promise the two people they name, without       *)
(* requests, listing statuses or moderation: "somebody lived here, from when *)
(* to when".  A page of the book is opened once, names the same home and     *)
(* tenant for good, ends once and never reopens.  A lease opens its page      *)
(* agreed, in the step in which it comes into force, and terminating it       *)
(* ends the page in one step.  The tenant can strike out only what an owner   *)
(* asserted; anything else disappears with the home or the account only.      *)
(***************************************************************************)
CONSTANTS
  Properties, Users,
  Leases,   \* the pages opened by a signature, known by their lease
  Marks,    \* the pages opened by an owner's word
  Null

VARIABLES
  book,     \* the pages
  inForce   \* the leases that run

bookVars == <<book, inForce>>

Pages == Leases \cup Marks

Page(s, p, u, yes) == [state |-> s, home |-> p, tenant |-> u, agreed |-> yes]

Blank  == Page("blank", Null, Null, FALSE)
Struck == Page("struck", Null, Null, FALSE)

Written(t) == book[t].state \in {"open", "past"}

Init ==
  /\ book = [t \in Pages |-> Blank]
  /\ inForce = {}

Sign(l, p, u) ==
  /\ book[l] = Blank
  /\ book' = [book EXCEPT ![l] = Page("open", p, u, TRUE)]
  /\ inForce' = inForce \cup {l}

Mark(m, p, u) ==
  /\ book[m] = Blank
  /\ book' = [book EXCEPT ![m] = Page("open", p, u, FALSE)]
  /\ UNCHANGED inForce

\* The tenant agrees, while it runs or afterwards.
Confirm(t) ==
  /\ Written(t)
  /\ book' = [book EXCEPT ![t] = Page(@.state, @.home, @.tenant, TRUE)]
  /\ UNCHANGED inForce

End(S) ==
  book' = [t \in Pages |-> IF t \in S /\ book[t].state = "open"
                             THEN [book[t] EXCEPT !.state = "past"] ELSE book[t]]

\* The home is vacated: every page that is open on it ends.
Vacate(p) == End({t \in Pages : book[t].home = p}) /\ UNCHANGED inForce

Terminate(l) ==
  /\ Written(l)
  /\ End({l})
  /\ inForce' = inForce \ {l}

\* A refusal that crosses the signature takes the lease out of force, not the page.
Refuse(l) == inForce' = inForce \ {l} /\ UNCHANGED book

\* The tenant says it is not so.
Decline(m) ==
  /\ Written(m)
  /\ book' = [book EXCEPT ![m] = Struck]
  /\ UNCHANGED inForce

Strike(S) ==
  /\ book' = [t \in Pages |-> IF t \in S /\ Written(t) THEN Struck ELSE book[t]]
  /\ inForce' = inForce \ S

\* A listing is deleted; an account, with the listings it owns.
Delete(p) == Strike({t \in Pages : book[t].home = p})
Leave(u, owned) == Strike({t \in Pages : book[t].tenant = u \/ book[t].home \in owned})

Next ==
  \/ \E p \in Properties, u \in Users :
       (\E l \in Leases : Sign(l, p, u)) \/ (\E m \in Marks : Mark(m, p, u))
  \/ \E t \in Pages : Confirm(t)
  \/ \E p \in Properties : Vacate(p) \/ Delete(p)
  \/ \E l \in Leases : Terminate(l) \/ Refuse(l)
  \/ \E m \in Marks : Decline(m)
  \/ \E u \in Users, owned \in SUBSET Properties : Leave(u, owned)

Spec == Init /\ [][Next]_bookVars
=============================================================================
