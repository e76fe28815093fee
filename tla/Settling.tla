------------------------------- MODULE Settling -------------------------------
(***************************************************************************)
(* Handlers whose effect is only right once the last of them has finished:  *)
(* they write, and then recompute or announce something from what they find *)
(* written.  Two things can spoil that, and both are remembered here: a     *)
(* handler that dies half-way, and one that runs while another one does.    *)
(***************************************************************************)
EXTENDS Handlers

VARIABLES
  died,        \* some request ended before its last step
  overlapped   \* some request took a step while another was under way

settlingVars == <<handlerVars, died, overlapped>>

SettlingInit == InflightInit /\ died = FALSE /\ overlapped = FALSE

SettlingOK == InflightOK /\ died \in BOOLEAN /\ overlapped \in BOOLEAN

\* A request under way that this step is not a step of.
Bystander == \E w \in Workers : ~ Idle(w) /\ inflight'[w] = inflight[w]

\* Conjoined to every step of a component.
Noted == overlapped' = (overlapped \/ Bystander)

\* The process dies, or a best-effort call fails and its error is swallowed.
Die(w) == Drop(w) /\ died' = TRUE

\* Every request has ended.
Quiet == \A w \in Workers : Idle(w)

\* Every request ended, none died, and they came one after another.
Settled == Quiet /\ ~ died /\ ~ overlapped
=============================================================================
