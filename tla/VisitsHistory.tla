---------------------------- MODULE VisitsHistory ----------------------------
(***************************************************************************)
(* Visits with a history variable: which of the requests in flight have     *)
(* been overtaken, that is, had what they were decided from changed by      *)
(* another request since they read it.  `overtaken` is not program state    *)
(* and no handler is guarded by it; every behaviour of Visits is one of     *)
(* this module with the variable left out.                                  *)
(*                                                                          *)
(* The rules below are broken by overlapping requests.  Each names, for     *)
(* every behaviour, the late write that can break it.                       *)
(***************************************************************************)
EXTENDS Visits

VARIABLE overtaken

historyVars == <<vars, overtaken>>

\* The nights (for a visit, the one day) a slot asks for.
NightsOf(s) == {d \in Days : s.from <= d /\ d < s.until}

\* The nights that are blocked or accepted.
Busy == Taken \cup blocks

\* This step changes what the handler of request r has checked: the status of
\* its row or of the rows it is to reject, or a night it found free.
Overtakes(r) ==
  \/ r.op = "reply" /\ status'[r.appt] # status[r.appt]
  \/ r.op = "supersede" /\ \E b \in r.targets : status'[b] # status[b]
  \/ r.op = "request" /\ NightsOf(r.slot) \cap (Busy' \ Busy) # {}

\* The requests that wait through the step, overtaken by it or before.  A
\* handler that goes on to its next step has read again.
Overtake ==
  overtaken' = {w \in Workers : /\ inflight[w] # Null
                                /\ inflight'[w] = inflight[w]
                                /\ w \in overtaken \/ Overtakes(inflight[w])}

HistoryInit == Init /\ overtaken = {}
HistoryNext == Next /\ Overtake
HistorySpec == HistoryInit /\ [][HistoryNext]_historyVars

-----------------------------------------------------------------------------
(* Properties                                                               *)

\* A rejected or cancelled request is reopened, or settled another way, only
\* by a reply or a superseding rejection that read it before it was settled.
ReopeningIsLate ==
  [][\A a \in Appts : status[a] \in {"REJECTED", "CANCELLED"} /\ status'[a] # status[a] =>
       \E w \in overtaken :
         /\ inflight'[w] # inflight[w]
         /\ \/ Running(w, "reply") /\ inflight[w].appt = a
            \/ Running(w, "supersede") /\ a \in inflight[w].targets]_historyVars

\* Instant book answers on the owner's standing instruction.  It takes a night
\* that is blocked or already accepted for somebody else only when that very
\* night was blocked or accepted between its look at the calendar and its
\* insert: no rounding of nights, blocks and check-out days does it.
DoubleBookingIsLate ==
  [][\A a \in Appts :
       status[a] = "none" /\ status'[a] = "ACCEPTED" /\ Nights(a)' \cap Busy # {} =>
         \E w \in overtaken : /\ Running(w, "request")
                              /\ inflight'[w] # inflight[w]
                              /\ NightsOf(inflight[w].slot) = Nights(a)']_historyVars
=============================================================================
