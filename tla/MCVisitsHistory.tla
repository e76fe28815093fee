--------------------------- MODULE MCVisitsHistory ---------------------------
(* Instances of VisitsHistory for TLC: those of MCVisits.                    *)
EXTENDS MCVisits, VisitsHistory

\* Bound of the run over stays: of the requests in flight, at most one is
\* anything but a booking.
OneAnswer ==
  Cardinality({w \in Workers : inflight[w] # Null /\ ~Running(w, "request")}) <= 1

BookingsSpec == HistoryInit /\ [][HistoryNext /\ OneAnswer']_historyVars
=============================================================================
