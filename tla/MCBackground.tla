----------------------------- MODULE MCBackground -----------------------------
(* Instances for TLC of what runs behind the requests: the chain of a WhatsApp  *)
(* number, the bot and the release of held listings, the refresher of the       *)
(* spatial cells.  They share no state, so a behaviour follows one (`focus`)    *)
(* while the others stay as they start.                                        *)
EXTENDS Inbound, ListingBot, Refresher, TLC

CONSTANT Foci

VARIABLE focus

Init ==
  /\ focus \in Foci
  /\ InboundInit /\ BotInit /\ InflightInit /\ RefreshInit
  /\ focus # "bot" => profile = "stranger"

\* Rows nobody has used yet are alike, and so are instances at rest: the first of
\* them, by number, is taken.  (In place of SYMMETRY, unsound for liveness.)
FirstOfThose ==
  /\ \A c \in Convs : conv[c].status = "none" /\ conv'[c].status # "none" =>
       \A d \in 1..(c - 1) : conv[d].status # "none"
  /\ \A i \in Instances : IsStep(i, "rest") /\ job'[i].step # "rest" =>
       \A j \in 1..(i - 1) : ~ IsStep(j, "rest")

\* Bound: the refresher is followed until a materialize throws, which discharges
\* StaleIsRefreshed.
Next ==
  /\ UNCHANGED focus
  /\ \/ focus = "inbound" /\ InboundNext /\ UNCHANGED <<botVars, refreshVars>>
     \/ focus = "bot" /\ BotNext /\ UNCHANGED <<inboundVars, refreshVars>>
     \/ focus = "spatial" /\ ~ threw /\ RefreshNext /\ UNCHANGED <<inboundVars, botVars>>
  /\ FirstOfThose

vars == <<focus, inboundVars, botVars, refreshVars>>

(* The fairness of each component, for the behaviours that follow it.           *)
Fairness ==
  /\ WF_inboundVars(focus = "inbound" /\ TurnStep)
  /\ WF_<<botRows, handlerVars>>(focus = "bot" /\ ReleaseStep)
  /\ WF_refreshVars(focus = "spatial" /\ Ticks)
  /\ WF_refreshVars(focus = "spatial" /\ ExpireLock)
  /\ \A i \in Jobs : WF_refreshVars(focus = "spatial" /\ JobStep(i))

Spec == Init /\ [][Next]_vars /\ Fairness

TypeOK == InboundTypeOK /\ BotTypeOK /\ RefreshTypeOK
=============================================================================
