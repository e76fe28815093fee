------------------------------- MODULE Reports -------------------------------
(***************************************************************************)
(* Reports about one listing: the risk row and the trust badge recomputed   *)
(* after each, the suspension that needs corroboration, and the moderator's *)
(* one verdict per report.                                                  *)
(***************************************************************************)
EXTENDS Settling

CONSTANTS
  ReportIds,       \* PropertyReport ids
  Reporters,       \* accounts that report
  Severities,      \* bound: the severities reports are filed with
  OwnershipLevel   \* verificationLevel of the listing: 0, 1, 2 or 4

ASSUME ReportsAssumption ==
  /\ Null \notin Reporters \cup ReportIds
  /\ IsFiniteSet(ReportIds)
  /\ Severities \subseteq {"LOW", "MEDIUM", "HIGH", "CRITICAL"}
  /\ OwnershipLevel \in Nat

VARIABLES
  report,      \* the rows: reporterId, severity and status
  ruled,       \* the reports that have a ModerationAction row
  risk,        \* the reports the PropertyRiskScore row was computed from
  badge,       \* the risk level the TrustScore's badge was computed from
  suspended    \* who suspended the listing

reportRows == <<report, ruled, risk, badge, suspended>>
reportVars == <<reportRows, settlingVars>>

-----------------------------------------------------------------------------
Unfiled == [by |-> Null, severity |-> "LOW", status |-> "none"]
Severe == {"HIGH", "CRITICAL"}
RiskLevel == {"LOW", "MEDIUM", "HIGH", "SUSPICIOUS"}

ReportOps == {"assess", "rate", "score", "stamp", "weigh", "suspend", "suspendByAdmin"}

\* weighs: a severe submission, which goes on to consider a suspension.
\* seen, level: what was read.
ReportRequest == [op : ReportOps, on : ReportIds \cup {Null}, weighs : BOOLEAN,
                  seen : SUBSET ReportIds, level : RiskLevel]

ReportReq(o, r, weighs) ==
  [op |-> o, on |-> r, weighs |-> weighs, seen |-> {}, level |-> "LOW"]

ASSUME ReportRequestAssumption == Null \notin ReportRequest

ReportsInit ==
  /\ report = [r \in ReportIds |-> Unfiled]
  /\ ruled = {}
  /\ risk = {}
  /\ badge = "LOW"
  /\ suspended = "no"
  /\ SettlingInit

OpenReports == {r \in ReportIds : report[r].status \notin {"none", "DISMISSED"}}

-----------------------------------------------------------------------------
(* The risk score                                                           *)

OfSeverity(rs, s) == Cardinality({r \in rs : report[r].severity = s})

Score(rs) ==
  30 * OfSeverity(rs, "CRITICAL") + 15 * OfSeverity(rs, "HIGH")
    + 8 * OfSeverity(rs, "MEDIUM") + 3 * OfSeverity(rs, "LOW")

\* The level of the score less ten per verificationLevel; Math.max(0, ..) does
\* not show in the level.  Fraud signals are left out.
LevelOf(rs) ==
  LET over(n) == Score(rs) >= n + 10 * OwnershipLevel IN
  CASE over(80) -> "SUSPICIOUS"
    [] over(50) /\ ~ over(80) -> "HIGH"
    [] over(20) /\ ~ over(50) -> "MEDIUM"
    [] OTHER -> "LOW"

\* recalculateRiskScore reads, upserts, and recalculates the trust score, which
\* reads the risk row again and upserts.
ReadRisk(w) ==
  /\ Running(w, "assess")
  /\ Reread(w, [inflight[w] EXCEPT !.op = "rate", !.seen = OpenReports])
  /\ UNCHANGED <<reportRows, died>>

WriteRisk(w) ==
  /\ Running(w, "rate")
  /\ risk' = inflight[w].seen
  /\ CommitThen(w, [inflight[w] EXCEPT !.op = "score"])
  /\ UNCHANGED <<report, ruled, badge, suspended, died>>

\* The trust page and an approved review recalculate the trust score alone.
AskForBadge(w) ==
  /\ Begin(w, ReportReq("score", Null, FALSE))
  /\ UNCHANGED <<reportRows, died>>

ReadBadge(w) ==
  /\ Running(w, "score")
  /\ Reread(w, [inflight[w] EXCEPT !.op = "stamp", !.level = LevelOf(risk)])
  /\ UNCHANGED <<reportRows, died>>

WriteBadge(w) ==
  /\ Running(w, "stamp")
  /\ badge' = inflight[w].level
  /\ IF inflight[w].weighs THEN CommitThen(w, [inflight[w] EXCEPT !.op = "weigh"])
                           ELSE Commit(w)
  /\ UNCHANGED <<report, ruled, risk, suspended, died>>

-----------------------------------------------------------------------------
(* Reporting                                                                *)

\* submitReport: the row first.  `who` is Null for an anonymous report.  The
\* support case it opens is modelled in SupportCases.
SubmitReport(w, r, who, severity) ==
  /\ Idle(w) /\ report[r].status = "none"
  /\ report' = [report EXCEPT ![r] = [by |-> who, severity |-> severity, status |-> "PENDING"]]
  /\ CommitFirst(w, ReportReq("assess", r, severity \in Severe))
  /\ UNCHANGED <<ruled, risk, badge, suspended, died>>

\* Mutant: two severe reports are enough, whoever filed them.
TwoSevereReports == {r \in ReportIds : report[r].status # "none" /\ report[r].severity \in Severe}

\* The distinct identified reporters of severe reports, dismissed ones included.
Corroborating ==
  {report[r].by : r \in {q \in ReportIds : report[q].severity \in Severe /\ report[q].by # Null}}

Weigh(w) ==
  /\ Running(w, "weigh")
  /\ IF LevelOf(risk) \in {"HIGH", "SUSPICIOUS"} /\ Cardinality(Corroborating) >= 2
       THEN Reread(w, [inflight[w] EXCEPT !.op = "suspend"]) ELSE Commit(w)
  /\ UNCHANGED <<reportRows, died>>

Suspend(w) ==
  /\ Running(w, "suspend") \/ Running(w, "suspendByAdmin")
  /\ suspended' = IF inflight[w].op = "suspend" THEN "system" ELSE "admin"
  /\ Commit(w)
  /\ UNCHANGED <<report, ruled, risk, badge, died>>

-----------------------------------------------------------------------------
(* Moderation                                                               *)

Actions == {"APPROVE", "REJECT", "SUSPEND", "INVESTIGATE", "DISMISS", "WARN_OWNER"}

StatusMap(action) ==
  CASE action \in {"APPROVE", "WARN_OWNER"}  -> "RESOLVED"
    [] action \in {"REJECT", "DISMISS"}      -> "DISMISSED"
    [] action \in {"SUSPEND", "INVESTIGATE"} -> "UNDER_REVIEW"

\* Mutant: only DISMISS recomputes the risk, REJECT does not.
RescoresOnDismiss(action) == action = "DISMISS"

Rescores(action) == StatusMap(action) = "DISMISSED"

\* adminModerateReport: the transaction fails when the report has a
\* ModerationAction already, for reportId is unique there.
ModerateReport(w, r, action) ==
  /\ Idle(w) /\ report[r].status # "none" /\ r \notin ruled
  /\ report' = [report EXCEPT ![r].status = StatusMap(action)]
  /\ ruled' = ruled \cup {r}
  /\ CASE action = "SUSPEND"  -> CommitFirst(w, ReportReq("suspendByAdmin", r, FALSE))
       [] Rescores(action)    -> CommitFirst(w, ReportReq("assess", r, FALSE))
       [] OTHER               -> CommitAtOnce(r)
  /\ UNCHANGED <<risk, badge, suspended, died>>

DropReport(w) == Die(w) /\ UNCHANGED reportRows

ReportsNext ==
  /\ \E w \in Workers :
       \/ \E r \in ReportIds :
            \/ \E who \in Reporters \cup {Null}, severity \in Severities :
                 SubmitReport(w, r, who, severity)
            \/ \E action \in Actions : ModerateReport(w, r, action)
       \/ ReadRisk(w) \/ WriteRisk(w) \/ AskForBadge(w) \/ ReadBadge(w) \/ WriteBadge(w)
       \/ Weigh(w) \/ Suspend(w) \/ DropReport(w)
  /\ Noted

ReportsSpec == ReportsInit /\ [][ReportsNext]_reportVars

-----------------------------------------------------------------------------
ReportsTypeOK ==
  /\ SettlingOK
  /\ \A w \in Workers :
       ~ Idle(w) /\ inflight[w].op \in ReportOps => inflight[w] \in ReportRequest
  /\ report \in [ReportIds -> [by : Reporters \cup {Null},
                               severity : {"LOW", "MEDIUM", "HIGH", "CRITICAL"},
                               status : {"none", "PENDING", "UNDER_REVIEW", "RESOLVED",
                                         "DISMISSED"}]]
  /\ ruled \subseteq ReportIds
  /\ risk \subseteq ReportIds
  /\ badge \in RiskLevel
  /\ suspended \in {"no", "system", "admin"}

\* The platform suspends a listing by itself only when two different, named
\* people have filed severe reports about it, whatever overlapped: neither one
\* account nor any number of anonymous reports can take a listing down.
SuspensionCorroborated ==
  suspended = "system" =>
    \E r, q \in ReportIds :
      /\ {report[r].severity, report[q].severity} \subseteq Severe
      /\ Null \notin {report[r].by, report[q].by}
      /\ report[r].by # report[q].by

\* When the handlers have finished one after another, the risk row is about
\* exactly the reports that are not dismissed and the badge shows its level.
StandingFollowsReports == Settled => risk = OpenReports /\ badge = LevelOf(OpenReports)
=============================================================================
