------------------------------ MODULE CaseRules ------------------------------
(* The rules of the support desk that are pure functions in the code: where  *)
(* a case may move, and who may see what (lifecycle.js, visibility.js).      *)

CaseStatus == {"OPEN", "TRIAGED", "IN_PROGRESS", "WAITING_FOR_USER",
               "WAITING_FOR_OWNER", "ESCALATED", "RESOLVED", "CLOSED"}

Onward == CaseStatus \ {"OPEN"}

\* TRANSITIONS, with assertTransition's refusal of a move to the same status.
CanTransition(from, to) ==
  CASE from = "CLOSED"   -> FALSE
    [] from = "RESOLVED" -> to \in {"IN_PROGRESS", "CLOSED"}
    [] OTHER             -> to \in Onward \ {from}

Finished == {"RESOLVED", "CLOSED"}

Parties == {"TENANT", "OWNER"}
Roles == Parties \cup {"ADMIN"}
Visibility == {"PUBLIC", "TENANT_ONLY", "OWNER_ONLY", "INTERNAL"}

\* canSee
CanSee(role, visibility) ==
  \/ role = "ADMIN"
  \/ visibility = "PUBLIC" /\ role \in Parties
  \/ visibility = "TENANT_ONLY" /\ role = "TENANT"
  \/ visibility = "OWNER_ONLY" /\ role = "OWNER"

\* Mutant: a renter's words are public unless they say otherwise.
PublicByDefault(role) ==
  CASE role = "OWNER"  -> "OWNER_ONLY"
    [] role = "TENANT" -> "PUBLIC"
    [] role = "ADMIN"  -> "INTERNAL"

\* defaultVisibilityFor
DefaultVisibility(role) ==
  CASE role = "OWNER"  -> "OWNER_ONLY"
    [] role = "TENANT" -> "TENANT_ONLY"
    [] role = "ADMIN"  -> "INTERNAL"

\* allowedVisibilities, and what addMessage and addAttachment make of a request
\* they do not allow: a message falls back to the first allowed value, a file
\* to the default.
Clamp(role, asked) == IF role = "ADMIN" THEN asked ELSE DefaultVisibility(role)
MessageVisibility(role, asked) ==
  IF role = "ADMIN" /\ asked = "unasked" THEN "PUBLIC" ELSE Clamp(role, asked)
FileVisibility(role, asked) ==
  IF asked = "unasked" THEN DefaultVisibility(role) ELSE Clamp(role, asked)

\* statusAfterReply; the same status where nothing changes
StatusAfterReply(current, role) ==
  IF \/ role = "TENANT" /\ current = "WAITING_FOR_USER"
     \/ role = "OWNER" /\ current = "WAITING_FOR_OWNER"
     \/ role = "ADMIN" /\ current = "OPEN"
  THEN "IN_PROGRESS" ELSE current
=============================================================================
