--------------------------- MODULE OccupancyHistory ---------------------------
(***************************************************************************)
(* Occupancy with a history variable: which of the requests in flight have  *)
(* been overtaken, that is, had a column they were decided from changed by  *)
(* another request since they read it.  `overtaken` is not program state    *)
(* and no handler is guarded by it; every behaviour of Occupancy is one of  *)
(* this module with the variable left out.                                  *)
(*                                                                          *)
(* The rules below are broken by overlapping requests.  Each names, for     *)
(* every behaviour, the late writes that can break it: any other way past   *)
(* the handlers' checks would be a violation.                               *)
(***************************************************************************)
EXTENDS Occupancy

VARIABLE overtaken

historyVars == <<vars, overtaken>>

LeaseOps == {"sign", "reject", "terminate"}

InForceAt(p) == {l \in Leases : leaseProperty[l] = p /\ leaseStatus[l] = "ACTIVE"}

\* This step changes a column that the handler of request r has checked.
Overtakes(r) ==
  \/ /\ r.op \notin LeaseOps \cup {"decline"}
     /\ \/ status'[r.property] # status[r.property]
        \/ publishedAt'[r.property] # publishedAt[r.property]
        \/ moderation'[r.property] # moderation[r.property]
  \/ r.op = "delete" /\ \E l \in Leases :
       (leaseProperty'[l] = r.property /\ leaseStatus'[l] = "ACTIVE") # (l \in InForceAt(r.property))
  \/ r.op \in LeaseOps /\ leaseStatus'[r.id] # leaseStatus[r.id]
  \/ r.op = "decline" /\ confirmed'[r.id] # confirmed[r.id]

\* The requests still in flight after the step, overtaken by it or before.
Overtake ==
  overtaken' = {w \in Workers : /\ inflight[w] # Null
                                /\ inflight'[w] = inflight[w]
                                /\ w \in overtaken \/ Overtakes(inflight[w])}

HistoryInit == Init /\ overtaken = {}
HistoryNext == Next /\ Overtake
HistorySpec == HistoryInit /\ [][HistoryNext]_historyVars

-----------------------------------------------------------------------------
(* Properties                                                               *)

\* A handler of W that is doing one of ops to listing p writes and is done.
WrittenBy(W, ops, p) ==
  \E w \in W : /\ inflight[w] # Null
               /\ inflight'[w] = Null
               /\ inflight[w].op \in ops
               /\ inflight[w].property = p

\* A listing already published is stamped again only by an approval that was
\* overtaken: of the approvals of one listing only two that overlap both stamp,
\* whatever it goes through in between (reinstated, vacated, resubmitted).
RestampIsLate ==
  [][\A p \in Properties : publishedAt[p] # 0 /\ publishedAt'[p] # publishedAt[p] =>
       WrittenBy(overtaken, {"setStatus", "verify"}, p)]_historyVars

\* Who takes a listing out of SUSPENDED: a moderator, a signature or a
\* termination (neither looks at the listing's status), the deletion of the
\* owner's account, and else only a button that was pressed before the
\* suspension and is written after it.
SuspensionLifted ==
  [][\A p \in Properties : status[p] = "SUSPENDED" /\ status'[p] # "SUSPENDED" =>
       \/ OwnerOf[p] \notin accounts'
       \/ WrittenBy(Workers, {"setStatus", "sign", "terminate"}, p)
       \/ WrittenBy(overtaken, {"publish", "toggle", "mark", "vacate", "verify", "delete"}, p)
    ]_historyVars

\* Evidence of a tenancy is lost only to a late write, or with an account: a
\* listing under a signed lease to a deletion that read it before the
\* signature, a confirmed tenancy to a decline that read it unconfirmed.
EvidenceLossIsLate ==
  [][/\ \A p \in Properties :
          InForceAt(p) # {} /\ Exists(p) /\ status'[p] = "gone" =>
            OwnerOf[p] \notin accounts' \/ WrittenBy(overtaken, {"delete"}, p)
     /\ \A t \in Tenancies :
          confirmed[t] /\ tenancy'[t] = "declined" =>
            \E w \in overtaken : Running(w, "decline") /\ inflight[w].id = t
    ]_historyVars
=============================================================================
