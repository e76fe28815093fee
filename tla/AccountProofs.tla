----------------------------- MODULE AccountProofs -----------------------------
(***************************************************************************)
(* TLAPS proofs about who is signed in and whose number it is: PhoneIdentity *)
(* and Sessions, for any number of users, numbers, devices and requests; and *)
(* the types of the components of MCPeople together.                         *)
(***************************************************************************)
EXTENDS MCPeople, SupportProofs, ChatProofs, SettlingProofs, SequenceTheorems,
        FiniteSetTheorems

USE PhoneAssumption, SessionsAssumption

-----------------------------------------------------------------------------
(* Phone numbers                                                            *)

CodeRow == [user : People, number : Numbers] \cup {Null}

PhoneRowsOK ==
  /\ Registered \subseteq known /\ known \subseteq People /\ verified \subseteq known
  /\ phone \in [People -> Typed \cup {Null}]
  /\ codes \in Seq(CodeRow) /\ Len(codes) <= MaxCodes
  /\ \A i \in 1..Len(codes) : codes[i] # Null => codes[i].user \in known
  /\ offer \in [Numbers -> Registered \cup {Null}]
  /\ proven \in [People -> SUBSET Numbers]
  /\ spoiled \in BOOLEAN /\ split \in BOOLEAN

\* What the request of a worker is about exists: an account once it is read, or
\* none yet for the first steps of the bot.
PhoneRequestOK(r) ==
  /\ r \in PhoneRequest
  /\ r.op # "saveProfile" => r.number \in Numbers
  /\ r.op \in {"checkClaim", "burn", "prove"} => r.code \in 1..Len(codes)
  /\ IF r.op \in {"findCandidate", "createOwner"} THEN r.on = Null ELSE r.on \in known

\* A save that leaves the badge alone writes the number that is there.
SameNumber(r) == r.op = "saveProfile" /\ r.keeps => phone[r.on] = r.number

\* While requests come one after another, a number about to be written with its
\* badge is verified nowhere else.
Unclaimed(r) ==
  /\ r.op \in {"prove", "linkOwner"} => Owners(r.number) \subseteq {r.on}
  /\ r.op \in {"findCandidate", "createOwner"} => Owners(r.number) = {}

PhoneInv ==
  /\ SettlingOK /\ PhoneRowsOK
  /\ \A w \in Workers : ~ Idle(w) => PhoneRequestOK(inflight[w])
  /\ \A w \in Workers \ overtaken : ~ Idle(w) => SameNumber(inflight[w])
  /\ BadgeIsProven

\* No two accounts have a number verified, and nothing under way will make it so.
OneOwnerInv ==
  /\ OneVerifiedOwner
  /\ ~ overlapped => overtaken = {}
  /\ ~ overlapped /\ ~ split => \A w \in Workers : ~ Idle(w) => Unclaimed(inflight[w])

\* The requests a handler begins or goes on with.
LEMMA PhoneReqType ==
  ASSUME NEW o \in PhoneOps, NEW u \in People \cup {Null}, NEW n \in Numbers
  PROVE  /\ PhoneReq(o, u, n) \in PhoneRequest
         /\ PhoneReq(o, u, n).op = o /\ PhoneReq(o, u, n).on = u
         /\ PhoneReq(o, u, n).number = n /\ ~ PhoneReq(o, u, n).keeps
BY DEF PhoneReq, PhoneRequest, Typed

\* The rows of a step that changes none of them.
LEMMA SamePhoneRows ==
  ASSUME PhoneRowsOK, UNCHANGED phoneRows
  PROVE  PhoneRowsOK'
BY DEF PhoneRowsOK, phoneRows

\* The request a worker is at has its type, and has not been overtaken for nothing.
LEMMA PhoneWriter ==
  ASSUME PhoneInv, NEW w \in Workers, NEW o \in PhoneOps, Running(w, o)
  PROVE  /\ ~ Idle(w) /\ PhoneRequestOK(inflight[w]) /\ inflight[w].op = o
         /\ inflight[w].number \in IF o = "saveProfile" THEN Typed ELSE Numbers
         /\ w \notin overtaken => SameNumber(inflight[w])
BY DEF PhoneInv, Running, Idle, PhoneRequestOK, PhoneRequest

\* Worker w is left with r; the others keep their requests, which stay right if the
\* rows they are about do not change, or if they are overtaken.
LEMMA PhoneStep ==
  ASSUME PhoneInv, Noted, died' \in BOOLEAN, NEW w \in Workers, NEW r, Takes(w, r),
         PhoneRowsOK', BadgeIsProven',
         r # Null => PhoneRequestOK(r)' /\ SameNumber(r)',
         known \subseteq known', Len(codes) <= Len(codes'),
         \A u \in known : phone'[u] # phone[u] =>
           \A v \in Workers \ {w} : ~ Idle(v) /\ inflight[v].on = u => v \in overtaken'
  PROVE  PhoneInv' /\ \A v \in Workers : inflight'[v] = IF v = w THEN r ELSE inflight[v]
<1>1. SettlingOK' /\ \A v \in Workers : inflight'[v] = IF v = w THEN r ELSE inflight[v]
  BY StepBy DEF PhoneInv
<1>2. overtaken \ {w} \subseteq overtaken'
  BY GoesOn, Ends DEF PhoneInv, SettlingOK, Takes
<1>3. ASSUME NEW v \in Workers, ~ Idle(v)' PROVE PhoneRequestOK(inflight[v])'
  <2>1. CASE v = w BY <1>1, <1>3, <2>1 DEF Idle, PhoneRequestOK
  <2>2. CASE v # w
    <3>1. inflight'[v] = inflight[v] /\ PhoneRequestOK(inflight[v])
      BY <1>1, <1>3, <2>2 DEF Idle, PhoneInv
    <3>2. Len(codes) \in Nat /\ Len(codes)' \in Nat
      BY LenProperties DEF PhoneInv, PhoneRowsOK
    <3>3. 1..Len(codes) \subseteq 1..Len(codes') BY <3>2
    <3>4. QED BY <3>1, <3>3 DEF PhoneRequestOK
  <2>3. QED BY <2>1, <2>2
<1>4. ASSUME NEW v \in Workers \ overtaken', ~ Idle(v)' PROVE SameNumber(inflight[v])'
  <2>1. CASE v = w BY <1>1, <1>4, <2>1 DEF Idle, SameNumber
  <2>2. CASE v # w
    <3>1. inflight'[v] = inflight[v] /\ ~ Idle(v) /\ v \notin overtaken
      BY <1>1, <1>2, <1>4, <2>2 DEF Idle
    <3>2. SameNumber(inflight[v]) /\ PhoneRequestOK(inflight[v]) BY <3>1 DEF PhoneInv
    <3>3. QED BY <3>1, <3>2, <1>4, <2>2 DEF SameNumber, PhoneRequestOK
  <2>3. QED BY <2>1, <2>2
<1>5. QED BY <1>1, <1>3, <1>4 DEF PhoneInv

\* A statement of no request in flight leaves the numbers of existing accounts alone.
LEMMA PhoneStatement ==
  ASSUME PhoneInv, Noted, UNCHANGED <<handlerVars, died>>, PhoneRowsOK', BadgeIsProven',
         known \subseteq known', Len(codes) <= Len(codes'),
         \A u \in known : phone'[u] = phone[u]
  PROVE  PhoneInv' /\ inflight' = inflight
<1>1. SettlingOK' /\ inflight' = inflight /\ overtaken' = overtaken
  BY DEF PhoneInv, SettlingOK, InflightOK, handlerVars, Noted, Bystander, Idle
<1>2. Len(codes) \in Nat /\ Len(codes)' \in Nat
  BY LenProperties DEF PhoneInv, PhoneRowsOK
<1>3. 1..Len(codes) \subseteq 1..Len(codes') BY <1>2
<1>4. ASSUME NEW v \in Workers, ~ Idle(v)' PROVE PhoneRequestOK(inflight[v])'
  BY <1>1, <1>3, <1>4 DEF Idle, PhoneInv, PhoneRequestOK
<1>5. ASSUME NEW v \in Workers \ overtaken', ~ Idle(v)' PROVE SameNumber(inflight[v])'
  <2>1. SameNumber(inflight[v]) /\ PhoneRequestOK(inflight[v])
    BY <1>1, <1>5 DEF Idle, PhoneInv
  <2>2. QED BY <2>1, <1>1 DEF SameNumber, PhoneRequestOK
<1>6. QED BY <1>1, <1>4, <1>5 DEF PhoneInv

\* A step of worker w that only reads, and goes on with r or ends.
LEMMA PhoneReads ==
  ASSUME PhoneInv, Noted, died' \in BOOLEAN, NEW w \in Workers, NEW r, Takes(w, r),
         UNCHANGED phoneRows, r # Null => PhoneRequestOK(r) /\ SameNumber(r)
  PROVE  PhoneInv' /\ \A v \in Workers : inflight'[v] = IF v = w THEN r ELSE inflight[v]
<1>1. PhoneRowsOK' BY SamePhoneRows DEF PhoneInv
<1>2. BadgeIsProven' BY DEF PhoneInv, BadgeIsProven, phoneRows
<1>3. r # Null => PhoneRequestOK(r)' /\ SameNumber(r)'
  BY DEF PhoneRequestOK, SameNumber, phoneRows
<1>4. Len(codes) <= Len(codes')
  <2>1. Len(codes) \in Nat BY LenProperties DEF PhoneInv, PhoneRowsOK
  <2>2. QED BY <2>1 DEF phoneRows
<1>5. UNCHANGED <<known, phone>> BY DEF phoneRows
<1>6. QED BY <1>1, <1>2, <1>3, <1>4, <1>5, PhoneStep

\* A code is used: the row stays, so that the requests about it stay right.
LEMMA UseCode ==
  ASSUME PhoneRowsOK, NEW i \in 1..Len(codes), Used(i)
  PROVE  /\ codes' \in Seq(CodeRow) /\ Len(codes') = Len(codes)
         /\ \A j \in 1..Len(codes) : codes'[j] # Null => codes[j] # Null /\ codes'[j] = codes[j]
<1>1. codes \in Seq(CodeRow) /\ Null \in CodeRow BY DEF PhoneRowsOK, CodeRow
<1>2. codes' \in Seq(CodeRow) /\ Len(codes') = Len(codes)
      /\ \A j \in 1..Len(codes) : codes'[j] = IF j = i THEN Null ELSE codes[j]
  BY <1>1, ExceptSeq DEF Used
<1>3. QED BY <1>2

\* Writing a number with its badge, for somebody who has just proven it.
LEMMA ProvesRows ==
  ASSUME PhoneRowsOK, BadgeIsProven, NEW u \in People, NEW n \in Numbers, Proves(u, n),
         spoiled' = spoiled
  PROVE  /\ phone' \in [People -> Typed \cup {Null}] /\ proven' \in [People -> SUBSET Numbers]
         /\ verified' = verified \cup {u} /\ BadgeIsProven'
         /\ \A v \in People : phone'[v] = IF v = u THEN n ELSE phone[v]
<1>1. /\ phone \in [People -> Typed \cup {Null}] /\ verified \subseteq People
      /\ proven \in [People -> SUBSET Numbers]
  BY DEF PhoneRowsOK
<1>2. /\ phone' \in [People -> Typed \cup {Null}] /\ proven' \in [People -> SUBSET Numbers]
      /\ verified' = verified \cup {u}
      /\ \A v \in People : /\ phone'[v] = IF v = u THEN n ELSE phone[v]
                           /\ proven'[v] = IF v = u THEN proven[u] \cup {n} ELSE proven[v]
  BY <1>1 DEF Proves, Typed
<1>3. BadgeIsProven' BY <1>1, <1>2 DEF BadgeIsProven
<1>4. QED BY <1>2, <1>3

\* The handlers' reads.
LEMMA TypeCodeInv ==
  ASSUME PhoneInv, Noted, NEW w \in Workers, NEW u \in People, TypeCode(w, u)
  PROVE  PhoneInv' /\ \A v \in Workers : v # w => inflight'[v] = inflight[v]
<1>1. PICK i \in 1..Len(codes) : Newest(i, u, Numbers) /\ Begin(w, About("checkClaim", u, i))
  BY DEF TypeCode
<1> DEFINE r == About("checkClaim", u, i)
<1>2. codes[i] # Null /\ codes[i].user = u /\ codes[i].number \in Numbers
  BY <1>1 DEF Newest, Usable
<1>3. u \in known /\ i \in 0..MaxCodes
  <2>1. Len(codes) \in Nat /\ Len(codes) <= MaxCodes
    BY LenProperties DEF PhoneInv, PhoneRowsOK
  <2>2. QED BY <2>1, <1>2 DEF PhoneInv, PhoneRowsOK
<1>4. PhoneRequestOK(r) /\ SameNumber(r)
  <2>1. /\ r \in PhoneRequest /\ r.op = "checkClaim" /\ r.on = u /\ r.code = i
        /\ r.number \in Numbers
    BY <1>2, <1>3 DEF About, PhoneReq, PhoneRequest, PhoneOps, Typed
  <2>2. QED BY <2>1, <1>3 DEF PhoneRequestOK, SameNumber
<1>5. Takes(w, r) BY <1>1 DEF Takes
<1> HIDE DEF r
<1>6. UNCHANGED <<phoneRows, died>> BY DEF TypeCode
<1>7. died' \in BOOLEAN BY <1>6 DEF PhoneInv, SettlingOK
<1>8. QED BY <1>4, <1>5, <1>6, <1>7, PhoneReads

\* A save has read the number and decides about the badge.
LEMMA ReadProfileInv ==
  ASSUME PhoneInv, Noted, NEW w \in Workers, NEW u \in People, NEW n \in Typed,
         ReadProfile(w, u, n)
  PROVE  PhoneInv' /\ \A v \in Workers : v # w => inflight'[v] = inflight[v]
<1> DEFINE keeps == KeepsBadge(u, n)
           r == [PhoneReq("saveProfile", u, n) EXCEPT !.keeps = keeps]
<1>1. keeps \in BOOLEAN /\ (keeps => phone[u] = n) BY DEF KeepsBadge
<1>2. Takes(w, r) /\ u \in known /\ UNCHANGED <<phoneRows, died>>
  BY DEF ReadProfile, Takes
<1> HIDE DEF keeps
<1>3. r \in PhoneRequest /\ r.op = "saveProfile" /\ r.on = u /\ r.number = n /\ r.keeps = keeps
  BY <1>1 DEF PhoneReq, PhoneRequest, PhoneOps
<1> HIDE DEF r
<1>4. PhoneRequestOK(r) /\ SameNumber(r) BY <1>1, <1>3, <1>2 DEF PhoneRequestOK, SameNumber
<1>5. died' \in BOOLEAN BY <1>2 DEF PhoneInv, SettlingOK
<1>6. QED BY <1>2, <1>4, <1>5, PhoneReads

\* The bot has found the account a sender belongs to, or none.
LEMMA BotReadsInv ==
  ASSUME PhoneInv, Noted, NEW w \in Workers, NEW n \in Numbers,
         FirstContact(w, n) \/ AnswerYes(w, n)
  PROVE  PhoneInv' /\ \A v \in Workers : v # w => inflight'[v] = inflight[v]
<1>1. UNCHANGED <<phoneRows, died>> /\ died' \in BOOLEAN
  BY DEF FirstContact, AnswerYes, PhoneInv, SettlingOK
<1>2. CASE FirstContact(w, n)
  <2> DEFINE r == PhoneReq("findCandidate", Null, n)
  <2>1. PhoneRequestOK(r) /\ SameNumber(r)
    BY PhoneReqType DEF PhoneOps, PhoneRequestOK, SameNumber
  <2>2. Takes(w, r) BY <1>2 DEF FirstContact, Takes
  <2> HIDE DEF r
  <2>3. QED BY <1>1, <2>1, <2>2, PhoneReads
<1>3. CASE AnswerYes(w, n)
  <2> DEFINE r == PhoneReq("linkOwner", offer[n], n)
  <2>1. offer[n] \in known /\ offer[n] \in People
    BY <1>3 DEF AnswerYes, PhoneInv, PhoneRowsOK
  <2>2. PhoneRequestOK(r) /\ SameNumber(r)
    BY <2>1, PhoneReqType DEF PhoneOps, PhoneRequestOK, SameNumber
  <2>3. Takes(w, r) BY <1>3 DEF AnswerYes, Takes
  <2> HIDE DEF r
  <2>4. QED BY <1>1, <2>2, <2>3, PhoneReads
<1>4. QED BY <1>2, <1>3

\* The number is looked for on other accounts.
LEMMA CheckClaimInv ==
  ASSUME PhoneInv, Noted, NEW w \in Workers, CheckClaim(w)
  PROVE  PhoneInv' /\ \A v \in Workers : v # w => inflight'[v] = inflight[v]
<1> DEFINE o == OnClaim(inflight[w].number, inflight[w].on)
           r == [inflight[w] EXCEPT !.op = o]
<1>1. PhoneRequestOK(inflight[w]) /\ inflight[w].op = "checkClaim"
  BY PhoneWriter DEF CheckClaim, PhoneOps
<1>2. o \in {"burn", "prove"} BY DEF OnClaim
<1>3. PhoneRequestOK(r) /\ SameNumber(r)
  BY <1>1, <1>2 DEF PhoneRequestOK, SameNumber, PhoneRequest, PhoneOps
<1>4. Takes(w, r) /\ UNCHANGED <<phoneRows, died>> BY DEF CheckClaim, Takes
<1> HIDE DEF o, r
<1>5. died' \in BOOLEAN BY <1>4 DEF PhoneInv, SettlingOK
<1>6. QED BY <1>3, <1>4, <1>5, PhoneReads

\* The process dies.
LEMMA DropPhoneInv ==
  ASSUME PhoneInv, Noted, NEW w \in Workers, DropPhone(w)
  PROVE  PhoneInv' /\ \A v \in Workers : inflight'[v] = IF v = w THEN Null ELSE inflight[v]
<1>1. Takes(w, Null) /\ died' \in BOOLEAN /\ UNCHANGED phoneRows
  BY EndTakesNull DEF DropPhone, Die
<1>2. QED BY <1>1, PhoneReads

\* The statements of no request in flight.
LEMMA CodesInv ==
  ASSUME PhoneInv, Noted,
         \/ \E u \in People : \/ RequestPhoneLoginOtp(u) \/ VerifyPhoneLoginOtp(u)
                             \/ \E n \in Numbers : RequestPhoneOtp(u, n)
         \/ \E i \in 1..Len(codes) : ExpireCode(i)
  PROVE  PhoneInv' /\ inflight' = inflight
<1> USE DEF PhoneInv
<1>1. ASSUME NEW u \in known, NEW n \in Numbers, SendCode(u, n) PROVE PhoneInv' /\ inflight' = inflight
  <2> DEFINE row == [user |-> u, number |-> n]
  <2>2. codes' = Append(codes, row) /\ Len(codes) < MaxCodes
        /\ UNCHANGED <<known, phone, verified, offer, proven, spoiled, split, handlerVars, died>>
    BY <1>1 DEF SendCode
  <2>3. row \in CodeRow BY DEF CodeRow, PhoneRowsOK
  <2>4. row.user = u OBVIOUS
  <2> HIDE DEF row
  <2>5. /\ codes' \in Seq(CodeRow) /\ Len(codes') = Len(codes) + 1 /\ Len(codes) \in Nat
        /\ \A i \in 1..Len(codes) : codes'[i] = codes[i]
        /\ codes'[Len(codes) + 1] = row
    BY <2>2, <2>3, AppendProperties, LenProperties DEF PhoneRowsOK
  <2>6. \A i \in 1..Len(codes') : codes'[i] # Null => codes'[i].user \in known'
    BY <2>2, <2>4, <2>5 DEF PhoneRowsOK
  <2>7. PhoneRowsOK' BY <2>2, <2>5, <2>6 DEF PhoneRowsOK
  <2>8. BadgeIsProven' BY <2>2 DEF BadgeIsProven
  <2>9. QED BY <2>2, <2>5, <2>7, <2>8, PhoneStatement
<1>2. ASSUME NEW i \in 1..Len(codes), Used(i), codes[i] # Null,
             UNCHANGED <<known, phone, verified, offer, proven, spoiled, split, handlerVars, died>>
      PROVE  PhoneInv' /\ inflight' = inflight
  <2>1. /\ codes' \in Seq(CodeRow) /\ Len(codes') = Len(codes)
        /\ \A j \in 1..Len(codes) : codes'[j] # Null => codes[j] # Null /\ codes'[j] = codes[j]
    BY <1>2, UseCode
  <2>2. PhoneRowsOK' BY <1>2, <2>1 DEF PhoneRowsOK
  <2>3. BadgeIsProven' BY <1>2 DEF BadgeIsProven
  <2>4. Len(codes) \in Nat BY LenProperties DEF PhoneRowsOK
  <2>5. QED BY <1>2, <2>1, <2>2, <2>3, <2>4, PhoneStatement
<1>3. ASSUME NEW u \in People, RequestPhoneLoginOtp(u) PROVE PhoneInv' /\ inflight' = inflight
  BY <1>1, <1>3 DEF RequestPhoneLoginOtp, PhoneRowsOK
<1>4. QED BY <1>1, <1>2, <1>3 DEF RequestPhoneOtp, VerifyPhoneLoginOtp, ExpireCode, Newest, Usable

\* An offer to link is answered, or withdrawn.
LEMMA OfferInv ==
  ASSUME PhoneInv, Noted, NEW n \in Numbers, AnswerNo(n) \/ WithdrawOffer(n)
  PROVE  PhoneInv' /\ inflight' = inflight
<1> USE DEF PhoneInv
<1>1. UNCHANGED <<codes, spoiled, handlerVars, died>>
      /\ offer' = [offer EXCEPT ![n] = Null]
  BY DEF AnswerNo, WithdrawOffer
<1>2. offer' \in [Numbers -> Registered \cup {Null}] BY <1>1 DEF PhoneRowsOK
<1>3. Len(codes) \in Nat /\ Len(codes') = Len(codes) BY <1>1, LenProperties DEF PhoneRowsOK
<1>4. CASE WithdrawOffer(n)
  <2>1. UNCHANGED <<known, phone, verified, proven, split>> BY <1>4 DEF WithdrawOffer
  <2>2. PhoneRowsOK' BY <1>1, <1>2, <2>1 DEF PhoneRowsOK
  <2>3. BadgeIsProven' BY <1>1, <2>1 DEF BadgeIsProven
  <2>4. QED BY <1>1, <1>3, <2>1, <2>2, <2>3, PhoneStatement
<1>5. CASE AnswerNo(n)
  <2>1. PICK u \in People \ known : known' = known \cup {u} /\ Proves(u, n)
    BY <1>5 DEF AnswerNo, NewOwner
  <2>2. /\ phone' \in [People -> Typed \cup {Null}] /\ proven' \in [People -> SUBSET Numbers]
        /\ verified' = verified \cup {u} /\ BadgeIsProven'
        /\ \A v \in People : phone'[v] = IF v = u THEN n ELSE phone[v]
    BY <1>1, <2>1, ProvesRows
  <2>3. split' \in BOOLEAN BY <1>5 DEF AnswerNo, PhoneRowsOK
  <2>4. PhoneRowsOK' BY <1>1, <1>2, <2>1, <2>2, <2>3 DEF PhoneRowsOK
  <2>5. known \subseteq known' /\ \A v \in known : phone'[v] = phone[v]
    BY <2>1, <2>2 DEF PhoneRowsOK
  <2>6. QED BY <1>1, <1>3, <2>2, <2>4, <2>5, PhoneStatement
<1>6. QED BY <1>4, <1>5

\* The writes of requests in flight.
LEMMA EndVerifyInv ==
  ASSUME PhoneInv, Noted, NEW w \in Workers, EndVerify(w)
  PROVE  PhoneInv' /\ \A v \in Workers : inflight'[v] = IF v = w THEN Null ELSE inflight[v]
<1> DEFINE u == inflight[w].on
           n == inflight[w].number
<1>1. /\ PhoneRowsOK /\ BadgeIsProven /\ u \in known /\ u \in People /\ n \in Numbers
      /\ ~ Idle(w) /\ inflight[w].code \in 1..Len(codes)
  BY PhoneWriter DEF EndVerify, PhoneOps, PhoneRequestOK, PhoneInv, PhoneRowsOK
<1>2. /\ Commit(w) /\ Used(inflight[w].code) /\ UNCHANGED <<known, offer, spoiled, split, died>>
      /\ UNCHANGED <<phone, verified, proven>> \/ Proves(u, n)
  BY DEF EndVerify
<1> HIDE DEF u, n
<1>3. /\ phone' \in [People -> Typed \cup {Null}] /\ proven' \in [People -> SUBSET Numbers]
      /\ verified' \subseteq known /\ BadgeIsProven'
      /\ \A v \in known : phone'[v] # phone[v] => v = u
  <2>1. CASE UNCHANGED <<phone, verified, proven>>
    BY <1>1, <1>2, <2>1 DEF PhoneRowsOK, BadgeIsProven
  <2>2. CASE Proves(u, n) BY <1>1, <1>2, <2>2, ProvesRows DEF PhoneRowsOK
  <2>3. QED BY <1>2, <2>1, <2>2
<1>4. /\ codes' \in Seq(CodeRow) /\ Len(codes') = Len(codes)
      /\ \A j \in 1..Len(codes) : codes'[j] # Null => codes[j] # Null /\ codes'[j] = codes[j]
  BY <1>1, <1>2, UseCode
<1>5. PhoneRowsOK' BY <1>1, <1>2, <1>3, <1>4 DEF PhoneRowsOK
<1>6. \A v \in Workers \ {w} : ~ Idle(v) /\ inflight[v].on = u => v \in overtaken'
  BY <1>2 DEF Commit, ReadersOf, u
<1>7. Takes(w, Null) /\ died' \in BOOLEAN /\ Len(codes) \in Nat
  BY <1>1, <1>2, EndTakesNull, LenProperties DEF PhoneInv, SettlingOK, PhoneRowsOK
<1>8. QED BY <1>2, <1>3, <1>4, <1>5, <1>6, <1>7, PhoneStep

\* The number is saved, and the badge goes unless the number was the same.
LEMMA WriteProfileInv ==
  ASSUME PhoneInv, Noted, NEW w \in Workers, WriteProfile(w)
  PROVE  PhoneInv' /\ \A v \in Workers : inflight'[v] = IF v = w THEN Null ELSE inflight[v]
<1> DEFINE u == inflight[w].on
           n == inflight[w].number
           keeps == inflight[w].keeps
<1>1. /\ PhoneRowsOK /\ BadgeIsProven /\ u \in known /\ u \in People /\ n \in Typed
      /\ ~ Idle(w) /\ (w \notin overtaken /\ keeps => phone[u] = n)
  BY PhoneWriter DEF WriteProfile, PhoneOps, PhoneRequestOK, PhoneInv, PhoneRowsOK, SameNumber
<1>2. /\ phone' = [phone EXCEPT ![u] = n]
      /\ verified' = IF keeps THEN verified ELSE verified \ {u}
      /\ spoiled' = (spoiled \/ w \in overtaken)
      /\ Commit(w) /\ UNCHANGED <<known, codes, offer, proven, split, died>>
  BY DEF WriteProfile
<1> HIDE DEF u, n, keeps
<1>3. /\ phone' \in [People -> Typed \cup {Null}] /\ verified' \subseteq verified
      /\ u \in verified' => keeps
      /\ \A v \in People : phone'[v] = IF v = u THEN n ELSE phone[v]
  BY <1>1, <1>2 DEF PhoneRowsOK
<1>4. BadgeIsProven'
  <2> SUFFICES ASSUME ~ spoiled', NEW v \in verified' PROVE phone'[v] \in proven[v]
    BY <1>2 DEF BadgeIsProven
  <2>1. ~ spoiled /\ w \notin overtaken BY <1>2
  <2>2. v \in verified /\ v \in People /\ phone[v] \in proven[v]
    BY <1>1, <1>3, <2>1 DEF BadgeIsProven, PhoneRowsOK
  <2>3. phone'[v] = phone[v] BY <1>1, <1>3, <2>1, <2>2
  <2>4. QED BY <2>2, <2>3
<1>5. spoiled' \in BOOLEAN BY <1>2 DEF PhoneRowsOK
<1>6. PhoneRowsOK' BY <1>1, <1>2, <1>3, <1>5 DEF PhoneRowsOK
<1>7. \A v \in Workers \ {w} : ~ Idle(v) /\ inflight[v].on = u => v \in overtaken'
  BY <1>2 DEF Commit, ReadersOf, u
<1>8. Takes(w, Null) /\ died' \in BOOLEAN /\ Len(codes) \in Nat
  BY <1>1, <1>2, EndTakesNull, LenProperties DEF PhoneInv, SettlingOK, PhoneRowsOK
<1>9. \A v \in known : phone'[v] # phone[v] => v = u BY <1>1, <1>3 DEF PhoneRowsOK
<1>10. QED BY <1>2, <1>4, <1>6, <1>7, <1>8, <1>9, PhoneStep

\* The sender gets an account of its own, or joins one.
LEMMA BotWritesInv ==
  ASSUME PhoneInv, Noted, NEW w \in Workers, CreateOwner(w) \/ LinkOwner(w)
  PROVE  PhoneInv' /\ \A v \in Workers : inflight'[v] = IF v = w THEN Null ELSE inflight[v]
<1> DEFINE n == inflight[w].number
<1>1. /\ PhoneRowsOK /\ BadgeIsProven /\ n \in Numbers /\ ~ Idle(w)
  BY PhoneWriter DEF CreateOwner, LinkOwner, PhoneOps, PhoneInv
<1>2. Commit(w) /\ UNCHANGED <<codes, spoiled, split, died>> /\ Len(codes) \in Nat
  BY <1>1, LenProperties DEF CreateOwner, LinkOwner, PhoneRowsOK
<1>3. PICK u \in People :
        /\ Proves(u, n) /\ known' = known \cup {u}
        /\ offer' \in [Numbers -> Registered \cup {Null}]
        /\ u \in known => u = inflight[w].on
  <2>1. CASE CreateOwner(w)
    BY <1>1, <2>1 DEF CreateOwner, NewOwner, PhoneRowsOK
  <2>2. CASE LinkOwner(w)
    <3>1. inflight[w].on \in known
      BY <2>2, PhoneWriter DEF LinkOwner, PhoneOps, PhoneRequestOK
    <3>2. inflight[w].on \in People /\ known' = known \cup {inflight[w].on}
      BY <1>1, <2>2, <3>1 DEF LinkOwner, PhoneRowsOK
    <3>3. Proves(inflight[w].on, n) /\ offer' \in [Numbers -> Registered \cup {Null}]
      BY <1>1, <2>2 DEF LinkOwner, PhoneRowsOK
    <3>4. QED BY <3>2, <3>3
  <2>3. QED BY <2>1, <2>2
<1> HIDE DEF n
<1>4. /\ phone' \in [People -> Typed \cup {Null}] /\ proven' \in [People -> SUBSET Numbers]
      /\ verified' = verified \cup {u} /\ BadgeIsProven'
      /\ \A v \in People : phone'[v] = IF v = u THEN n ELSE phone[v]
  BY <1>1, <1>2, <1>3, ProvesRows
<1>5. PhoneRowsOK' BY <1>1, <1>2, <1>3, <1>4 DEF PhoneRowsOK
<1>6. \A x \in known : phone'[x] # phone[x] =>
        \A v \in Workers \ {w} : ~ Idle(v) /\ inflight[v].on = x => v \in overtaken'
  BY <1>1, <1>2, <1>3, <1>4 DEF Commit, ReadersOf, PhoneRowsOK
<1>7. Takes(w, Null) /\ died' \in BOOLEAN
  BY <1>2, EndTakesNull DEF PhoneInv, SettlingOK
<1>8. QED BY <1>2, <1>3, <1>4, <1>5, <1>6, <1>7, PhoneStep

\* The bot has looked for an account to offer.
LEMMA FindCandidateInv ==
  ASSUME PhoneInv, Noted, NEW w \in Workers, FindCandidate(w)
  PROVE  /\ PhoneInv'
         /\ \A v \in Workers : inflight'[v] =
              IF v # w THEN inflight[v] ELSE IF HasCandidate(inflight[w].number) THEN Null
              ELSE PhoneReq("createOwner", Null, inflight[w].number)
<1> DEFINE n == inflight[w].number
           r == PhoneReq("createOwner", Null, n)
<1>1. PhoneRowsOK /\ n \in Numbers /\ died' \in BOOLEAN
  BY PhoneWriter DEF FindCandidate, PhoneOps, PhoneInv, SettlingOK
<1>2. UNCHANGED <<known, phone, verified, codes, proven, spoiled, split, died>>
  BY DEF FindCandidate
<1>3. CASE HasCandidate(n)
  <2>1. Commit(w) /\ \E u \in Candidates(n) : offer' = [offer EXCEPT ![n] = u]
    BY <1>3 DEF FindCandidate
  <2>2. Candidates(n) \subseteq Registered BY <1>3 DEF HasCandidate
  <2>3. offer' \in [Numbers -> Registered \cup {Null}] BY <1>1, <2>1, <2>2 DEF PhoneRowsOK
  <2>4. PhoneRowsOK' BY <1>1, <1>2, <2>3 DEF PhoneRowsOK
  <2>5. BadgeIsProven' BY <1>2 DEF BadgeIsProven, PhoneInv
  <2>6. Takes(w, Null) /\ Len(codes) \in Nat
    BY <1>1, <2>1, EndTakesNull, LenProperties DEF PhoneRowsOK
  <2>7. PhoneInv' /\ \A v \in Workers : inflight'[v] = IF v = w THEN Null ELSE inflight[v]
    BY <1>1, <1>2, <2>4, <2>5, <2>6, PhoneStep
  <2>8. QED BY <1>3, <2>7
<1>4. CASE ~ HasCandidate(n)
  <2>1. Takes(w, r) /\ UNCHANGED phoneRows BY <1>4, <1>2 DEF FindCandidate, Takes, phoneRows
  <2>2. PhoneRequestOK(r) /\ SameNumber(r)
    BY <1>1, PhoneReqType DEF PhoneOps, PhoneRequestOK, SameNumber
  <2>3. PhoneInv' /\ \A v \in Workers : inflight'[v] = IF v = w THEN r ELSE inflight[v]
    <3> HIDE DEF r
    <3>1. QED BY <1>1, <2>1, <2>2, PhoneReads
  <2>4. QED BY <1>4, <2>3
<1>5. QED BY <1>3, <1>4

\* The invariant holds at first,
LEMMA PhoneInitInv == PhoneInit => PhoneInv
<1> SUFFICES ASSUME PhoneInit PROVE PhoneInv OBVIOUS
<1>1. InflightOK /\ (\A w \in Workers : inflight[w] = Null)
  BY NoneInflight DEF PhoneInit, SettlingInit
<1>2. codes \in Seq(CodeRow) /\ Len(codes) = 0 BY EmptySeq DEF PhoneInit
<1>3. PhoneRowsOK
  <2>1. Len(codes) <= MaxCodes /\ 1..Len(codes) = {} BY <1>2
  <2>2. phone \in [People -> Typed \cup {Null}] /\ offer \in [Numbers -> Registered \cup {Null}]
    BY DEF PhoneInit
  <2>3. proven \in [People -> SUBSET Numbers] BY DEF PhoneInit
  <2>4. QED BY <1>2, <2>1, <2>2, <2>3 DEF PhoneInit, PhoneRowsOK
<1>4. BadgeIsProven BY DEF PhoneInit, BadgeIsProven
<1>5. QED BY <1>1, <1>3, <1>4 DEF PhoneInit, SettlingInit, SettlingOK, PhoneInv, Idle

\* and every step keeps it.
LEMMA PhoneNextInv ==
  ASSUME PhoneInv, [PhoneNext]_phoneVars
  PROVE  PhoneInv'
<1>1. CASE UNCHANGED phoneVars
  <2>1. PhoneRowsOK' BY <1>1, SamePhoneRows DEF PhoneInv, phoneVars
  <2>2. QED BY <1>1, <2>1 DEF phoneVars, phoneRows, settlingVars, handlerVars, PhoneInv, SettlingOK,
         InflightOK, Idle, PhoneRequestOK, SameNumber, BadgeIsProven
<1>2. ASSUME Noted, NEW w \in Workers,
             \/ \E u \in People : \/ TypeCode(w, u)
                                 \/ \E n \in Typed : ReadProfile(w, u, n)
             \/ \E n \in Numbers : FirstContact(w, n) \/ AnswerYes(w, n)
             \/ CheckClaim(w) \/ EndVerify(w) \/ WriteProfile(w)
             \/ FindCandidate(w) \/ CreateOwner(w) \/ LinkOwner(w) \/ DropPhone(w)
      PROVE  PhoneInv'
  BY <1>2, TypeCodeInv, ReadProfileInv, BotReadsInv, CheckClaimInv, EndVerifyInv,
     WriteProfileInv, FindCandidateInv, BotWritesInv, DropPhoneInv
<1>3. ASSUME Noted, NEW n \in Numbers, AnswerNo(n) \/ WithdrawOffer(n) PROVE PhoneInv'
  BY <1>3, OfferInv
<1>4. ASSUME Noted,
             \/ \E u \in People : \/ RequestPhoneLoginOtp(u) \/ VerifyPhoneLoginOtp(u)
                                 \/ \E n \in Numbers : RequestPhoneOtp(u, n)
             \/ \E i \in 1..Len(codes) : ExpireCode(i)
      PROVE  PhoneInv'
  BY <1>4, CodesInv
<1>5. QED BY <1>1, <1>2, <1>3, <1>4 DEF PhoneNext

\* Rows and requests of the phone flows have their types.
THEOREM PhoneTypes == PhoneSpec => []PhoneTypeOK
<1>1. PhoneInv => PhoneTypeOK
  BY ElementOfSeq DEF PhoneInv, PhoneRowsOK, PhoneRequestOK, PhoneTypeOK, CodeRow
<1>2. QED BY <1>1, PhoneInitInv, PhoneNextInv, PTL DEF PhoneSpec

\* A badge stands beside a number its user has proven, in whatever order codes,
\* links, messages and saves come, unless a save was itself overtaken.
THEOREM BadgesAreProven == PhoneSpec => []BadgeIsProven
<1>1. PhoneInv => BadgeIsProven BY DEF PhoneInv
<1>2. QED BY <1>1, PhoneInitInv, PhoneNextInv, PTL DEF PhoneSpec

-----------------------------------------------------------------------------
(* One account for a number, for requests that come one after another       *)

OwnersApart == \A u, v \in verified : phone[u] = phone[v] => u = v

\* A number that is verified nowhere else is verified on one account afterwards.
LEMMA ProvesApart ==
  ASSUME PhoneRowsOK, OwnersApart, NEW u \in People, NEW n \in Numbers, Proves(u, n),
         Owners(n) \subseteq {u}
  PROVE  OwnersApart'
<1>1. /\ verified \subseteq People /\ verified' = verified \cup {u}
      /\ \A v \in People : phone'[v] = IF v = u THEN n ELSE phone[v]
  BY DEF PhoneRowsOK, Proves
<1>2. QED BY <1>1 DEF OwnersApart, Owners

\* A step of worker w, which is left with r.
LEMMA OwnerStep ==
  ASSUME PhoneInv, OneOwnerInv, Noted, NEW w \in Workers, NEW r, Takes(w, r), split' = split,
         ~ overlapped /\ ~ split => OwnersApart' /\ (r # Null => Unclaimed(r)')
  PROVE  OneOwnerInv'
<1> SUFFICES ASSUME ~ overlapped' PROVE OneOwnerInv'
  BY DEF OneOwnerInv, OneVerifiedOwner
<1>1. /\ ~ overlapped /\ overtaken' = {}
      /\ \A v \in Workers : v # w => inflight'[v] = Null
  BY SoloStep DEF PhoneInv
<1>2. \A v \in Workers : inflight'[v] = IF v = w THEN r ELSE inflight[v]
  BY GoesOn, Ends DEF PhoneInv, SettlingOK, Takes
<1>3. QED BY <1>1, <1>2 DEF OneOwnerInv, OneVerifiedOwner, OwnersApart, Unclaimed, Idle, Owners

\* A step that leaves numbers and badges alone.
LEMMA SameOwners ==
  ASSUME PhoneInv, OneOwnerInv, Noted, NEW w \in Workers, NEW r, Takes(w, r),
         UNCHANGED <<phone, verified, split>>,
         ~ overlapped /\ ~ split /\ r # Null => Unclaimed(r)
  PROVE  OneOwnerInv'
<1>1. ~ overlapped /\ ~ split => OwnersApart' /\ (r # Null => Unclaimed(r)')
  BY DEF OneOwnerInv, OneVerifiedOwner, OwnersApart, Unclaimed, Owners
<1>2. QED BY <1>1, OwnerStep

\* What a worker at its step knows while requests come one after another.
LEMMA OwnerWriter ==
  ASSUME PhoneInv, OneOwnerInv, NEW w \in Workers, ~ Idle(w), ~ overlapped, ~ split
  PROVE  OwnersApart /\ Unclaimed(inflight[w]) /\ SameNumber(inflight[w])
BY DEF OneOwnerInv, OneVerifiedOwner, OwnersApart, PhoneInv

\* The handlers' reads.
LEMMA ReadsKeepOwners ==
  ASSUME PhoneInv, OneOwnerInv, Noted, NEW w \in Workers,
         \/ \E u \in People : \/ TypeCode(w, u)
                             \/ \E n \in Typed : ReadProfile(w, u, n)
         \/ \E n \in Numbers : FirstContact(w, n) \/ AnswerYes(w, n)
         \/ CheckClaim(w) \/ FindCandidate(w) \/ DropPhone(w)
  PROVE  OneOwnerInv'
<1>1. ASSUME NEW u \in People, TypeCode(w, u) PROVE OneOwnerInv'
  <2>1. PICK i \in 1..Len(codes) : Begin(w, About("checkClaim", u, i)) BY <1>1 DEF TypeCode
  <2>2. Unclaimed(About("checkClaim", u, i)) BY DEF Unclaimed, About, PhoneReq
  <2>3. QED BY <1>1, <2>1, <2>2, SameOwners DEF TypeCode, Takes, phoneRows
<1>2. ASSUME NEW u \in People, NEW n \in Typed, ReadProfile(w, u, n) PROVE OneOwnerInv'
  <2> DEFINE r == [PhoneReq("saveProfile", u, n) EXCEPT !.keeps = KeepsBadge(u, n)]
  <2>1. Unclaimed(r) BY DEF Unclaimed, PhoneReq
  <2>2. Takes(w, r) /\ UNCHANGED <<phone, verified, split>>
    BY <1>2 DEF ReadProfile, Takes, phoneRows
  <2> HIDE DEF r
  <2>3. QED BY <2>1, <2>2, SameOwners
<1>3. ASSUME NEW n \in Numbers, FirstContact(w, n) PROVE OneOwnerInv'
  <2>1. Unclaimed(PhoneReq("findCandidate", Null, n))
    BY <1>3 DEF FirstContact, Unclaimed, PhoneReq
  <2>2. QED BY <1>3, <2>1, SameOwners DEF FirstContact, Takes, phoneRows
<1>4. ASSUME NEW n \in Numbers, AnswerYes(w, n) PROVE OneOwnerInv'
  <2>1. Unclaimed(PhoneReq("linkOwner", offer[n], n))
    BY <1>4 DEF AnswerYes, ClaimedByAnother, Unclaimed, PhoneReq
  <2>2. QED BY <1>4, <2>1, SameOwners DEF AnswerYes, Takes, phoneRows
<1>5. CASE CheckClaim(w)
  <2> DEFINE r == [inflight[w] EXCEPT !.op = OnClaim(inflight[w].number, inflight[w].on)]
  <2>1. inflight[w] \in PhoneRequest
    BY <1>5, PhoneWriter DEF CheckClaim, PhoneOps, PhoneRequestOK
  <2>2. Unclaimed(r) BY <2>1 DEF Unclaimed, OnClaim, ClaimedByAnother, PhoneRequest
  <2>3. Takes(w, r) /\ UNCHANGED <<phone, verified, split>>
    BY <1>5 DEF CheckClaim, Takes, phoneRows
  <2> HIDE DEF r
  <2>4. QED BY <2>2, <2>3, SameOwners
<1>6. CASE FindCandidate(w)
  <2> DEFINE r == PhoneReq("createOwner", Null, inflight[w].number)
  <2>1. UNCHANGED <<phone, verified, split>> /\ (Takes(w, Null) \/ Takes(w, r))
    BY <1>6 DEF FindCandidate, Takes
  <2>2. ~ overlapped /\ ~ split => Unclaimed(inflight[w])
    BY <1>6, OwnerWriter DEF FindCandidate, Running, Idle
  <2>3. ~ overlapped /\ ~ split => Unclaimed(r)
    BY <1>6, <2>2 DEF FindCandidate, Running, Unclaimed, PhoneReq
  <2> HIDE DEF r
  <2>4. QED BY <2>1, <2>3, SameOwners
<1>7. CASE DropPhone(w)
  BY <1>7, EndTakesNull, SameOwners DEF DropPhone, Die, phoneRows
<1>8. QED BY <1>1, <1>2, <1>3, <1>4, <1>5, <1>6, <1>7

\* Their writes.
LEMMA WritesKeepOwners ==
  ASSUME PhoneInv, OneOwnerInv, Noted, NEW w \in Workers,
         EndVerify(w) \/ WriteProfile(w) \/ CreateOwner(w) \/ LinkOwner(w)
  PROVE  OneOwnerInv'
<1> DEFINE r == inflight[w]
           n == r.number
<1>1. /\ Takes(w, Null) /\ split' = split /\ ~ Idle(w) /\ PhoneRowsOK
      /\ r \in PhoneRequest /\ (r.op # "saveProfile" => n \in Numbers)
      /\ r.op \notin {"createOwner", "findCandidate"} => r.on \in People
  <2>1. \E o \in {"burn", "prove", "saveProfile", "createOwner", "linkOwner"} : Running(w, o)
    BY DEF EndVerify, WriteProfile, CreateOwner, LinkOwner
  <2>2. PhoneRequestOK(r) /\ ~ Idle(w) BY <2>1, PhoneWriter DEF PhoneOps
  <2>3. Commit(w) /\ split' = split BY DEF EndVerify, WriteProfile, CreateOwner, LinkOwner
  <2>4. QED BY <2>2, <2>3, EndTakesNull DEF PhoneRequestOK, PhoneRequest, PhoneInv, PhoneRowsOK
<1>2. ASSUME ~ overlapped, ~ split PROVE OwnersApart'
  <2>1. OwnersApart /\ Unclaimed(r) /\ SameNumber(r) BY <1>1, <1>2, OwnerWriter
  <2>2. CASE EndVerify(w)
    <3>1. CASE UNCHANGED <<phone, verified, proven>> BY <2>1, <3>1 DEF OwnersApart
    <3>2. CASE Running(w, "prove") /\ Proves(r.on, n)
      <4>1. Owners(n) \subseteq {r.on} /\ r.on \in People /\ n \in Numbers
        BY <1>1, <2>1, <3>2 DEF Unclaimed, Running
      <4>2. QED BY <1>1, <2>1, <3>2, <4>1, ProvesApart
    <3>3. QED BY <2>2, <3>1, <3>2 DEF EndVerify
  <2>3. CASE LinkOwner(w)
    <3>1. Owners(n) \subseteq {r.on} /\ r.on \in People /\ n \in Numbers /\ Proves(r.on, n)
      BY <1>1, <2>1, <2>3 DEF Unclaimed, Running, LinkOwner
    <3>2. QED BY <1>1, <2>1, <3>1, ProvesApart
  <2>4. CASE CreateOwner(w)
    <3>1. Owners(n) = {} /\ n \in Numbers BY <1>1, <2>1, <2>4 DEF Unclaimed, Running, CreateOwner
    <3>2. PICK u \in People : Proves(u, n) BY <2>4 DEF CreateOwner, NewOwner
    <3>3. QED BY <1>1, <2>1, <3>1, <3>2, ProvesApart
  <2>5. CASE WriteProfile(w)
    <3>1. /\ phone' = [phone EXCEPT ![r.on] = n]
          /\ verified' = IF r.keeps THEN verified ELSE verified \ {r.on}
          /\ r.on \in People /\ (r.keeps => phone[r.on] = n)
      BY <1>1, <2>1, <2>5 DEF WriteProfile, Running, SameNumber
    <3>2. \A v \in verified' : phone'[v] = phone[v] /\ v \in verified
      BY <1>1, <3>1 DEF PhoneRowsOK
    <3>3. QED BY <2>1, <3>2 DEF OwnersApart
  <2>6. QED BY <2>2, <2>3, <2>4, <2>5
<1>3. QED BY <1>1, <1>2, OwnerStep

\* The statements of no request in flight.
LEMMA StatementsKeepOwners ==
  ASSUME PhoneInv, OneOwnerInv, Noted, UNCHANGED handlerVars,
         \/ UNCHANGED <<phone, verified, split>>
         \/ \E n \in Numbers : AnswerNo(n)
  PROVE  OneOwnerInv'
<1> SUFFICES ASSUME ~ overlapped' PROVE OneOwnerInv'
  BY DEF OneOwnerInv, OneVerifiedOwner
<1>1. ~ overlapped /\ (\A v \in Workers : inflight'[v] = Null) /\ overtaken' = {}
  BY DEF Noted, Bystander, Idle, handlerVars, OneOwnerInv, PhoneInv, SettlingOK
<1>2. ~ split' => OwnersApart'
  <2>1. ASSUME UNCHANGED <<phone, verified, split>>, ~ split' PROVE OwnersApart'
    BY <1>1, <2>1 DEF OneOwnerInv, OneVerifiedOwner, OwnersApart
  <2>2. ASSUME NEW n \in Numbers, AnswerNo(n), ~ split' PROVE OwnersApart'
    <3>1. Owners(n) = {} /\ ~ split BY <2>2 DEF AnswerNo
    <3>2. PICK u \in People : Proves(u, n) BY <2>2 DEF AnswerNo, NewOwner
    <3>3. OwnersApart BY <1>1, <3>1 DEF OneOwnerInv, OneVerifiedOwner, OwnersApart
    <3>4. QED BY <3>1, <3>2, <3>3, ProvesApart DEF PhoneInv
  <2>3. QED BY <2>1, <2>2
<1>3. QED BY <1>1, <1>2 DEF OneOwnerInv, OneVerifiedOwner, OwnersApart, Idle

\* Every step keeps both invariants.
LEMMA OwnerNextInv ==
  ASSUME PhoneInv, OneOwnerInv, [PhoneNext]_phoneVars
  PROVE  OneOwnerInv'
<1>1. CASE UNCHANGED phoneVars
  BY <1>1 DEF phoneVars, phoneRows, settlingVars, handlerVars, OneOwnerInv, OneVerifiedOwner,
       Unclaimed, Owners, Idle
<1>2. CASE PhoneNext
  <2>1. Noted BY <1>2 DEF PhoneNext
  <2>2. ASSUME NEW w \in Workers,
               \/ \E u \in People : \/ TypeCode(w, u)
                                   \/ \E n \in Typed : ReadProfile(w, u, n)
               \/ \E n \in Numbers : FirstContact(w, n) \/ AnswerYes(w, n)
               \/ CheckClaim(w) \/ FindCandidate(w) \/ DropPhone(w)
        PROVE  OneOwnerInv'
    BY <2>1, <2>2, ReadsKeepOwners
  <2>3. ASSUME NEW w \in Workers,
               EndVerify(w) \/ WriteProfile(w) \/ CreateOwner(w) \/ LinkOwner(w)
        PROVE  OneOwnerInv'
    BY <2>1, <2>3, WritesKeepOwners
  <2>4. ASSUME NEW n \in Numbers, AnswerNo(n) \/ WithdrawOffer(n) PROVE OneOwnerInv'
    BY <2>1, <2>4, StatementsKeepOwners DEF AnswerNo, WithdrawOffer
  <2>5. ASSUME \/ \E u \in People : \/ RequestPhoneLoginOtp(u) \/ VerifyPhoneLoginOtp(u)
                                   \/ \E n \in Numbers : RequestPhoneOtp(u, n)
               \/ \E i \in 1..Len(codes) : ExpireCode(i)
        PROVE  OneOwnerInv'
    <3>1. UNCHANGED handlerVars /\ UNCHANGED <<phone, verified, split>>
      BY <2>5 DEF RequestPhoneLoginOtp, RequestPhoneOtp, SendCode, VerifyPhoneLoginOtp, ExpireCode
    <3>2. QED BY <2>1, <3>1, StatementsKeepOwners
  <2>6. QED BY <1>2, <2>2, <2>3, <2>4, <2>5 DEF PhoneNext
<1>3. QED BY <1>1, <1>2

\* A number is verified on one account, of all the flows that may verify it in the
\* meantime, for any numbers and accounts and requests one after another.
THEOREM NumbersHaveOneOwner == PhoneSpec => []OneVerifiedOwner
<1>1. PhoneInit => OneOwnerInv
  BY NoneInflight DEF PhoneInit, SettlingInit, OneOwnerInv, OneVerifiedOwner, Idle
<1>2. OneOwnerInv => OneVerifiedOwner BY DEF OneOwnerInv
<1>3. QED BY <1>1, <1>2, PhoneInitInv, PhoneNextInv, OwnerNextInv, PTL DEF PhoneSpec

-----------------------------------------------------------------------------
(* Sessions                                                                 *)

HIDE PhoneAssumption

SessionRow == [token : Nat, prev : Nat, revoked : {"no", "asked", "replay", "deleted"}]

SessionRowsOK ==
  /\ InflightOK
  /\ \A w \in Workers : ~ Idle(w) => inflight[w] \in SessionRequest
  /\ session \in [Logins -> SessionRow]
  /\ stored \in [Browsers -> (Logins \X Nat) \cup {Null}]
  /\ signedOut \subseteq Logins
  /\ raced \in BOOLEAN /\ again \in BOOLEAN /\ died \in BOOLEAN

\* A refresh of session s is under way, a sign-in that made it is, a sign-out of it is.
On(w, s) == Refreshing(w) /\ inflight[w].on = s
Arriving(w, s) == ~ Idle(w) /\ inflight[w].op \in {"trim", "delete", "welcome"} /\ inflight[w].on = s
Leaving(w, s) == Running(w, "logout") /\ inflight[w].on = s

\* Browser b holds a token of session s.
Holds(b, s) == stored[b] # Null /\ stored[b][1] = s

\* Nobody knows a session that was not issued.
Unborn(s) == session[s] = Unissued =>
  /\ s \notin signedOut
  /\ \A w \in Workers : ~ Idle(w) => inflight[w].on # s
  /\ \A b \in Browsers : ~ Holds(b, s)

\* Until its sign-in has answered, its first token is with nobody.
OneArrival(s) == \A w \in Workers : Arriving(w, s) =>
  /\ Exists(s) => session[s].token = 1
  /\ \A b \in Browsers : ~ Holds(b, s)
  /\ \A v \in Workers : v # w => ~ Arriving(v, s) /\ ~ On(v, s)

\* One refresh of it at a time, by the one browser that holds it.
OneRefresh(s) == \A v, w \in Workers : On(v, s) /\ On(w, s) => v = w

OneHolder(s) ==
  /\ \A b, c \in Browsers : Holds(b, s) /\ Holds(c, s) => b = c
  /\ \A w \in Workers, b \in Browsers :
       On(w, s) /\ Holds(b, s) => inflight[w].heard /\ b = Browser[inflight[w].tab]

\* The token that is held is the current one, but while a refresh changes it.
TokensFit(s) ==
  /\ session[s].revoked # "replay"
  /\ Exists(s) => session[s].prev < session[s].token
  /\ \A b \in Browsers : Holds(b, s) /\ Exists(s) /\ (\A w \in Workers : ~ On(w, s)) =>
       session[s].token = stored[b][2]

\* What a refresh under way presents, or answers, is the current token.
RefreshFits(s) == \A w \in Workers : On(w, s) =>
  LET r == inflight[w] IN
  /\ r.op # "revoke"
  /\ Exists(s) /\ (r.op # "answer" \/ r.n # 0) => session[s].token = r.n
  /\ r.op = "answer" /\ r.n = 0 => ~ Live(s)
  /\ \A b \in Browsers : Holds(b, s) /\ Live(s) =>
       stored[b][2] = IF r.op = "answer" THEN session[s].prev ELSE r.n

\* A sign-out under way knows the session by its token or by the one before it, and
\* in the second case no refresh can move the token on.
SignOutFits(s) == ~ again =>
  /\ \A w \in Workers : Leaving(w, s) /\ Live(s) =>
       \/ session[s].token = inflight[w].n
       \/ /\ session[s].prev = inflight[w].n
          /\ \A v \in Workers : On(v, s) => inflight[v].op = "answer"
  /\ ~ died /\ s \in signedOut /\ Live(s) => \E w \in Workers : Leaving(w, s)

Coherent(s) ==
  /\ Unborn(s) /\ OneArrival(s) /\ OneRefresh(s) /\ OneHolder(s)
  /\ TokensFit(s) /\ RefreshFits(s) /\ SignOutFits(s)

SessionInv == SessionRowsOK /\ (~ raced => \A s \in Logins : Coherent(s))


\* The row of session s is as it was, or has ended.
RowStands(s) ==
  /\ Exists(s)' => Exists(s) /\ session'[s].token = session[s].token
                             /\ session'[s].prev = session[s].prev
  /\ Live(s)' => Live(s)
  /\ session'[s] = Unissued => session[s] = Unissued
  /\ session[s].revoked # "replay" => session'[s].revoked # "replay"

\* The ways a row has of ending.
LEMMA RowEnds ==
  ASSUME SessionRowsOK, NEW s \in Logins,
         \/ session'[s] = session[s] \/ session'[s] = Deleted
         \/ Live(s) /\ session'[s] = [session[s] EXCEPT !.revoked = "asked"]
  PROVE  RowStands(s) /\ session'[s] \in SessionRow
<1>1. session[s] \in SessionRow BY DEF SessionRowsOK
<1>2. Deleted \in SessionRow BY DEF Deleted, Unissued, SessionRow
<1>3. CASE session'[s] = session[s] BY <1>1, <1>3 DEF RowStands, Exists, Live
<1>4. CASE session'[s] = Deleted
  BY <1>2, <1>4 DEF RowStands, Exists, Live, Deleted, Unissued
<1>5. CASE Live(s) /\ session'[s] = [session[s] EXCEPT !.revoked = "asked"]
  BY <1>1, <1>5 DEF RowStands, Exists, Live, Unissued, SessionRow
<1>6. QED BY <1>3, <1>4, <1>5

\* What a worker that does not move is doing.
LEMMA SameDoing ==
  ASSUME NEW v \in Workers, inflight'[v] = inflight[v], NEW s \in Logins
  PROVE  /\ On(v, s)' <=> On(v, s)
         /\ Arriving(v, s)' <=> Arriving(v, s)
         /\ Leaving(v, s)' <=> Leaving(v, s)
BY DEF On, Arriving, Leaving, Refreshing, Running, Idle

\* What a worker with a request of another session, or with none, is not doing.
LEMMA NotDoing ==
  ASSUME NEW v \in Workers, NEW s \in Logins, inflight[v] # Null => inflight[v].on # s
  PROVE  ~ On(v, s) /\ ~ Arriving(v, s) /\ ~ Leaving(v, s)
BY DEF On, Arriving, Leaving, Refreshing, Running, Idle

\* A session that a step does not use, or ends, stays coherent.
LEMMA BystandingSession ==
  ASSUME NEW q \in Logins, Coherent(q), RowStands(q),
         \A v \in Workers : \/ inflight'[v] = inflight[v]
                           \/ /\ inflight[v] # Null => inflight[v].on # q
                              /\ inflight'[v] # Null => inflight'[v].on # q,
         \A b \in Browsers : Holds(b, q)' => Holds(b, q) /\ stored'[b] = stored[b],
         q \in signedOut' => q \in signedOut, again => again', died => died'
  PROVE  Coherent(q)'
<1>1. \A v \in Workers : /\ On(v, q)' <=> On(v, q)
                         /\ Arriving(v, q)' <=> Arriving(v, q)
                         /\ Leaving(v, q)' <=> Leaving(v, q)
  <2>1. TAKE v \in Workers
  <2>2. CASE inflight'[v] = inflight[v] BY <2>2, SameDoing
  <2>3. CASE /\ inflight[v] # Null => inflight[v].on # q
             /\ inflight'[v] # Null => inflight'[v].on # q
    <3>1. ~ On(v, q) /\ ~ Arriving(v, q) /\ ~ Leaving(v, q) BY <2>3, NotDoing
    <3>2. ~ On(v, q)' /\ ~ Arriving(v, q)' /\ ~ Leaving(v, q)'
      BY <2>3 DEF On, Arriving, Leaving, Refreshing, Running, Idle
    <3>3. QED BY <3>1, <3>2
  <2>4. QED BY <2>2, <2>3
<1>2. \A v \in Workers : On(v, q) \/ Leaving(v, q) => inflight'[v] = inflight[v]
  BY NotDoing
<1>3. Unborn(q)'
  BY DEF Coherent, Unborn, Idle, RowStands
<1>4. OneArrival(q)' BY <1>1 DEF Coherent, OneArrival, RowStands
<1>5. OneRefresh(q)' BY <1>1 DEF Coherent, OneRefresh
<1>6. OneHolder(q)' BY <1>1, <1>2 DEF Coherent, OneHolder
<1>7. TokensFit(q)'
  <2>1. TokensFit(q) BY DEF Coherent
  <2>2. session'[q].revoked # "replay" BY <2>1 DEF TokensFit, RowStands
  <2>3. Exists(q)' => session'[q].prev < session'[q].token BY <2>1 DEF TokensFit, RowStands
  <2>4. ASSUME NEW b \in Browsers, Holds(b, q)', Exists(q)', \A w \in Workers : ~ On(w, q)'
        PROVE  session'[q].token = stored'[b][2]
    BY <1>1, <2>1, <2>4 DEF TokensFit, RowStands
  <2>5. QED BY <2>2, <2>3, <2>4 DEF TokensFit
<1>8. RefreshFits(q)'
  <2>1. ASSUME NEW w \in Workers, On(w, q)'
        PROVE  LET r == inflight'[w] IN
                 /\ r.op # "revoke"
                 /\ Exists(q)' /\ (r.op # "answer" \/ r.n # 0) => session'[q].token = r.n
                 /\ r.op = "answer" /\ r.n = 0 => ~ Live(q)'
                 /\ \A b \in Browsers : Holds(b, q)' /\ Live(q)' =>
                      stored'[b][2] = IF r.op = "answer" THEN session'[q].prev ELSE r.n
    <3>1. On(w, q) /\ inflight'[w] = inflight[w] BY <1>1, <1>2, <2>1
    <3>2. RefreshFits(q) BY DEF Coherent
    <3>3. Live(q)' => Exists(q)' BY DEF Live
    <3>4. QED BY <3>1, <3>2, <3>3 DEF RefreshFits, RowStands
  <2>2. QED BY <2>1 DEF RefreshFits
<1>9. SignOutFits(q)'
  <2>1. SignOutFits(q) /\ (Live(q)' => Exists(q)') BY DEF Coherent, Live
  <2>2. QED BY <1>1, <1>2, <2>1 DEF SignOutFits, RowStands
<1>10. QED BY <1>3, <1>4, <1>5, <1>6, <1>7, <1>8, <1>9 DEF Coherent

\* A step on session s of a worker leaves the other sessions coherent.
LEMMA OtherSessions ==
  ASSUME SessionRowsOK, \A q \in Logins : Coherent(q),
         NEW s \in Logins, NEW w \in Workers,
         inflight[w] # Null => inflight[w].on = s,
         inflight'[w] # Null => inflight'[w].on = s,
         \A v \in Workers \ {w} : inflight'[v] = inflight[v],
         \A q \in Logins \ {s} : session'[q] = session[q] \/ session'[q] = Deleted,
         \A b \in Browsers : \/ stored'[b] = stored[b] \/ stored'[b] = Null
                             \/ stored'[b][1] = s,
         signedOut' \subseteq signedOut \cup {s}, again => again', died => died',
         Coherent(s)'
  PROVE  \A q \in Logins : Coherent(q)'
<1>1. TAKE q \in Logins
<1>2. CASE q = s BY <1>2
<1>3. CASE q # s
  <2>1. RowStands(q) BY <1>3, RowEnds
  <2>2. \A b \in Browsers : Holds(b, q)' => Holds(b, q) /\ stored'[b] = stored[b]
    BY <1>3 DEF Holds
  <2>3. \A v \in Workers : \/ inflight'[v] = inflight[v]
                           \/ /\ inflight[v] # Null => inflight[v].on # q
                              /\ inflight'[v] # Null => inflight'[v].on # q
    BY <1>3
  <2>4. QED BY <1>3, <2>1, <2>2, <2>3, BystandingSession
<1>4. QED BY <1>2, <1>3

\* The request a worker is at.
LEMMA AtWork ==
  ASSUME SessionRowsOK, NEW w \in Workers, inflight[w] # Null
  PROVE  LET r == inflight[w] IN
           /\ r \in SessionRequest /\ r.op \in SessionOps /\ r.on \in Logins
           /\ r.tab \in Tabs /\ r.n \in Nat /\ r.heard \in BOOLEAN
           /\ Browser[r.tab] \in Browsers
BY DEF SessionRowsOK, Idle, SessionRequest

\* The types after a step that leaves worker w with r.
LEMMA SessionStep ==
  ASSUME SessionRowsOK, NEW w \in Workers, NEW r, Takes(w, r), r = Null \/ r \in SessionRequest,
         session' \in [Logins -> SessionRow],
         stored' \in [Browsers -> (Logins \X Nat) \cup {Null}],
         signedOut' \subseteq Logins,
         raced' \in BOOLEAN, again' \in BOOLEAN, died' \in BOOLEAN
  PROVE  /\ SessionRowsOK'
         /\ \A v \in Workers : inflight'[v] = IF v = w THEN r ELSE inflight[v]
<1>1. InflightOK' /\ \A v \in Workers : inflight'[v] = IF v = w THEN r ELSE inflight[v]
  BY GoesOn, Ends DEF SessionRowsOK, Takes
<1>2. QED BY <1>1 DEF SessionRowsOK, Idle

\* What the storage of a tab holds.
LEMMA StoredToken ==
  ASSUME SessionRowsOK, NEW tab \in Tabs, stored[Browser[tab]] # Null
  PROVE  \E s \in Logins, n \in Nat : stored[Browser[tab]] = <<s, n>>
<1>1. stored[Browser[tab]] \in Logins \X Nat BY DEF SessionRowsOK
<1>2. /\ stored[Browser[tab]][1] \in Logins /\ stored[Browser[tab]][2] \in Nat
      /\ stored[Browser[tab]] = <<stored[Browser[tab]][1], stored[Browser[tab]][2]>>
  BY <1>1
<1>3. QED BY <1>2

-----------------------------------------------------------------------------
\* A browser sends its token: it is the current one, and nobody else is refreshing.
LEMMA SendRefreshInv ==
  ASSUME SessionInv, NEW w \in Workers, NEW tab \in Tabs, SendRefresh(w, tab)
  PROVE  SessionInv'
<1> DEFINE b0 == Browser[tab]
<1>0. PICK s \in Logins, n \in Nat : stored[b0] = <<s, n>>
  BY StoredToken DEF SessionInv, SendRefresh
<1> DEFINE r == SessionReq("replaced?", s, tab, n)
<1>1. SessionRowsOK /\ b0 \in Browsers /\ Holds(b0, s) /\ stored[b0][2] = n
  BY <1>0 DEF SessionInv, SendRefresh, Holds
<1>2. /\ r \in SessionRequest /\ r # Null /\ r.op = "replaced?" /\ r.on = s /\ r.tab = tab
      /\ r.n = n /\ r.heard = TRUE
  <2>1. r \in SessionRequest
    BY <1>0 DEF SessionReq, SessionRequest, SessionOps, RefreshOps
  <2>2. QED BY <2>1, SessionRequestAssumption DEF SessionReq
<1> HIDE DEF r
<1>3. /\ Takes(w, r) /\ MayRefresh(tab)
      /\ UNCHANGED <<session, stored, died>> /\ signedOut' = signedOut
      /\ raced' = (raced \/ \E v \in Workers : Refreshing(v) /\ inflight[v].on = s
                                              /\ inflight[v].tab # tab)
      /\ again' = (again \/ \E v \in Workers : Running(v, "logout") /\ inflight[v].on = s)
      /\ inflight[w] = Null
  BY <1>0 DEF SendRefresh, Takes, Begin, Idle, r
<1>4. SessionRowsOK' /\ \A v \in Workers : inflight'[v] = IF v = w THEN r ELSE inflight[v]
  <2>1. raced' \in BOOLEAN /\ again' \in BOOLEAN /\ died' \in BOOLEAN
    BY <1>1, <1>3 DEF SessionRowsOK
  <2>2. QED BY <1>1, <1>2, <1>3, <2>1, SessionStep DEF SessionRowsOK
<1>5. ASSUME ~ raced' PROVE \A q \in Logins : Coherent(q)'
  <2>1. \A q \in Logins : Coherent(q) BY <1>3, <1>5 DEF SessionInv
  <2>2. Unborn(s) /\ OneArrival(s) /\ OneRefresh(s) /\ OneHolder(s)
        /\ TokensFit(s) /\ RefreshFits(s) /\ SignOutFits(s)
    BY <1>1, <2>1 DEF Coherent
  <2>3. \A v \in Workers : ~ On(v, s)
    <3>1. ASSUME NEW v \in Workers, On(v, s) PROVE FALSE
      <4>1. Refreshing(v) /\ inflight[v].on = s /\ inflight[v].tab = tab
        BY <1>3, <1>5, <3>1 DEF On
      <4>2. inflight[v].heard BY <1>1, <2>2, <3>1 DEF OneHolder
      <4>3. QED BY <1>3, <4>1, <4>2 DEF MayRefresh
    <3>2. QED BY <3>1
  <2>4. /\ On(w, s)' /\ ~ Arriving(w, s)' /\ ~ Leaving(w, s)' /\ ~ Leaving(w, s)
        /\ inflight'[w] = r
    BY <1>2, <1>3, <1>4 DEF On, Arriving, Leaving, Refreshing, Running, Idle, RefreshOps
  <2>5. \A v \in Workers \ {w} : /\ ~ On(v, s)' /\ inflight'[v] = inflight[v]
                                 /\ Arriving(v, s)' <=> Arriving(v, s)
                                 /\ Leaving(v, s)' <=> Leaving(v, s)
    <3>1. \A v \in Workers \ {w} : inflight'[v] = inflight[v] BY <1>4
    <3>2. QED BY <2>3, <3>1, SameDoing
  <2>6. \A b \in Browsers : (Holds(b, s)' <=> Holds(b, s)) /\ (Holds(b, s) => b = b0)
    BY <1>1, <1>3, <2>2 DEF OneHolder, Holds
  <2>7. (Exists(s)' <=> Exists(s)) /\ (Live(s)' <=> Live(s)) /\ session' = session
    BY <1>3 DEF Exists, Live
  <2>8. Unborn(s)' BY <1>1, <2>2, <2>7 DEF Unborn
  <2>9. OneArrival(s)' BY <1>1, <2>2, <2>4, <2>5 DEF OneArrival
  <2>10. OneRefresh(s)' BY <2>5 DEF OneRefresh
  <2>11. OneHolder(s)' BY <1>2, <2>4, <2>5, <2>6 DEF OneHolder
  <2>12. TokensFit(s)'
    <3>1. TokensFit(s) /\ On(w, s)' BY <2>2, <2>4
    <3>2. QED BY <2>7, <3>1 DEF TokensFit
  <2>13. RefreshFits(s)'
    <3>1. Exists(s) => session[s].token = n BY <1>1, <2>2, <2>3 DEF TokensFit
    <3>2. \A v \in Workers : On(v, s)' => inflight'[v] = r BY <2>4, <2>5
    <3>3. \A b \in Browsers : Holds(b, s)' => stored'[b][2] = n BY <1>1, <1>3, <2>6
    <3>4. QED BY <1>2, <2>7, <3>1, <3>2, <3>3 DEF RefreshFits
  <2>14. SignOutFits(s)'
    <3>1. ~ again' => ~ again /\ \A v \in Workers : ~ Leaving(v, s) BY <1>3 DEF Leaving
    <3>2. QED BY <1>3, <2>2, <2>4, <2>5, <2>7, <3>1 DEF SignOutFits
  <2>15. Coherent(s)'
    BY <2>8, <2>9, <2>10, <2>11, <2>12, <2>13, <2>14 DEF Coherent
  <2>16. QED
    <3>1. /\ died' = died /\ signedOut' = signedOut /\ (again => again')
          /\ inflight[w] = Null /\ inflight'[w].on = s
      BY <1>2, <1>3, <1>4
    <3>2. \A b \in Browsers : stored'[b] = stored[b] BY <1>3
    <3>3. QED BY <1>1, <1>4, <2>1, <2>7, <2>15, <3>1, <3>2, OtherSessions
<1>6. QED BY <1>4, <1>5 DEF SessionInv

-----------------------------------------------------------------------------
\* What the others are doing does not change.
LEMMA OthersDo ==
  ASSUME NEW w \in Workers, NEW r, NEW s \in Logins,
         \A v \in Workers : inflight'[v] = IF v = w THEN r ELSE inflight[v]
  PROVE  /\ inflight'[w] = r
         /\ \A v \in Workers \ {w} : /\ inflight'[v] = inflight[v]
                                     /\ On(v, s)' <=> On(v, s)
                                     /\ Arriving(v, s)' <=> Arriving(v, s)
                                     /\ Leaving(v, s)' <=> Leaving(v, s)
BY SameDoing

\* While a session is being refreshed it exists to its user, nobody is arriving with
\* it, and no other worker refreshes it.
LEMMA WhileOn ==
  ASSUME NEW s \in Logins, Coherent(s), NEW w \in Workers, On(w, s)
  PROVE  /\ session[s] # Unissued
         /\ \A v \in Workers : ~ Arriving(v, s) /\ (On(v, s) => v = w)
         /\ ~ Leaving(w, s)
<1>1. ~ Idle(w) /\ inflight[w].on = s /\ inflight[w].op \in RefreshOps
  BY DEF On, Refreshing
<1>2. session[s] # Unissued BY <1>1 DEF Coherent, Unborn
<1>3. ~ Arriving(w, s) /\ ~ Leaving(w, s)
  BY <1>1 DEF Arriving, Leaving, Running, RefreshOps
<1>4. \A v \in Workers : ~ Arriving(v, s) BY <1>3 DEF Coherent, OneArrival
<1>5. QED BY <1>2, <1>3, <1>4 DEF Coherent, OneRefresh

\* A look-up, or the failure of a refresh of a session that has ended.
LEMMA LookUpCoherent ==
  ASSUME SessionRowsOK, \A q \in Logins : Coherent(q),
         NEW s \in Logins, NEW w \in Workers, On(w, s), On(w, s)',
         inflight'[w].tab = inflight[w].tab, inflight'[w].heard = inflight[w].heard,
         \/ /\ inflight[w].op # "answer" /\ inflight'[w].op \notin {"answer", "revoke"}
            /\ inflight'[w].n = inflight[w].n
         \/ inflight'[w].op = "answer" /\ inflight'[w].n = 0 /\ ~ Live(s),
         \A v \in Workers \ {w} : inflight'[v] = inflight[v],
         session' = session, stored' = stored, signedOut' = signedOut,
         again' = again, died' = died
  PROVE  \A q \in Logins : Coherent(q)'
<1> DEFINE r == inflight'[w]
<1>0. \A v \in Workers : inflight'[v] = IF v = w THEN r ELSE inflight[v]
  OBVIOUS
<1>1. /\ inflight'[w] = r
      /\ \A v \in Workers \ {w} : /\ inflight'[v] = inflight[v] /\ ~ On(v, s)'
                                  /\ Leaving(v, s)' <=> Leaving(v, s)
      /\ \A v \in Workers : ~ Arriving(v, s)' /\ (On(v, s)' => v = w)
      /\ On(w, s)' /\ ~ Leaving(w, s)' /\ ~ Leaving(w, s) /\ session[s] # Unissued
  <2>1. On(w, s)' /\ ~ Leaving(w, s)' /\ ~ Arriving(w, s)' /\ inflight'[w] = r
    BY DEF On, Arriving, Leaving, Refreshing, Running, Idle, RefreshOps
  <2>2. QED BY <1>0, <2>1, OthersDo, WhileOn
<1>2. /\ (Exists(s)' <=> Exists(s)) /\ (Live(s)' <=> Live(s)) /\ session'[s] = session[s]
      /\ \A b \in Browsers : (Holds(b, s)' <=> Holds(b, s)) /\ stored'[b] = stored[b]
  BY DEF Exists, Live, Holds
<1>3. Coherent(s) BY DEF Coherent
<1>4. Unborn(s)' BY <1>1, <1>2 DEF Unborn
<1>5. OneArrival(s)' BY <1>1 DEF OneArrival
<1>6. OneRefresh(s)' BY <1>1 DEF OneRefresh
<1>7. OneHolder(s)' BY <1>1, <1>2, <1>3 DEF Coherent, OneHolder
<1>8. TokensFit(s)' BY <1>1, <1>2, <1>3 DEF Coherent, TokensFit
<1>9. RefreshFits(s)'
  <2>1. RefreshFits(s) BY <1>3 DEF Coherent
  <2>2. Live(s) => Exists(s) BY DEF Live
  <2>3. CASE r.op = "answer" /\ r.n = 0 /\ ~ Live(s) BY <1>1, <1>2, <2>3 DEF RefreshFits
  <2>4. CASE /\ inflight[w].op # "answer" /\ r.op \notin {"answer", "revoke"}
             /\ r.n = inflight[w].n
    <3>1. /\ Exists(s) => session[s].token = r.n
          /\ \A b \in Browsers : Holds(b, s) /\ Live(s) => stored[b][2] = r.n
      BY <2>1, <2>4 DEF RefreshFits
    <3>2. QED BY <1>1, <1>2, <2>4, <3>1 DEF RefreshFits
  <2>5. QED BY <2>3, <2>4
<1>10. SignOutFits(s)'
  BY <1>1, <1>2, <1>3 DEF Coherent, SignOutFits
<1>11. Coherent(s)'
  BY <1>4, <1>5, <1>6, <1>7, <1>8, <1>9, <1>10 DEF Coherent
<1>12. QED
  <2>1. /\ inflight[w].on = s /\ r.on = s /\ signedOut' \subseteq signedOut \cup {s}
        /\ (again => again') /\ (died => died')
    BY DEF On, Refreshing
  <2>2. QED BY <1>0, <1>2, <1>11, <2>1, OtherSessions

\* The refresh a worker is at.
LEMMA AtRefresh ==
  ASSUME SessionRowsOK, NEW w \in Workers, NEW o \in RefreshOps, Running(w, o)
  PROVE  /\ inflight[w] \in SessionRequest /\ inflight[w] # Null /\ inflight[w].op = o
         /\ inflight[w].on \in Logins /\ inflight[w].n \in Nat
         /\ inflight[w].tab \in Tabs /\ inflight[w].heard \in BOOLEAN
         /\ On(w, inflight[w].on)
         /\ session[inflight[w].on] \in SessionRow
BY AtWork DEF Running, On, Refreshing, Idle, SessionRowsOK

\* The request that fails.
LEMMA Failed ==
  ASSUME NEW r \in SessionRequest
  PROVE  LET x == [r EXCEPT !.op = "answer", !.n = 0] IN
           /\ x \in SessionRequest /\ x # Null /\ x.op = "answer" /\ x.n = 0
           /\ x.on = r.on /\ x.tab = r.tab /\ x.heard = r.heard
<1> DEFINE x == [r EXCEPT !.op = "answer", !.n = 0]
<1>1. x \in SessionRequest BY DEF SessionRequest, SessionOps, RefreshOps
<1>2. QED BY <1>1, SessionRequestAssumption DEF SessionRequest

\* First look-up: a token that is current is not one that was replaced.
LEMMA LookUpReplacedInv ==
  ASSUME SessionInv, NEW w \in Workers, LookUpReplaced(w)
  PROVE  SessionInv'
<1> DEFINE s == inflight[w].on
           o == IF Live(s) /\ session[s].prev = inflight[w].n THEN "revoke" ELSE "find"
           r == [inflight[w] EXCEPT !.op = o]
<1>1. SessionRowsOK /\ inflight[w] \in SessionRequest /\ inflight[w].op = "replaced?"
      /\ inflight[w] # Null /\ On(w, s) /\ s \in Logins
  BY AtRefresh DEF SessionInv, LookUpReplaced, RefreshOps
<1>2. /\ r \in SessionRequest /\ r # Null /\ r.op = o /\ r.on = s
      /\ r.tab = inflight[w].tab /\ r.heard = inflight[w].heard /\ r.n = inflight[w].n
  BY <1>1, SessionRequestAssumption DEF SessionRequest, SessionOps, RefreshOps
<1>3. Takes(w, r) /\ UNCHANGED <<sessionRows, died>>
  BY DEF LookUpReplaced, Takes
<1> HIDE DEF r
<1>4. SessionRowsOK' /\ \A v \in Workers : inflight'[v] = IF v = w THEN r ELSE inflight[v]
  BY <1>1, <1>2, <1>3, SessionStep DEF sessionRows, SessionRowsOK
<1>5. ASSUME ~ raced' PROVE \A q \in Logins : Coherent(q)'
  <2>1. \A q \in Logins : Coherent(q) BY <1>3, <1>5 DEF SessionInv, sessionRows
  <2>2. o = "find"
    <3>1. RefreshFits(s) /\ TokensFit(s) BY <1>1, <2>1 DEF Coherent
    <3>2. Live(s) => session[s].token = inflight[w].n /\ session[s].prev < session[s].token
      BY <1>1, <3>1 DEF RefreshFits, TokensFit, Live
    <3>3. session[s].prev \in Nat /\ session[s].token \in Nat
      BY <1>1 DEF SessionRowsOK, SessionRow
    <3>4. ~ (Live(s) /\ session[s].prev = inflight[w].n) BY <3>2, <3>3
    <3>5. QED BY <3>4
  <2>3. r.op \in RefreshOps /\ r.op \notin {"answer", "revoke"} BY <1>2, <2>2 DEF RefreshOps
  <2>4. On(w, s)' /\ inflight'[w] = r /\ inflight[w].op # "answer"
    BY <1>1, <1>2, <1>4, <2>3 DEF On, Refreshing, Idle
  <2>5. QED BY <1>1, <1>2, <1>3, <1>4, <2>1, <2>3, <2>4, LookUpCoherent DEF sessionRows
<1>6. QED BY <1>4, <1>5 DEF SessionInv

\* Second look-up: the token is that of the session, unless the session has ended.
LEMMA FindSessionInv ==
  ASSUME SessionInv, NEW w \in Workers, FindSession(w)
  PROVE  SessionInv'
<1> DEFINE s == inflight[w].on
           found == Live(s) /\ session[s].token = inflight[w].n
           r == IF found THEN [inflight[w] EXCEPT !.op = "rotate"]
                         ELSE [inflight[w] EXCEPT !.op = "answer", !.n = 0]
<1>1. SessionRowsOK /\ inflight[w] \in SessionRequest /\ inflight[w].op = "find"
      /\ inflight[w] # Null /\ On(w, s) /\ s \in Logins
  BY AtRefresh DEF SessionInv, FindSession, RefreshOps
<1>2. /\ r \in SessionRequest /\ r # Null /\ r.on = s /\ r.op \in {"rotate", "answer"}
      /\ r.tab = inflight[w].tab /\ r.heard = inflight[w].heard
      /\ found => r.op = "rotate" /\ r.n = inflight[w].n
      /\ ~ found => r.op = "answer" /\ r.n = 0
  <2>1. CASE found
    BY <1>1, <2>1, SessionRequestAssumption DEF SessionRequest, SessionOps, RefreshOps
  <2>2. CASE ~ found BY <1>1, <2>2, Failed
  <2>3. QED BY <2>1, <2>2
<1>3. Takes(w, r) /\ UNCHANGED <<sessionRows, died>>
  BY DEF FindSession, Takes
<1> HIDE DEF r
<1>4. SessionRowsOK' /\ \A v \in Workers : inflight'[v] = IF v = w THEN r ELSE inflight[v]
  BY <1>1, <1>2, <1>3, SessionStep DEF sessionRows, SessionRowsOK
<1>5. ASSUME ~ raced' PROVE \A q \in Logins : Coherent(q)'
  <2>1. \A q \in Logins : Coherent(q) BY <1>3, <1>5 DEF SessionInv, sessionRows
  <2>2. found \/ ~ Live(s)
    <3>1. RefreshFits(s) BY <1>1, <2>1 DEF Coherent
    <3>2. QED BY <1>1, <3>1 DEF RefreshFits, Live
  <2>3. r.op \in RefreshOps BY <1>2 DEF RefreshOps
  <2>4. On(w, s)' /\ inflight'[w] = r
    BY <1>1, <1>2, <1>4, <2>3 DEF On, Refreshing, Idle
  <2>5. \/ /\ inflight[w].op # "answer" /\ r.op \notin {"answer", "revoke"}
           /\ r.n = inflight[w].n
        \/ r.op = "answer" /\ r.n = 0 /\ ~ Live(s)
    BY <1>1, <1>2, <2>2
  <2>6. QED BY <1>1, <1>2, <1>3, <1>4, <2>1, <2>4, <2>5, LookUpCoherent DEF sessionRows
<1>6. QED BY <1>4, <1>5 DEF SessionInv

\* While no token was sent twice, none is taken for a replay.
LEMMA RevokeReplayedInv ==
  ASSUME SessionInv, NEW w \in Workers, RevokeReplayed(w)
  PROVE  SessionInv'
<1> DEFINE s == inflight[w].on
           r == [inflight[w] EXCEPT !.op = "answer", !.n = 0]
           row == [session[s] EXCEPT !.revoked = IF Live(s) THEN "replay" ELSE @]
<1>1. SessionRowsOK /\ inflight[w] \in SessionRequest /\ inflight[w].op = "revoke"
      /\ On(w, s) /\ s \in Logins /\ session[s] \in SessionRow
  BY AtRefresh DEF SessionInv, RevokeReplayed, RefreshOps
<1>2. r \in SessionRequest BY <1>1, Failed
<1>3. row \in SessionRow BY <1>1 DEF SessionRow
<1>4. /\ Takes(w, r) /\ UNCHANGED <<since, stored, signedOut, raced, again, died>>
      /\ session' = [session EXCEPT ![s] = row]
  BY <1>1 DEF RevokeReplayed, Takes, SessionRowsOK
<1> HIDE DEF r, row
<1>5. SessionRowsOK'
  <2>1. session' \in [Logins -> SessionRow] BY <1>1, <1>3, <1>4 DEF SessionRowsOK
  <2>2. QED BY <1>1, <1>2, <1>4, <2>1, SessionStep DEF SessionRowsOK
<1>6. raced'
  <2>1. ASSUME ~ raced PROVE FALSE
    BY <1>1, <2>1 DEF SessionInv, Coherent, RefreshFits
  <2>2. QED BY <1>4, <2>1
<1>7. QED BY <1>5, <1>6 DEF SessionInv

\* The token moves on with the answer that carries it; the browser still has the
\* one before it, and so may a sign-out.
LEMMA RotatedCoherent ==
  ASSUME SessionRowsOK, \A q \in Logins : Coherent(q),
         NEW s \in Logins, NEW w \in Workers, On(w, s), On(w, s)', Exists(s),
         inflight[w].op = "rotate", inflight'[w].op = "answer",
         inflight'[w].tab = inflight[w].tab, inflight'[w].heard = inflight[w].heard,
         inflight'[w].n = session[s].token + 1,
         session'[s].token = session[s].token + 1, session'[s].prev = inflight[w].n,
         session'[s].revoked = session[s].revoked,
         \A q \in Logins \ {s} : session'[q] = session[q],
         \A v \in Workers \ {w} : inflight'[v] = inflight[v],
         stored' = stored, signedOut' = signedOut, again' = again, died' = died
  PROVE  \A q \in Logins : Coherent(q)'
<1> DEFINE r == inflight'[w]
<1>1. \A v \in Workers : inflight'[v] = IF v = w THEN r ELSE inflight[v]
  OBVIOUS
<1>2. /\ \A v \in Workers \ {w} : /\ inflight'[v] = inflight[v] /\ ~ On(v, s)'
                                  /\ Leaving(v, s)' <=> Leaving(v, s)
      /\ \A v \in Workers : ~ Arriving(v, s)' /\ (On(v, s)' => v = w)
      /\ ~ Leaving(w, s)' /\ session[s] # Unissued
  <2>1. ~ Leaving(w, s)' /\ ~ Arriving(w, s)'
    BY DEF On, Arriving, Leaving, Refreshing, Running, Idle, RefreshOps
  <2>2. /\ session[s] # Unissued
        /\ \A v \in Workers : ~ Arriving(v, s) /\ (On(v, s) => v = w)
    BY WhileOn
  <2>3. \A v \in Workers \ {w} : /\ inflight'[v] = inflight[v]
                                 /\ On(v, s)' <=> On(v, s)
                                 /\ Arriving(v, s)' <=> Arriving(v, s)
                                 /\ Leaving(v, s)' <=> Leaving(v, s)
    <3> HIDE DEF r
    <3>1. QED BY <1>1, OthersDo
  <2>4. \A v \in Workers : v = w \/ v \in Workers \ {w} OBVIOUS
  <2>5. QED BY <2>1, <2>2, <2>3, <2>4
<1>3. Coherent(s) /\ session[s].token \in Nat BY DEF Coherent, SessionRowsOK, SessionRow
<1>4. /\ session[s].token = inflight[w].n /\ session'[s].prev = session[s].token
      /\ session'[s].token # 0 /\ session'[s].prev < session'[s].token
  <2>1. session[s].token = inflight[w].n BY <1>3 DEF Coherent, RefreshFits
  <2>2. QED BY <1>3, <2>1
<1>5. /\ Exists(s)' /\ (Live(s)' <=> Live(s)) /\ session'[s] # Unissued
      /\ \A b \in Browsers : (Holds(b, s)' <=> Holds(b, s)) /\ stored'[b] = stored[b]
  BY <1>4 DEF Exists, Live, Holds, Unissued
<1>6. Unborn(s)' BY <1>5 DEF Unborn
<1>7. OneArrival(s)' BY <1>2 DEF OneArrival
<1>8. OneRefresh(s)' BY <1>2 DEF OneRefresh
<1>9. OneHolder(s)' BY <1>2, <1>3, <1>5 DEF Coherent, OneHolder
<1>10. TokensFit(s)' BY <1>3, <1>4 DEF Coherent, TokensFit
<1>11. RefreshFits(s)'
  <2>1. \A b \in Browsers : Holds(b, s) /\ Live(s) => stored[b][2] = inflight[w].n
    BY <1>3 DEF Coherent, RefreshFits
  <2>2. r.n # 0 /\ r.n = session'[s].token BY <1>3
  <2>3. QED BY <1>2, <1>4, <1>5, <2>1, <2>2 DEF RefreshFits
<1>12. SignOutFits(s)'
  <2>1. SignOutFits(s) /\ inflight[w].op # "answer" BY <1>3 DEF Coherent
  <2>2. ASSUME NEW v \in Workers, Leaving(v, s)', Live(s)', ~ again
        PROVE  session'[s].prev = inflight'[v].n
    <3>1. Leaving(v, s) /\ inflight'[v] = inflight[v] /\ Live(s) BY <1>2, <1>5, <2>2
    <3>2. QED BY <1>4, <2>1, <2>2, <3>1 DEF SignOutFits
  <2>3. \A v \in Workers : Leaving(v, s) => Leaving(v, s)' BY <1>2, WhileOn
  <2>4. QED BY <1>2, <1>5, <2>1, <2>2, <2>3 DEF SignOutFits
<1>13. Coherent(s)'
  BY <1>6, <1>7, <1>8, <1>9, <1>10, <1>11, <1>12 DEF Coherent
<1>14. QED
  <2>1. /\ inflight[w].on = s /\ r.on = s /\ signedOut' \subseteq signedOut \cup {s}
        /\ (again => again') /\ (died => died')
    BY DEF On, Refreshing
  <2>2. QED BY <1>1, <1>5, <1>13, <2>1, OtherSessions

\* The session's row is written, if it is still there.
LEMMA RotateInv ==
  ASSUME SessionInv, NEW w \in Workers, Rotate(w)
  PROVE  SessionInv'
<1> DEFINE s == inflight[w].on
           next == session[s].token + 1
           there == Exists(s)
           row == [session[s] EXCEPT !.token = next, !.prev = inflight[w].n]
           r == [inflight[w] EXCEPT !.op = "answer", !.n = IF there THEN next ELSE 0]
<1>1. SessionRowsOK /\ inflight[w] \in SessionRequest /\ inflight[w].op = "rotate"
      /\ inflight[w] # Null /\ On(w, s) /\ s \in Logins
  BY AtRefresh DEF SessionInv, Rotate, RefreshOps
<1>2. /\ row \in SessionRow /\ row.token = next /\ row.prev = inflight[w].n
      /\ row.revoked = session[s].revoked /\ next \in Nat
  <2>1. session[s] \in SessionRow /\ inflight[w].n \in Nat
    BY <1>1 DEF SessionRowsOK, SessionRequest
  <2>2. next \in Nat BY <2>1 DEF SessionRow
  <2>3. QED BY <2>1, <2>2 DEF SessionRow
<1>3. /\ r \in SessionRequest /\ r # Null /\ r.op = "answer" /\ r.on = s
      /\ r.tab = inflight[w].tab /\ r.heard = inflight[w].heard
      /\ (there => r.n = next) /\ (~ there => r.n = 0)
  <2>1. r \in SessionRequest BY <1>1, <1>2 DEF SessionRequest, SessionOps, RefreshOps
  <2>2. QED BY <1>1, <2>1, SessionRequestAssumption DEF SessionRequest
<1>4. /\ Takes(w, r) /\ stored' = stored /\ signedOut' = signedOut
      /\ raced' = raced /\ again' = again /\ died' = died
      /\ there => session' = [session EXCEPT ![s] = row]
      /\ ~ there => session' = session
  BY <1>1 DEF Rotate, Takes, SessionRowsOK
<1>5. On(w, s)' /\ inflight'[w] = r
  BY <1>1, <1>3, <1>4 DEF Takes, Begin, Reread, CommitThen, CommitFirst, SessionRowsOK,
     InflightOK, On, Refreshing, Idle, RefreshOps
<1> HIDE DEF r, row, there
<1>6. SessionRowsOK' /\ \A v \in Workers : inflight'[v] = IF v = w THEN r ELSE inflight[v]
  <2>1. session' \in [Logins -> SessionRow] BY <1>1, <1>2, <1>4 DEF SessionRowsOK
  <2>2. QED BY <1>1, <1>3, <1>4, <2>1, SessionStep DEF SessionRowsOK
<1>7. ASSUME ~ raced' PROVE \A q \in Logins : Coherent(q)'
  <2>1. \A q \in Logins : Coherent(q) BY <1>4, <1>7 DEF SessionInv
  <2>2. CASE there
    <3>1. /\ session'[s] = row /\ \A q \in Logins \ {s} : session'[q] = session[q]
          /\ Exists(s)
      BY <1>1, <1>4, <2>2 DEF SessionRowsOK, there
    <3>2. QED
      BY <1>1, <1>2, <1>3, <1>4, <1>5, <1>6, <2>1, <2>2, <3>1, RotatedCoherent
  <2>3. CASE ~ there
    <3>1. ~ Live(s) /\ session' = session BY <1>4, <2>3 DEF Live, there
    <3>2. QED BY <1>1, <1>3, <1>4, <1>5, <1>6, <2>1, <2>3, <3>1, LookUpCoherent
  <2>4. QED BY <2>2, <2>3
<1>8. QED BY <1>6, <1>7 DEF SessionInv

-----------------------------------------------------------------------------
\* A worker leaves session s alone from now on, and its browser holds no token of
\* it any more, unless it is the current one and has just been answered.
LEMMA AnswerCoherent ==
  ASSUME SessionRowsOK, \A q \in Logins : Coherent(q),
         NEW s \in Logins, NEW w \in Workers, On(w, s),
         NEW b0 \in Browsers, b0 = Browser[inflight[w].tab],
         ~ On(w, s)', ~ Arriving(w, s)', ~ Leaving(w, s)',
         \A v \in Workers \ {w} : inflight'[v] = inflight[v],
         \A b \in Browsers \ {b0} : stored'[b] = stored[b],
         Holds(b0, s)' => (Exists(s) => session[s].token = stored'[b0][2]),
         ~ inflight[w].heard => ~ Holds(b0, s)',
         UNCHANGED <<session, signedOut, again>>, died => died'
  PROVE  Coherent(s)'
<1>1. /\ \A v \in Workers \ {w} : Leaving(v, s)' <=> Leaving(v, s)
      /\ \A v \in Workers : ~ Arriving(v, s)' /\ ~ On(v, s)'
      /\ ~ Leaving(w, s) /\ session[s] # Unissued
  BY SameDoing, WhileOn
<1>2. Coherent(s) BY DEF Coherent
<1>3. \A b \in Browsers : Holds(b, s)' => b = b0
  <2>1. ASSUME NEW b \in Browsers, Holds(b, s)', b # b0 PROVE FALSE
    <3>1. Holds(b, s) BY <2>1 DEF Holds
    <3>2. QED BY <1>2, <2>1, <3>1 DEF Coherent, OneHolder
  <2>2. QED BY <2>1
<1>4. (Exists(s)' <=> Exists(s)) /\ (Live(s)' <=> Live(s)) BY DEF Exists, Live
<1>5. Unborn(s)' BY <1>1 DEF Unborn
<1>6. OneArrival(s)' BY <1>1 DEF OneArrival
<1>7. OneRefresh(s)' BY <1>1 DEF OneRefresh
<1>8. OneHolder(s)' BY <1>1, <1>3 DEF OneHolder
<1>9. TokensFit(s)' BY <1>1, <1>2, <1>3, <1>4 DEF Coherent, TokensFit
<1>10. RefreshFits(s)' BY <1>1 DEF RefreshFits
<1>11. SignOutFits(s)' BY <1>1, <1>2, <1>4 DEF Coherent, SignOutFits
<1>12. QED BY <1>5, <1>6, <1>7, <1>8, <1>9, <1>10, <1>11 DEF Coherent

\* The tab stores the token it was answered, or drops the one it had.
LEMMA AnswerInv ==
  ASSUME SessionInv, NEW w \in Workers, Answer(w)
  PROVE  SessionInv'
<1>0. PICK s \in Logins, b0 \in Browsers :
        /\ inflight[w].op = "answer" /\ inflight[w] # Null /\ inflight[w].n \in Nat
        /\ inflight[w].on = s /\ Browser[inflight[w].tab] = b0
        /\ On(w, s) /\ SessionRowsOK
  BY AtRefresh DEF SessionInv, Answer, RefreshOps
<1> DEFINE token == Answered(inflight[w])
<1>1. /\ inflight[w].op = "answer" /\ inflight[w] # Null /\ inflight[w].n \in Nat
      /\ inflight[w].on = s /\ Browser[inflight[w].tab] = b0
      /\ On(w, s) /\ SessionRowsOK /\ s \in Logins /\ b0 \in Browsers
  BY <1>0
<1>2. Takes(w, Null) /\ UNCHANGED <<session, since, signedOut, raced, again, died>>
  BY EndTakesNull DEF Answer
<1>3. stored' = IF inflight[w].heard THEN [stored EXCEPT ![b0] = token] ELSE stored
  BY <1>1 DEF Answer, Store
<1>4. token \in (Logins \X Nat) \cup {Null} BY <1>1 DEF Answered
<1>5. SessionRowsOK' /\ \A v \in Workers : inflight'[v] = IF v = w THEN Null ELSE inflight[v]
  <2>1. stored' \in [Browsers -> (Logins \X Nat) \cup {Null}]
    BY <1>1, <1>3, <1>4 DEF SessionRowsOK
  <2>2. QED BY <1>1, <1>2, <2>1, SessionStep DEF SessionRowsOK
<1>6. ASSUME ~ raced' PROVE \A q \in Logins : Coherent(q)'
  <2>1. \A q \in Logins : Coherent(q) BY <1>2, <1>6 DEF SessionInv
  <2>2. ~ On(w, s)' /\ ~ Arriving(w, s)' /\ ~ Leaving(w, s)'
    BY <1>5 DEF On, Arriving, Leaving, Refreshing, Running, Idle
  <2>3. \A b \in Browsers : b # b0 => stored'[b] = stored[b]
    BY <1>1, <1>3 DEF SessionRowsOK
  <2>4. stored'[b0] = IF inflight[w].heard THEN token ELSE stored[b0]
    BY <1>1, <1>3 DEF SessionRowsOK
  <2>5. ~ inflight[w].heard => ~ Holds(b0, s)'
    BY <1>1, <2>1, <2>4 DEF Coherent, OneHolder, Holds
  <2>6. ASSUME Holds(b0, s)', Exists(s) PROVE session[s].token = stored'[b0][2]
    <3>1. stored'[b0] = <<s, inflight[w].n>> /\ inflight[w].n # 0
      BY <2>4, <2>5, <2>6 DEF Holds, Answered
    <3>2. session[s].token = inflight[w].n
      BY <1>1, <2>1, <2>6, <3>1 DEF Coherent, RefreshFits
    <3>3. QED BY <3>1, <3>2
  <2>7. Coherent(s)'
    BY <1>1, <1>2, <1>5, <2>1, <2>2, <2>3, <2>5, <2>6, AnswerCoherent
  <2>8. \A b \in Browsers : \/ stored'[b] = stored[b] \/ stored'[b] = Null
                            \/ stored'[b][1] = s
    <3>1. token = Null \/ token[1] = s BY <1>1 DEF Answered
    <3>2. QED BY <2>3, <2>4, <3>1
  <2>9. \A q \in Logins : session'[q] = session[q] BY <1>2
  <2>10. /\ inflight[w].on = s /\ inflight'[w] = Null
         /\ \A v \in Workers \ {w} : inflight'[v] = inflight[v]
         /\ signedOut' \subseteq signedOut \cup {s} /\ (again => again') /\ (died => died')
    BY <1>1, <1>2, <1>5
  <2>11. QED BY <1>1, <2>1, <2>7, <2>8, <2>9, <2>10, OtherSessions
<1>7. QED BY <1>5, <1>6 DEF SessionInv

\* Nobody waits for the answer of a refresh any longer, and its browser holds no
\* token of the session.
LEMMA UnheardCoherent ==
  ASSUME SessionRowsOK, \A q \in Logins : Coherent(q),
         NEW s \in Logins, NEW w \in Workers, On(w, s), On(w, s)',
         NEW b0 \in Browsers, b0 = Browser[inflight[w].tab], stored'[b0] = Null,
         inflight'[w].op = inflight[w].op, inflight'[w].n = inflight[w].n,
         \A v \in Workers \ {w} : inflight'[v] = inflight[v],
         \A b \in Browsers \ {b0} : stored'[b] = stored[b],
         session' = session, signedOut' = signedOut, again' = again, died' = died
  PROVE  \A q \in Logins : Coherent(q)'
<1>1. /\ \A v \in Workers \ {w} : ~ On(v, s)' /\ (Leaving(v, s)' <=> Leaving(v, s))
      /\ \A v \in Workers : ~ Arriving(v, s)' /\ (On(v, s)' => v = w)
      /\ ~ Leaving(w, s)' /\ ~ Leaving(w, s) /\ session[s] # Unissued
  <2>1. ~ Leaving(w, s)' /\ ~ Arriving(w, s)'
    BY DEF On, Arriving, Leaving, Refreshing, Running, Idle, RefreshOps
  <2>2. QED BY <2>1, SameDoing, WhileOn
<1>2. Coherent(s) BY DEF Coherent
<1>3. \A b \in Browsers : ~ Holds(b, s)'
  <2>1. ASSUME NEW b \in Browsers, Holds(b, s)' PROVE FALSE
    <3>1. Holds(b, s) /\ b # b0 BY <2>1 DEF Holds
    <3>2. QED BY <1>2, <3>1 DEF Coherent, OneHolder
  <2>2. QED BY <2>1
<1>4. (Exists(s)' <=> Exists(s)) /\ (Live(s)' <=> Live(s)) BY DEF Exists, Live
<1>5. Unborn(s)' BY <1>1 DEF Unborn
<1>6. OneArrival(s)' BY <1>1 DEF OneArrival
<1>7. OneRefresh(s)' BY <1>1 DEF OneRefresh
<1>8. OneHolder(s)' BY <1>3 DEF OneHolder
<1>9. TokensFit(s)' BY <1>2, <1>3, <1>4 DEF Coherent, TokensFit
<1>10. RefreshFits(s)' BY <1>1, <1>2, <1>3, <1>4 DEF Coherent, RefreshFits
<1>11. SignOutFits(s)'
  <2>1. SignOutFits(s) BY <1>2 DEF Coherent
  <2>2. \A v \in Workers : Leaving(v, s)' => Leaving(v, s) /\ inflight'[v] = inflight[v]
    BY <1>1
  <2>3. \A v \in Workers : (Leaving(v, s) => Leaving(v, s)') /\ (On(v, s)' => On(v, s))
    BY <1>1
  <2>4. \A v \in Workers : inflight'[v].op = inflight[v].op OBVIOUS
  <2>5. QED BY <1>4, <2>1, <2>2, <2>3, <2>4 DEF SignOutFits
<1>12. Coherent(s)'
  BY <1>5, <1>6, <1>7, <1>8, <1>9, <1>10, <1>11 DEF Coherent
<1>13. QED
  <2>1. inflight[w].on = s /\ inflight'[w].on = s BY DEF On, Refreshing
  <2>2. \A b \in Browsers : \/ stored'[b] = stored[b] \/ stored'[b] = Null
                            \/ stored'[b][1] = s
    OBVIOUS
  <2>3. QED BY <1>12, <2>1, <2>2, OtherSessions

\* The record of a request nobody waits for.
LEMMA UnheardTypes ==
  ASSUME SessionRowsOK, NEW w \in Workers, Refreshing(w),
         inflight' = [inflight EXCEPT ![w].heard = FALSE], overtaken' = overtaken,
         session' = session, signedOut' = signedOut, again' = again, died' = died,
         stored' \in [Browsers -> (Logins \X Nat) \cup {Null}], raced' \in BOOLEAN
  PROVE  /\ SessionRowsOK'
         /\ inflight'[w].op = inflight[w].op /\ inflight'[w].n = inflight[w].n
         /\ inflight'[w].on = inflight[w].on
         /\ On(w, inflight[w].on) /\ inflight[w].on \in Logins
         /\ Browser[inflight[w].tab] \in Browsers /\ inflight'[w] # Null
         /\ \A v \in Workers \ {w} : inflight'[v] = inflight[v]
<1> DEFINE r == [inflight[w] EXCEPT !.heard = FALSE]
<1>1. /\ inflight[w] \in SessionRequest /\ inflight[w] # Null /\ On(w, inflight[w].on)
      /\ inflight[w].on \in Logins /\ Browser[inflight[w].tab] \in Browsers
  BY AtWork DEF Refreshing, Idle, On
<1>2. /\ r \in SessionRequest /\ r # Null /\ r.op = inflight[w].op
      /\ r.on = inflight[w].on /\ r.n = inflight[w].n
  BY <1>1, SessionRequestAssumption DEF SessionRequest
<1>3. DOMAIN inflight = Workers /\ inflight' = [inflight EXCEPT ![w] = r]
  BY DEF SessionRowsOK, InflightOK
<1> HIDE DEF r
<1>4. /\ DOMAIN inflight' = Workers /\ inflight'[w] = r
      /\ \A v \in Workers \ {w} : inflight'[v] = inflight[v]
  BY <1>3
<1>5. SessionRowsOK'
  <2>1. InflightOK' BY <1>1, <1>2, <1>4 DEF SessionRowsOK, InflightOK, Idle
  <2>2. \A v \in Workers : ~ Idle(v)' => inflight'[v] \in SessionRequest
    BY <1>2, <1>4 DEF SessionRowsOK, Idle
  <2>3. QED BY <2>1, <2>2 DEF SessionRowsOK
<1>6. QED BY <1>1, <1>2, <1>4, <1>5

\* The network loses the answer.
LEMMA LoseAnswerInv ==
  ASSUME SessionInv, NEW w \in Workers, LoseAnswer(w)
  PROVE  SessionInv'
<1>1. SessionRowsOK /\ Refreshing(w) /\ inflight[w] # Null
  BY DEF SessionInv, LoseAnswer, Refreshing, Idle
<1>2. PICK s \in Logins, b0 \in Browsers :
        inflight[w].on = s /\ Browser[inflight[w].tab] = b0
  BY <1>1, AtWork
<1>3. /\ inflight' = [inflight EXCEPT ![w].heard = FALSE] /\ overtaken' = overtaken
      /\ session' = session /\ signedOut' = signedOut /\ again' = again /\ died' = died
      /\ raced' = raced /\ stored' = [stored EXCEPT ![b0] = Null]
  BY <1>2 DEF LoseAnswer, Store, OnFailure
<1>4. /\ stored' \in [Browsers -> (Logins \X Nat) \cup {Null}] /\ stored'[b0] = Null
      /\ \A b \in Browsers \ {b0} : stored'[b] = stored[b]
  BY <1>1, <1>2, <1>3 DEF SessionRowsOK
<1>5. /\ SessionRowsOK' /\ On(w, s) /\ On(w, s)'
      /\ inflight'[w].op = inflight[w].op /\ inflight'[w].n = inflight[w].n
      /\ \A v \in Workers \ {w} : inflight'[v] = inflight[v]
  <2>1. raced' \in BOOLEAN BY <1>1, <1>3 DEF SessionRowsOK
  <2>2. QED BY <1>1, <1>2, <1>3, <1>4, <2>1, UnheardTypes DEF On, Refreshing, Idle
<1>6. ASSUME ~ raced' PROVE \A q \in Logins : Coherent(q)'
  <2>1. \A q \in Logins : Coherent(q) BY <1>3, <1>6 DEF SessionInv
  <2>2. QED BY <1>1, <1>2, <1>3, <1>4, <1>5, <2>1, UnheardCoherent
<1>7. QED BY <1>5, <1>6 DEF SessionInv

\* A reload makes it possible to send the token again.
LEMMA ReloadInv ==
  ASSUME SessionInv, NEW w \in Workers, Reload(w)
  PROVE  SessionInv'
<1>1. SessionRowsOK /\ raced' = TRUE BY DEF SessionInv, Reload
<1>2. SessionRowsOK' BY <1>1, UnheardTypes DEF Reload, SessionRowsOK
<1>3. QED BY <1>1, <1>2 DEF SessionInv

-----------------------------------------------------------------------------
\* A new session: nobody has heard of it.
LEMMA SignInInv ==
  ASSUME SessionInv, NEW w \in Workers, NEW s \in Logins, NEW tab \in Tabs, SignIn(w, s, tab)
  PROVE  SessionInv'
<1> DEFINE r == SessionReq("trim", s, tab, 1)
           row == [session[s] EXCEPT !.token = 1]
<1>1. SessionRowsOK /\ session[s] = Unissued BY DEF SessionInv, SignIn
<1>2. r \in SessionRequest /\ r # Null /\ r.op = "trim" /\ r.on = s
  <2>1. r \in SessionRequest BY DEF SessionReq, SessionRequest, SessionOps
  <2>2. QED BY <2>1, SessionRequestAssumption DEF SessionReq
<1>3. row \in SessionRow /\ row.token = 1 /\ row.prev = 0 /\ row.revoked = "no"
  BY <1>1 DEF Unissued, SessionRow
<1>4. /\ Takes(w, r) /\ session' = [session EXCEPT ![s] = row] /\ inflight[w] = Null
      /\ stored' = stored /\ signedOut' = signedOut /\ raced' = raced
      /\ again' = again /\ died' = died
  BY <1>1 DEF SignIn, Takes, CommitFirst, Idle, SessionRowsOK
<1> HIDE DEF r, row
<1>5. /\ SessionRowsOK' /\ inflight'[w] = r
      /\ \A v \in Workers \ {w} : inflight'[v] = inflight[v]
  <2>1. session' \in [Logins -> SessionRow] BY <1>1, <1>3, <1>4 DEF SessionRowsOK
  <2>2. QED BY <1>1, <1>2, <1>4, <2>1, SessionStep DEF SessionRowsOK
<1>6. session'[s] = row /\ \A q \in Logins \ {s} : session'[q] = session[q]
  BY <1>1, <1>4 DEF SessionRowsOK
<1>7. ASSUME ~ raced' PROVE \A q \in Logins : Coherent(q)'
  <2>1. \A q \in Logins : Coherent(q) BY <1>4, <1>7 DEF SessionInv
  <2>2. /\ s \notin signedOut' /\ \A b \in Browsers : ~ Holds(b, s)'
        /\ \A v \in Workers : ~ On(v, s) /\ ~ Arriving(v, s) /\ ~ Leaving(v, s)
    <3>1. Unborn(s) BY <2>1 DEF Coherent
    <3>2. QED
      BY <1>1, <1>4, <3>1 DEF Unborn, Holds, On, Arriving, Leaving, Refreshing, Running, Idle
  <2>3. \A v \in Workers : ~ On(v, s)' /\ ~ Leaving(v, s)' /\ (Arriving(v, s)' => v = w)
    <3>1. ~ On(w, s)' /\ ~ Leaving(w, s)'
      BY <1>2, <1>5 DEF On, Leaving, Refreshing, Running, RefreshOps
    <3>2. QED BY <1>5, <2>2, <3>1, SameDoing
  <2>4. session'[s].token = 1 /\ session'[s].prev = 0 /\ session'[s].revoked = "no"
    BY <1>3, <1>6
  <2>5. Unborn(s)' BY <2>4 DEF Unborn, Unissued
  <2>6. OneArrival(s)' BY <2>2, <2>3, <2>4 DEF OneArrival
  <2>7. OneRefresh(s)' /\ OneHolder(s)' /\ RefreshFits(s)' /\ SignOutFits(s)'
    BY <2>2, <2>3 DEF OneRefresh, OneHolder, RefreshFits, SignOutFits
  <2>8. TokensFit(s)' BY <2>2, <2>4 DEF TokensFit
  <2>9. Coherent(s)' BY <2>5, <2>6, <2>7, <2>8 DEF Coherent
  <2>10. inflight'[w].on = s /\ signedOut' \subseteq signedOut \cup {s}
    BY <1>2, <1>4, <1>5
  <2>11. QED BY <1>1, <1>4, <1>5, <1>6, <2>1, <2>9, <2>10, OtherSessions
<1>8. QED BY <1>5, <1>7 DEF SessionInv

\* A sign-in goes on, and the rows beyond the cap may go.
LEMMA ArrivingCoherent ==
  ASSUME SessionRowsOK, \A q \in Logins : Coherent(q),
         NEW s \in Logins, NEW w \in Workers, Arriving(w, s), Arriving(w, s)',
         \A v \in Workers \ {w} : inflight'[v] = inflight[v],
         \A q \in Logins : session'[q] = session[q] \/ session'[q] = Deleted,
         stored' = stored, signedOut' = signedOut, again' = again, died' = died
  PROVE  \A q \in Logins : Coherent(q)'
<1>1. /\ \A v \in Workers \ {w} : /\ inflight'[v] = inflight[v]
                                  /\ On(v, s)' <=> On(v, s)
                                  /\ Arriving(v, s)' <=> Arriving(v, s)
                                  /\ Leaving(v, s)' <=> Leaving(v, s)
      /\ ~ On(w, s) /\ ~ Leaving(w, s) /\ ~ On(w, s)' /\ ~ Leaving(w, s)'
  <2>1. ~ On(w, s) /\ ~ Leaving(w, s) /\ ~ On(w, s)' /\ ~ Leaving(w, s)'
    BY DEF On, Arriving, Leaving, Refreshing, Running, Idle, RefreshOps
  <2>2. QED BY <2>1, SameDoing
<1>2. Coherent(s) /\ RowStands(s) BY RowEnds DEF Coherent
<1>3. /\ Live(s)' => Exists(s)'
      /\ \A b \in Browsers : (Holds(b, s)' <=> Holds(b, s)) /\ stored'[b] = stored[b]
  BY DEF Live, Holds
<1>4. Unborn(s)'
  <2>1. session[s] # Unissued BY <1>2 DEF Coherent, Unborn, Arriving
  <2>2. QED BY <1>2, <2>1 DEF Unborn, RowStands
<1>5. OneArrival(s)' BY <1>1, <1>2, <1>3 DEF Coherent, OneArrival, RowStands
<1>6. OneRefresh(s)' BY <1>1, <1>2 DEF Coherent, OneRefresh
<1>7. OneHolder(s)' BY <1>1, <1>2, <1>3 DEF Coherent, OneHolder
<1>8. TokensFit(s)' BY <1>1, <1>2, <1>3 DEF Coherent, TokensFit, RowStands
<1>9. RefreshFits(s)'
  <2>1. RefreshFits(s) BY <1>2 DEF Coherent
  <2>2. \A v \in Workers : On(v, s)' => On(v, s) /\ inflight'[v] = inflight[v] BY <1>1
  <2>3. QED BY <1>2, <1>3, <2>1, <2>2 DEF RefreshFits, RowStands
<1>10. SignOutFits(s)'
  <2>1. SignOutFits(s) BY <1>2 DEF Coherent
  <2>2. \A v \in Workers : /\ Leaving(v, s)' <=> Leaving(v, s)
                           /\ On(v, s) \/ Leaving(v, s) => inflight'[v] = inflight[v]
                           /\ On(v, s)' <=> On(v, s)
    BY <1>1
  <2>3. QED BY <1>2, <1>3, <2>1, <2>2 DEF SignOutFits, RowStands
<1>11. Coherent(s)'
  BY <1>4, <1>5, <1>6, <1>7, <1>8, <1>9, <1>10 DEF Coherent
<1>12. QED
  <2>1. inflight[w].on = s /\ inflight'[w].on = s BY DEF Arriving
  <2>2. QED BY <1>3, <1>11, <2>1, OtherSessions

\* The rows of the user are read, and those beyond the cap go.
LEMMA TrimInv ==
  ASSUME SessionInv, NEW w \in Workers, FindStale(w) \/ DeleteStale(w)
  PROVE  SessionInv'
<1>1. SessionRowsOK /\ inflight[w] # Null /\ inflight[w].op \in {"trim", "delete"}
  BY DEF SessionInv, FindStale, DeleteStale, Running
<1>2. PICK s \in Logins : inflight[w].on = s /\ Arriving(w, s) /\ inflight[w] \in SessionRequest
  BY <1>1, AtWork DEF Arriving, Idle
<1>3. PICK r \in SessionRequest :
        /\ Takes(w, r) /\ r.op \in {"delete", "welcome"} /\ r.on = s
        /\ stored' = stored /\ signedOut' = signedOut /\ raced' = raced
        /\ again' = again /\ died' = died
        /\ session' \in [Logins -> SessionRow]
        /\ \A q \in Logins : session'[q] = session[q] \/ session'[q] = Deleted
  <2>1. session \in [Logins -> SessionRow] /\ Deleted \in SessionRow
    BY <1>1 DEF SessionRowsOK, Deleted, Unissued, SessionRow
  <2>2. CASE FindStale(w)
    <3> DEFINE stale == BeyondCap
               r == [inflight[w] EXCEPT !.op = IF stale = {} THEN "welcome" ELSE "delete",
                                        !.stale = stale]
    <3>1. stale \in SUBSET Logins BY DEF BeyondCap
    <3> HIDE DEF stale
    <3>2. r \in SessionRequest /\ r.op \in {"delete", "welcome"} /\ r.on = s
      BY <1>2, <3>1 DEF SessionRequest, SessionOps
    <3>3. Takes(w, r) /\ UNCHANGED <<sessionRows, died>>
      BY <2>2 DEF FindStale, Takes, stale
    <3> HIDE DEF r
    <3>4. QED BY <2>1, <3>2, <3>3 DEF sessionRows
  <2>3. CASE DeleteStale(w)
    <3> DEFINE r == [inflight[w] EXCEPT !.op = "welcome", !.stale = {}]
    <3>1. r \in SessionRequest /\ r.op \in {"delete", "welcome"} /\ r.on = s
      BY <1>2 DEF SessionRequest, SessionOps
    <3>2. /\ Takes(w, r) /\ UNCHANGED <<stored, signedOut, raced, again, died>>
          /\ session' = [q \in Logins |-> IF q \notin inflight[w].stale THEN session[q]
                                          ELSE Deleted]
      BY <2>3 DEF DeleteStale, Takes
    <3> HIDE DEF r
    <3>3. QED BY <2>1, <3>1, <3>2
  <2>4. QED BY <1>1, <2>2, <2>3
<1>4. /\ SessionRowsOK' /\ inflight'[w] = r
      /\ \A v \in Workers \ {w} : inflight'[v] = inflight[v]
  BY <1>1, <1>3, SessionStep DEF SessionRowsOK
<1>5. ASSUME ~ raced' PROVE \A q \in Logins : Coherent(q)'
  <2>1. \A q \in Logins : Coherent(q) BY <1>3, <1>5 DEF SessionInv
  <2>2. Arriving(w, s)'
    BY <1>3, <1>4, SessionRequestAssumption DEF Arriving, Idle
  <2>3. QED BY <1>1, <1>2, <1>3, <1>4, <2>1, <2>2, ArrivingCoherent
<1>6. QED BY <1>4, <1>5 DEF SessionInv

\* The browser stores the first token of its session.
LEMMA WelcomeInv ==
  ASSUME SessionInv, NEW w \in Workers, Welcome(w)
  PROVE  SessionInv'
<1>0. SessionRowsOK /\ inflight[w] # Null /\ inflight[w].op = "welcome"
  BY DEF SessionInv, Welcome, Running
<1>1. PICK s \in Logins, b0 \in Browsers :
        inflight[w].on = s /\ Browser[inflight[w].tab] = b0 /\ Arriving(w, s)
  BY <1>0, AtWork DEF Arriving, Idle
<1>2. /\ Takes(w, Null) /\ session' = session /\ signedOut' = signedOut /\ raced' = raced
      /\ again' = again /\ died' = died /\ stored' = [stored EXCEPT ![b0] = <<s, 1>>]
  BY <1>1, EndTakesNull DEF Welcome, Store
<1>3. /\ stored' \in [Browsers -> (Logins \X Nat) \cup {Null}]
      /\ stored'[b0] = <<s, 1>> /\ \A b \in Browsers \ {b0} : stored'[b] = stored[b]
  BY <1>0, <1>1, <1>2 DEF SessionRowsOK
<1>4. /\ SessionRowsOK' /\ inflight'[w] = Null
      /\ \A v \in Workers \ {w} : inflight'[v] = inflight[v]
  BY <1>0, <1>2, <1>3, SessionStep DEF SessionRowsOK
<1>5. ASSUME ~ raced' PROVE \A q \in Logins : Coherent(q)'
  <2>1. \A q \in Logins : Coherent(q) BY <1>2, <1>5 DEF SessionInv
  <2>2. /\ Exists(s) => session[s].token = 1
        /\ \A b \in Browsers : ~ Holds(b, s)
        /\ \A v \in Workers \ {w} : ~ Arriving(v, s) /\ ~ On(v, s)
        /\ session[s] # Unissued
    BY <1>1, <2>1 DEF Coherent, OneArrival, Unborn, Arriving
  <2>3. /\ \A v \in Workers : ~ On(v, s)' /\ ~ Arriving(v, s)'
        /\ \A v \in Workers : Leaving(v, s)' <=> Leaving(v, s)
        /\ \A v \in Workers : Leaving(v, s) => inflight'[v] = inflight[v]
    <3>1. ~ On(w, s)' /\ ~ Arriving(w, s)' /\ ~ Leaving(w, s)' /\ ~ Leaving(w, s)
      BY <1>4, <1>0 DEF On, Arriving, Leaving, Refreshing, Running, Idle
    <3>2. QED BY <1>4, <2>2, <3>1, SameDoing
  <2>4. \A b \in Browsers : Holds(b, s)' => b = b0
    BY <1>3, <2>2 DEF Holds
  <2>5. (Exists(s)' <=> Exists(s)) /\ (Live(s)' <=> Live(s)) /\ session'[s] = session[s]
    BY <1>2 DEF Exists, Live
  <2>6. Unborn(s)' BY <2>2, <2>5 DEF Unborn
  <2>7. OneArrival(s)' /\ OneRefresh(s)' /\ OneHolder(s)' /\ RefreshFits(s)'
    BY <2>3, <2>4 DEF OneArrival, OneRefresh, OneHolder, RefreshFits
  <2>8. TokensFit(s)'
    <3>1. TokensFit(s) BY <2>1 DEF Coherent
    <3>2. stored'[b0][2] = 1 BY <1>3
    <3>3. QED BY <2>2, <2>4, <2>5, <3>1, <3>2 DEF TokensFit
  <2>9. SignOutFits(s)'
    <3>1. SignOutFits(s) BY <2>1 DEF Coherent
    <3>2. QED BY <1>2, <2>3, <2>5, <3>1 DEF SignOutFits
  <2>10. Coherent(s)' BY <2>6, <2>7, <2>8, <2>9 DEF Coherent
  <2>11. /\ \A b \in Browsers : \/ stored'[b] = stored[b] \/ stored'[b] = Null
                               \/ stored'[b][1] = s
         /\ signedOut' \subseteq signedOut \cup {s}
    BY <1>2, <1>3
  <2>12. QED BY <1>0, <1>1, <1>2, <1>4, <2>1, <2>10, <2>11, OtherSessions
<1>6. QED BY <1>4, <1>5 DEF SessionInv

-----------------------------------------------------------------------------
\* A sign-out knows the session by the token the browser had.
LEMMA SignOutInv ==
  ASSUME SessionInv, NEW w \in Workers, NEW tab \in Tabs, SignOut(w, tab)
  PROVE  SessionInv'
<1>0. PICK s \in Logins, n \in Nat : stored[Browser[tab]] = <<s, n>>
  BY StoredToken DEF SessionInv, SignOut
<1> DEFINE r == SessionReq("logout", s, tab, n)
<1>1. PICK b0 \in Browsers : b0 = Browser[tab] OBVIOUS
<1>2. SessionRowsOK /\ Holds(b0, s) /\ stored[b0][2] = n /\ inflight[w] = Null
  BY <1>0, <1>1 DEF SessionInv, SignOut, Holds, Begin, Idle
<1>3. r \in SessionRequest /\ r # Null /\ r.op = "logout" /\ r.on = s /\ r.n = n
  <2>1. r \in SessionRequest BY <1>0 DEF SessionReq, SessionRequest, SessionOps
  <2>2. QED BY <2>1, SessionRequestAssumption DEF SessionReq
<1>4. /\ Takes(w, r) /\ session' = session /\ raced' = raced /\ again' = again
      /\ died' = died /\ signedOut' = signedOut \cup {s}
      /\ stored' = [stored EXCEPT ![b0] = Null]
  BY <1>0, <1>1 DEF SignOut, Takes, Store
<1> HIDE DEF r
<1>5. /\ stored' \in [Browsers -> (Logins \X Nat) \cup {Null}] /\ stored'[b0] = Null
      /\ \A b \in Browsers \ {b0} : stored'[b] = stored[b]
  BY <1>1, <1>2, <1>4 DEF SessionRowsOK
<1>6. /\ SessionRowsOK' /\ inflight'[w] = r
      /\ \A v \in Workers \ {w} : inflight'[v] = inflight[v]
  <2>1. signedOut' \subseteq Logins BY <1>0, <1>2, <1>4 DEF SessionRowsOK
  <2>2. QED BY <1>2, <1>3, <1>4, <1>5, <2>1, SessionStep DEF SessionRowsOK
<1>7. ASSUME ~ raced' PROVE \A q \in Logins : Coherent(q)'
  <2>1. \A q \in Logins : Coherent(q) BY <1>4, <1>7 DEF SessionInv
  <2>2. /\ session[s] # Unissued /\ \A v \in Workers : ~ Arriving(v, s)
    BY <1>1, <1>2, <2>1 DEF Coherent, Unborn, OneArrival
  <2>3. /\ ~ On(w, s)' /\ ~ Arriving(w, s)' /\ Leaving(w, s)'
        /\ ~ On(w, s) /\ ~ Leaving(w, s)
    BY <1>2, <1>3, <1>6 DEF On, Arriving, Leaving, Refreshing, Running, Idle, RefreshOps
  <2>4. /\ \A v \in Workers : (On(v, s)' <=> On(v, s)) /\ ~ Arriving(v, s)'
        /\ \A v \in Workers : On(v, s) => inflight'[v] = inflight[v]
        /\ \A v \in Workers \ {w} : Leaving(v, s)' <=> Leaving(v, s)
    BY <1>6, <2>2, <2>3, SameDoing
  <2>5. \A b \in Browsers : Holds(b, s)' => Holds(b, s) /\ stored'[b] = stored[b]
    BY <1>5 DEF Holds
  <2>6. (Exists(s)' <=> Exists(s)) /\ (Live(s)' <=> Live(s)) /\ session'[s] = session[s]
    BY <1>4 DEF Exists, Live
  <2>7. Unborn(s)' BY <2>2, <2>6 DEF Unborn
  <2>8. OneArrival(s)' BY <2>4 DEF OneArrival
  <2>9. OneRefresh(s)' BY <2>1, <2>4 DEF Coherent, OneRefresh
  <2>10. OneHolder(s)' BY <2>1, <2>4, <2>5 DEF Coherent, OneHolder
  <2>11. TokensFit(s)' BY <2>1, <2>4, <2>5, <2>6 DEF Coherent, TokensFit
  <2>12. RefreshFits(s)'
    <3>1. RefreshFits(s) BY <2>1 DEF Coherent
    <3>2. QED BY <2>4, <2>5, <2>6, <3>1 DEF RefreshFits
  <2>13. SignOutFits(s)'
    <3>1. SignOutFits(s) /\ TokensFit(s) /\ RefreshFits(s) /\ OneRefresh(s)
      BY <2>1 DEF Coherent
    <3>2. Live(s) => \/ session[s].token = n
                     \/ /\ session[s].prev = n
                        /\ \A v \in Workers : On(v, s) => inflight[v].op = "answer"
      <4>1. CASE \A v \in Workers : ~ On(v, s)
        BY <1>1, <1>2, <3>1, <4>1 DEF TokensFit, Live
      <4>2. ASSUME NEW v \in Workers, On(v, s), Live(s)
            PROVE  \/ session[s].token = n
                   \/ /\ session[s].prev = n
                      /\ \A u \in Workers : On(u, s) => inflight[u].op = "answer"
        <5>1. Exists(s) BY <4>2 DEF Live
        <5>2. stored[b0][2] = IF inflight[v].op = "answer" THEN session[s].prev
                                                            ELSE inflight[v].n
          BY <1>1, <1>2, <3>1, <4>2 DEF RefreshFits
        <5>3. inflight[v].op # "answer" => session[s].token = inflight[v].n
          BY <3>1, <4>2, <5>1 DEF RefreshFits
        <5>4. \A u \in Workers : On(u, s) => u = v BY <3>1, <4>2 DEF OneRefresh
        <5>5. QED BY <1>2, <5>2, <5>3, <5>4
      <4>3. QED BY <4>1, <4>2
    <3>3. inflight'[w].n = n BY <1>3, <1>6
    <3>4. ASSUME NEW v \in Workers, Leaving(v, s)', Live(s)', ~ again'
          PROVE  \/ session'[s].token = inflight'[v].n
                 \/ /\ session'[s].prev = inflight'[v].n
                    /\ \A u \in Workers : On(u, s)' => inflight'[u].op = "answer"
      <4>1. CASE v = w BY <2>4, <2>6, <3>2, <3>3, <3>4, <4>1
      <4>2. CASE v # w
        <5>1. Leaving(v, s) /\ inflight'[v] = inflight[v] /\ Live(s) /\ ~ again
          BY <1>4, <1>6, <2>4, <2>6, <3>4, <4>2
        <5>2. QED BY <2>4, <2>6, <3>1, <5>1 DEF SignOutFits
      <4>3. QED BY <4>1, <4>2
    <3>5. QED BY <2>3, <3>4 DEF SignOutFits
  <2>14. Coherent(s)'
    BY <2>7, <2>8, <2>9, <2>10, <2>11, <2>12, <2>13 DEF Coherent
  <2>15. /\ \A b \in Browsers : \/ stored'[b] = stored[b] \/ stored'[b] = Null
                               \/ stored'[b][1] = s
         /\ \A q \in Logins : session'[q] = session[q]
         /\ inflight'[w].on = s /\ (again => again') /\ (died => died')
    BY <1>3, <1>4, <1>5, <1>6
  <2>16. QED BY <1>0, <1>2, <1>4, <1>6, <2>1, <2>14, <2>15, OtherSessions
<1>8. QED BY <1>6, <1>7 DEF SessionInv

\* Worker w is done, and its browser may have dropped its token; session s may have
\* ended, but for its sign-outs.
LEMMA EndedCoherent ==
  ASSUME SessionRowsOK, \A q \in Logins : Coherent(q),
         NEW s \in Logins, NEW w \in Workers, inflight[w] # Null, inflight[w].on = s,
         inflight'[w] = Null, \A v \in Workers \ {w} : inflight'[v] = inflight[v],
         RowStands(s), \A q \in Logins \ {s} : session'[q] = session[q],
         \A b \in Browsers : stored'[b] = stored[b] \/ stored'[b] = Null,
         On(w, s) => \A b \in Browsers : ~ Holds(b, s)',
         signedOut' = signedOut, again' = again, died => died',
         Live(s)' /\ ~ again /\ ~ died' => ~ Leaving(w, s)
  PROVE  \A q \in Logins : Coherent(q)'
<1>1. /\ \A v \in Workers : On(v, s)' => On(v, s) /\ inflight'[v] = inflight[v]
      /\ \A v \in Workers : Arriving(v, s)' => Arriving(v, s)
      /\ \A v \in Workers : Leaving(v, s)' => Leaving(v, s) /\ inflight'[v] = inflight[v]
      /\ \A v \in Workers \ {w} : (On(v, s)' <=> On(v, s)) /\ (Leaving(v, s)' <=> Leaving(v, s))
  <2>1. ~ On(w, s)' /\ ~ Arriving(w, s)' /\ ~ Leaving(w, s)'
    BY DEF On, Arriving, Leaving, Refreshing, Running, Idle
  <2>2. QED BY <2>1, SameDoing
<1>2. \A b \in Browsers : Holds(b, s)' => Holds(b, s) /\ stored'[b] = stored[b]
  BY DEF Holds
<1>3. Coherent(s) /\ (Live(s)' => Exists(s)') BY DEF Coherent, Live
<1>4. Unborn(s)'
  <2>1. session[s] # Unissued BY <1>3 DEF Coherent, Unborn, Idle
  <2>2. QED BY <2>1 DEF Unborn, RowStands
<1>5. OneArrival(s)' BY <1>1, <1>2, <1>3 DEF Coherent, OneArrival, RowStands
<1>6. OneRefresh(s)' BY <1>1, <1>3 DEF Coherent, OneRefresh
<1>7. OneHolder(s)' BY <1>1, <1>2, <1>3 DEF Coherent, OneHolder
<1>8. TokensFit(s)'
  <2>1. TokensFit(s) BY <1>3 DEF Coherent
  <2>2. ASSUME NEW b \in Browsers, Holds(b, s)', \A v \in Workers : ~ On(v, s)'
        PROVE  Holds(b, s) /\ \A v \in Workers : ~ On(v, s)
    BY <1>1, <1>2, <2>2
  <2>3. QED BY <1>2, <2>1, <2>2 DEF TokensFit, RowStands
<1>9. RefreshFits(s)'
  <2>1. RefreshFits(s) BY <1>3 DEF Coherent
  <2>2. QED BY <1>1, <1>2, <1>3, <2>1 DEF RefreshFits, RowStands
<1>10. SignOutFits(s)'
  <2>1. SignOutFits(s) BY <1>3 DEF Coherent
  <2>2. ASSUME NEW v \in Workers, Leaving(v, s)', Live(s)', ~ again'
        PROVE  \/ session'[s].token = inflight'[v].n
               \/ /\ session'[s].prev = inflight'[v].n
                  /\ \A u \in Workers : On(u, s)' => inflight'[u].op = "answer"
    BY <1>1, <1>3, <2>1, <2>2 DEF SignOutFits, RowStands
  <2>3. ASSUME ~ died', s \in signedOut', Live(s)', ~ again'
        PROVE  \E v \in Workers : Leaving(v, s)'
    <3>1. PICK v \in Workers : Leaving(v, s) BY <2>1, <2>3 DEF SignOutFits, RowStands
    <3>2. v # w BY <2>3, <3>1
    <3>3. QED BY <1>1, <3>1, <3>2
  <2>4. QED BY <2>2, <2>3 DEF SignOutFits
<1>11. Coherent(s)'
  BY <1>4, <1>5, <1>6, <1>7, <1>8, <1>9, <1>10 DEF Coherent
<1>12. QED BY <1>11, OtherSessions

\* The session that was signed out of has ended.
LEMMA LogoutInv ==
  ASSUME SessionInv, NEW w \in Workers, Logout(w)
  PROVE  SessionInv'
<1>0. SessionRowsOK /\ inflight[w] # Null /\ inflight[w].op = "logout"
  BY DEF SessionInv, Logout, Running
<1>1. PICK s \in Logins : inflight[w].on = s /\ Leaving(w, s)
  BY <1>0, AtWork DEF Leaving, Running
<1> DEFINE fits == Live(s) /\ IsTokenOf(s, inflight[w].n)
           row == [session[s] EXCEPT !.revoked = IF fits THEN "asked" ELSE @]
<1>2. session[s] \in SessionRow /\ row \in SessionRow
  <2>1. session[s] \in SessionRow BY <1>0 DEF SessionRowsOK
  <2>2. QED BY <2>1 DEF SessionRow
<1>3. /\ ~ fits => row = session[s]
      /\ fits => row = [session[s] EXCEPT !.revoked = "asked"] /\ row.revoked = "asked"
  BY <1>2 DEF SessionRow
<1>4. /\ Takes(w, Null) /\ session' = [session EXCEPT ![s] = row]
      /\ stored' = stored /\ signedOut' = signedOut /\ raced' = raced
      /\ again' = again /\ died' = died
  BY <1>0, <1>1, EndTakesNull DEF Logout, SessionRowsOK
<1> HIDE DEF row
<1>5. /\ session' \in [Logins -> SessionRow] /\ session'[s] = row
      /\ \A q \in Logins \ {s} : session'[q] = session[q]
  BY <1>0, <1>2, <1>4 DEF SessionRowsOK
<1>6. /\ SessionRowsOK' /\ inflight'[w] = Null
      /\ \A v \in Workers \ {w} : inflight'[v] = inflight[v]
  BY <1>0, <1>4, <1>5, SessionStep DEF SessionRowsOK
<1>7. RowStands(s) /\ (Live(s)' => Live(s) /\ ~ fits)
  <2>1. CASE fits
    <3>1. ~ Live(s)' BY <1>3, <1>5, <2>1 DEF Live
    <3>2. QED BY <1>0, <1>3, <1>5, <2>1, <3>1, RowEnds
  <2>2. CASE ~ fits
    <3>1. session'[s] = session[s] BY <1>3, <1>5, <2>2
    <3>2. QED BY <1>0, <2>2, <3>1, RowEnds DEF RowStands
  <2>3. QED BY <2>1, <2>2
<1>8. ASSUME ~ raced' PROVE \A q \in Logins : Coherent(q)'
  <2>1. \A q \in Logins : Coherent(q) BY <1>4, <1>8 DEF SessionInv
  <2>2. again \/ ~ Live(s)'
    BY <1>1, <1>7, <2>1 DEF Coherent, SignOutFits, IsTokenOf
  <2>3. ~ On(w, s) BY <1>0 DEF On, Refreshing, RefreshOps
  <2>4. QED BY <1>0, <1>1, <1>4, <1>5, <1>6, <1>7, <2>1, <2>2, <2>3, EndedCoherent
<1>9. QED BY <1>6, <1>8 DEF SessionInv

\* The server dies; a tab that waited drops its token.
LEMMA DropSessionInv ==
  ASSUME SessionInv, NEW w \in Workers, DropSession(w)
  PROVE  SessionInv'
<1>0. SessionRowsOK /\ inflight[w] # Null
  BY DEF SessionInv, DropSession, Die, Drop, Idle
<1>1. PICK s \in Logins, b0 \in Browsers :
        inflight[w].on = s /\ Browser[inflight[w].tab] = b0
  BY <1>0, AtWork
<1>2. /\ Takes(w, Null) /\ session' = session /\ signedOut' = signedOut /\ raced' = raced
      /\ again' = again /\ died' = TRUE
      /\ stored' = IF Refreshing(w) /\ inflight[w].heard THEN [stored EXCEPT ![b0] = Null]
                                                         ELSE stored
  BY <1>1, EndTakesNull DEF DropSession, Die, Store
<1>3. /\ stored' \in [Browsers -> (Logins \X Nat) \cup {Null}]
      /\ \A b \in Browsers : stored'[b] = stored[b] \/ stored'[b] = Null
      /\ Refreshing(w) /\ inflight[w].heard => stored'[b0] = Null
  BY <1>0, <1>1, <1>2 DEF SessionRowsOK
<1>4. /\ SessionRowsOK' /\ inflight'[w] = Null
      /\ \A v \in Workers \ {w} : inflight'[v] = inflight[v]
  <2>1. died' \in BOOLEAN BY <1>2
  <2>2. QED BY <1>0, <1>2, <1>3, <2>1, SessionStep DEF SessionRowsOK
<1>5. ASSUME ~ raced' PROVE \A q \in Logins : Coherent(q)'
  <2>1. \A q \in Logins : Coherent(q) BY <1>2, <1>5 DEF SessionInv
  <2>2. ASSUME On(w, s), NEW b \in Browsers, Holds(b, s)' PROVE FALSE
    <3>1. Holds(b, s) /\ stored'[b] # Null BY <1>3, <2>2 DEF Holds
    <3>2. b = b0 /\ inflight[w].heard
      BY <1>1, <2>1, <2>2, <3>1 DEF Coherent, OneHolder
    <3>3. QED BY <1>3, <2>2, <3>1, <3>2 DEF On
  <2>3. RowStands(s) BY <1>0, <1>2, RowEnds
  <2>4. QED BY <1>0, <1>1, <1>2, <1>3, <1>4, <2>1, <2>2, <2>3, EndedCoherent
<1>6. QED BY <1>4, <1>5 DEF SessionInv

\* Sessions end without a request of their own.
LEMMA RevokeInv ==
  ASSUME SessionInv, RevokeAll \/ \E s \in Logins : RevokeOne(s)
  PROVE  SessionInv'
<1>1. SessionRowsOK BY DEF SessionInv
<1>2. /\ InflightOK' /\ inflight' = inflight
      /\ stored' = stored /\ signedOut' = signedOut /\ raced' = raced
      /\ again' = again /\ died' = died
  BY <1>1, AtOnce DEF SessionRowsOK, RevokeAll, RevokeOne, InflightOK, Idle
<1>3. /\ DOMAIN session' = Logins
      /\ \A q \in Logins : \/ session'[q] = session[q]
                           \/ /\ Live(q)
                              /\ session'[q] = [session[q] EXCEPT !.revoked = "asked"]
  BY <1>1 DEF SessionRowsOK, RevokeAll, RevokeOne
<1>4. \A q \in Logins : RowStands(q) /\ session'[q] \in SessionRow
  BY <1>1, <1>3, RowEnds
<1>5. session' \in [Logins -> SessionRow]
  <2>1. session' = [q \in Logins |-> session'[q]] BY <1>1, <1>3 DEF SessionRowsOK, RevokeAll, RevokeOne
  <2>2. QED BY <1>4, <2>1
<1>6. SessionRowsOK' BY <1>1, <1>2, <1>5 DEF SessionRowsOK, Idle
<1>7. ASSUME ~ raced', NEW q \in Logins PROVE Coherent(q)'
  <2>1. Coherent(q) BY <1>2, <1>7 DEF SessionInv
  <2>2. \A b \in Browsers : Holds(b, q)' => Holds(b, q) /\ stored'[b] = stored[b]
    BY <1>2 DEF Holds
  <2>3. QED BY <1>2, <1>4, <2>1, <2>2, BystandingSession
<1>8. QED BY <1>6, <1>7 DEF SessionInv

-----------------------------------------------------------------------------
\* Nobody has signed in.
LEMMA SessionsInitInv == SessionsInit => SessionInv
<1> SUFFICES ASSUME SessionsInit PROVE SessionInv
  OBVIOUS
<1>1. InflightOK /\ (\A w \in Workers : inflight[w] = Null) /\ died = FALSE
  BY NoneInflight DEF SessionsInit, SettlingInit
<1>2. Unissued \in SessionRow BY DEF Unissued, SessionRow
<1>3. SessionRowsOK BY <1>1, <1>2 DEF SessionsInit, SessionRowsOK, Idle
<1>4. \A q \in Logins : Coherent(q)
  <2>1. TAKE q \in Logins
  <2>2. /\ session[q].token = 0 /\ session[q].revoked = "no" /\ ~ Exists(q) /\ ~ Live(q)
        /\ \A b \in Browsers : ~ Holds(b, q)
        /\ \A v \in Workers : ~ On(v, q) /\ ~ Arriving(v, q) /\ ~ Leaving(v, q)
    BY <1>1 DEF SessionsInit, Unissued, Exists, Live, Holds, On, Arriving, Leaving,
       Refreshing, Running, Idle
  <2>3. Unborn(q) BY <1>1, <2>2 DEF SessionsInit, Unborn, Idle
  <2>4. QED
    BY <2>2, <2>3 DEF Coherent, OneArrival, OneRefresh, OneHolder, TokensFit, RefreshFits,
       SignOutFits
<1>5. QED BY <1>3, <1>4 DEF SessionInv

\* Every step keeps the sessions coherent.
LEMMA SessionsNextInv ==
  ASSUME SessionInv, [SessionsNext]_sessionVars
  PROVE  SessionInv'
<1>1. CASE UNCHANGED sessionVars
  <2>1. UNCHANGED <<session, since, stored, signedOut, raced, again, inflight, overtaken, died>>
    BY <1>1 DEF sessionVars, sessionRows, settlingVars, handlerVars
  <2>2. SessionRowsOK' BY <2>1 DEF SessionInv, SessionRowsOK, InflightOK, Idle
  <2>3. ASSUME ~ raced', NEW q \in Logins PROVE Coherent(q)'
    <3>1. Coherent(q) /\ RowStands(q) BY <2>1, <2>3, RowEnds DEF SessionInv
    <3>2. \A b \in Browsers : Holds(b, q)' => Holds(b, q) /\ stored'[b] = stored[b]
      BY <2>1 DEF Holds
    <3>3. QED BY <2>1, <3>1, <3>2, BystandingSession
  <2>4. QED BY <2>2, <2>3 DEF SessionInv
<1>2. CASE SessionsNext
  <2>1. ASSUME NEW w \in Workers, NEW tab \in Tabs,
               \/ SendRefresh(w, tab) \/ SignOut(w, tab)
               \/ \E s \in Logins : SignIn(w, s, tab)
        PROVE  SessionInv'
    BY <2>1, SendRefreshInv, SignOutInv, SignInInv
  <2>2. ASSUME NEW w \in Workers,
               \/ LookUpReplaced(w) \/ RevokeReplayed(w) \/ FindSession(w) \/ Rotate(w)
               \/ Answer(w) \/ LoseAnswer(w) \/ Reload(w)
        PROVE  SessionInv'
    BY <2>2, LookUpReplacedInv, RevokeReplayedInv, FindSessionInv, RotateInv, AnswerInv,
       LoseAnswerInv, ReloadInv
  <2>3. ASSUME NEW w \in Workers,
               \/ FindStale(w) \/ DeleteStale(w) \/ Welcome(w) \/ Logout(w) \/ DropSession(w)
        PROVE  SessionInv'
    BY <2>3, TrimInv, WelcomeInv, LogoutInv, DropSessionInv
  <2>4. CASE RevokeAll \/ \E s \in Logins : RevokeOne(s)
    BY <2>4, RevokeInv
  <2>5. QED BY <1>2, <2>1, <2>2, <2>3, <2>4 DEF SessionsNext
<1>3. QED BY <1>1, <1>2

\* A browser whose tabs never send one token twice is never taken for a thief, and
\* ends up with the token the server expects, for any number of tabs, sessions and
\* requests, and whatever is lost, late or crossed by a sign-out.
THEOREM RotatedOnce == SessionsSpec => []OneRotation
<1>1. SessionInv => OneRotation
  <2> SUFFICES ASSUME SessionInv, ~ raced PROVE OneRotation
    BY DEF OneRotation
  <2>1. SessionRowsOK /\ \A s \in Logins : Coherent(s) BY DEF SessionInv
  <2>2. \A s \in Logins : session[s].revoked # "replay" BY <2>1 DEF Coherent, TokensFit
  <2>3. ASSUME Quiet, NEW b \in Browsers, stored[b] # Null, Exists(stored[b][1])
        PROVE  session[stored[b][1]].token = stored[b][2]
    <3>1. stored[b] \in Logins \X Nat BY <2>1, <2>3 DEF SessionRowsOK
    <3>2. stored[b][1] \in Logins /\ Holds(b, stored[b][1]) BY <2>3, <3>1 DEF Holds
    <3>3. \A w \in Workers : ~ On(w, stored[b][1]) BY <2>3 DEF Quiet, On, Refreshing
    <3>4. QED BY <2>1, <2>3, <3>2, <3>3 DEF Coherent, TokensFit
  <2>4. QED BY <2>2, <2>3 DEF OneRotation
<1>2. QED BY <1>1, SessionsInitInv, SessionsNextInv, PTL DEF SessionsSpec

\* A sign-out that meets a refresh of the same session ends it all the same.
THEOREM SignedOutIsEnded == SessionsSpec => []SignOutEndsSession
<1>1. SessionInv => SignOutEndsSession
  <2> SUFFICES ASSUME SessionInv, Quiet, ~ died, ~ raced, ~ again, NEW s \in signedOut, Live(s)
               PROVE  FALSE
    BY DEF SignOutEndsSession
  <2>1. s \in Logins /\ SignOutFits(s) BY DEF SessionInv, SessionRowsOK, Coherent
  <2>2. PICK w \in Workers : Leaving(w, s) BY <2>1 DEF SignOutFits
  <2>3. QED BY <2>2 DEF Leaving, Running, Quiet, Idle
<1>2. QED BY <1>1, SessionsInitInv, SessionsNextInv, PTL DEF SessionsSpec

-----------------------------------------------------------------------------
(* The cap                                                                  *)

Existing == {s \in Logins : Exists(s)}

\* Rows some sign-in has read as beyond the cap and is about to delete.
Doomed == {s \in Logins : \E w \in Workers : Running(w, "delete") /\ s \in inflight[w].stale}

\* `since` orders the rows: of two, exactly one was used since the other was.
UsedInOrder ==
  \A s \in Existing :
    /\ since[s] \subseteq Existing \ {s}
    /\ \A t \in Existing : /\ t # s => t \in since[s] \/ s \in since[t]
                           /\ t \in since[s] => since[t] \subseteq since[s]

\* Once every sign-in has read the rows, those that none of them is about to delete
\* are within the cap: the last to read saw them all.
CapInv ==
  /\ SessionRowsOK /\ overlapped \in BOOLEAN
  /\ since \in [Logins -> SUBSET Logins]
  /\ IsFiniteSet(Existing) /\ UsedInOrder
  /\ ~ died /\ (\A w \in Workers : ~ Running(w, "trim")) =>
       Cardinality(Existing \ Doomed) <= MaxSessions

\* Of some rows, one was used before all the others.
LEMMA LeastUsed ==
  ASSUME IsFiniteSet(Existing), UsedInOrder, NEW K, K \subseteq Existing, K # {}
  PROVE  \E s \in K : K \subseteq since[s] \cup {s}
<1> DEFINE E == Existing
           Before(s) == E \ since[s]
           T == {Before(s) : s \in K}
<1>1. T \subseteq FiniteSubsetsOf(E) /\ T # {}
  <2>1. \A s \in K : Before(s) \in SUBSET E OBVIOUS
  <2>2. T \subseteq SUBSET E /\ T # {} BY <2>1
  <2> HIDE DEF T
  <2>3. QED BY <2>2, FS_FiniteSubsetsOfFinite
<1>2. PICK x \in T : \A y \in T : <<y, x>> \notin StrictSubsetOrdering(E)
  <2>1. IsWellFoundedOn(StrictSubsetOrdering(E), FiniteSubsetsOf(E))
    BY FS_StrictSubsetOrderingWellFounded
  <2> HIDE DEF T
  <2>2. QED BY <1>1, <2>1, WFMin
<1>3. PICK s \in K : x = Before(s) BY <1>2
<1>4. ASSUME NEW t \in K, t # s, t \notin since[s] PROVE FALSE
  <2>1. s \in since[t] /\ since[s] \subseteq since[t] /\ s \notin since[s] /\ s \in E
    BY <1>4 DEF UsedInOrder
  <2>2. Before(t) \subseteq Before(s) /\ Before(t) # Before(s) /\ Before(t) \in T
    BY <1>4, <2>1
  <2>3. <<Before(t), x>> \in StrictSubsetOrdering(E)
    BY <1>3, <2>2 DEF StrictSubsetOrdering
  <2>4. QED BY <1>2, <2>2, <2>3
<1>5. QED BY <1>4

\* The rows that are not beyond the cap are as many as the cap allows.
LEMMA WithinCap ==
  ASSUME IsFiniteSet(Existing), UsedInOrder
  PROVE  Cardinality(Existing \ BeyondCap) <= MaxSessions
<1> DEFINE K == Existing \ BeyondCap
<1>1. IsFiniteSet(K) /\ Cardinality(K) \in Nat
  <2>1. K \in SUBSET Existing OBVIOUS
  <2> HIDE DEF K
  <2>2. QED BY <2>1, FS_Subset, FS_CardinalityType
<1>2. CASE K = {}
  BY <1>2, FS_EmptySet
<1>3. CASE K # {}
  <2>1. PICK s \in K : K \subseteq since[s] \cup {s}
    <3> HIDE DEF K
    <3>1. K \subseteq Existing BY DEF K
    <3>2. QED BY <1>3, <3>1, LeastUsed
  <2>2. since[s] \subseteq Existing /\ s \in Logins BY DEF UsedInOrder, Existing
  <2>3. IsFiniteSet(since[s]) /\ Cardinality(since[s]) \in Nat
    BY <2>2, FS_Subset, FS_CardinalityType
  <2>4. Cardinality(since[s]) < MaxSessions
    BY <2>2, <2>3 DEF BeyondCap, Existing
  <2>5. IsFiniteSet(K \ {s}) /\ Cardinality(K \ {s}) = Cardinality(K) - 1
    BY <1>1, <2>1, FS_RemoveElement
  <2>6. Cardinality(K \ {s}) <= Cardinality(since[s])
    <3>1. K \ {s} \in SUBSET since[s] BY <2>1
    <3>2. QED BY <2>3, <3>1, FS_Subset
  <2>7. QED BY <1>1, <2>3, <2>4, <2>5, <2>6
<1>4. QED BY <1>2, <1>3

\* A row was used: the order stays one, with that row the last.
LEMMA UsedNowOrder ==
  ASSUME UsedInOrder, IsFiniteSet(Existing), since \in [Logins -> SUBSET Logins],
         NEW s \in Logins, UsedNow(s), Existing' = Existing \cup {s}
  PROVE  /\ UsedInOrder' /\ IsFiniteSet(Existing)' /\ since' \in [Logins -> SUBSET Logins]
<1>1. \A q \in Logins : since'[q] = IF q # s /\ q \in Existing THEN since[q] \cup {s} ELSE {}
  BY DEF UsedNow, Existing
<1>2. since' \in [Logins -> SUBSET Logins] BY DEF UsedNow
<1>3. IsFiniteSet(Existing)'
  BY FS_AddElement
<1>4. ASSUME NEW q \in Existing' 
      PROVE  /\ since'[q] \subseteq Existing' \ {q}
             /\ \A t \in Existing' : /\ t # q => t \in since'[q] \/ q \in since'[t]
                                     /\ t \in since'[q] => since'[t] \subseteq since'[q]
  <2>1. q \in Logins /\ \A t \in Existing' : t \in Logins BY DEF Existing
  <2>2. since'[q] \subseteq Existing' \ {q}
    <3>1. CASE q = s BY <1>1, <3>1
    <3>2. CASE q # s
      <4>1. q \in Existing /\ since'[q] = since[q] \cup {s} BY <1>1, <1>4, <2>1, <3>2
      <4>2. since[q] \subseteq Existing \ {q} BY <4>1 DEF UsedInOrder
      <4>3. QED BY <3>2, <4>1, <4>2
    <3>3. QED BY <3>1, <3>2
  <2>3. ASSUME NEW t \in Existing'
        PROVE  /\ t # q => t \in since'[q] \/ q \in since'[t]
               /\ t \in since'[q] => since'[t] \subseteq since'[q]
    <3>1. since'[q] = IF q # s THEN since[q] \cup {s} ELSE {}
      BY <1>1, <1>4, <2>1
    <3>2. since'[t] = IF t # s THEN since[t] \cup {s} ELSE {}
      BY <1>1, <2>1, <2>3
    <3>3. QED BY <1>4, <2>3, <3>1, <3>2 DEF UsedInOrder
  <2>4. QED BY <2>2, <2>3
<1>5. QED BY <1>2, <1>3, <1>4 DEF UsedInOrder

\* Worker v is between the insert of its sign-in and the trimming of the rows.
Trimming(v) == Running(v, "trim") \/ Running(v, "delete")

\* A step that uses no row, adds none and takes none away, and leaves the sign-ins
\* that are trimming where they are, unless one of them dies.
LEMMA CapStands ==
  ASSUME CapInv, SessionRowsOK', overlapped' = overlapped,
         since' = since \/ (UsedInOrder' /\ since' \in [Logins -> SUBSET Logins]),
         Existing' = Existing, died => died',
         \A v \in Workers : Trimming(v) => died' \/ inflight'[v] = inflight[v]
  PROVE  CapInv'
<1>1. UsedInOrder' BY DEF CapInv, UsedInOrder
<1>2. ASSUME ~ died', \A v \in Workers : ~ Running(v, "trim")'
      PROVE  (Cardinality(Existing \ Doomed) <= MaxSessions)'
  <2>1. \A v \in Workers : Trimming(v) => inflight'[v] = inflight[v] BY <1>2
  <2>2. \A v \in Workers : ~ Running(v, "trim")
    BY <1>2, <2>1 DEF Trimming, Running
  <2>3. Cardinality(Existing \ Doomed) <= MaxSessions BY <1>2, <2>2 DEF CapInv
  <2>4. Doomed \subseteq Doomed' BY <2>1 DEF Doomed, Trimming, Running
  <2>5. (Existing \ Doomed)' \in SUBSET (Existing \ Doomed) BY <2>4
  <2>6. IsFiniteSet(Existing \ Doomed)
    <3>1. Existing \ Doomed \in SUBSET Existing OBVIOUS
    <3>2. QED BY <3>1, FS_Subset DEF CapInv
  <2>7. /\ Cardinality((Existing \ Doomed)') <= Cardinality(Existing \ Doomed)
        /\ Cardinality((Existing \ Doomed)') \in Nat /\ Cardinality(Existing \ Doomed) \in Nat
    BY <2>5, <2>6, FS_Subset, FS_CardinalityType
  <2>8. QED BY <2>3, <2>7
<1>3. QED BY <1>1, <1>2 DEF CapInv

\* The rows are the same when each keeps its token.
LEMMA SameRows ==
  ASSUME \A q \in Logins : session'[q].token = 0 <=> session[q].token = 0
  PROVE  Existing' = Existing
BY DEF Existing, Exists

\* The steps that are not of a trimming sign-in leave the trimming to it.
LEMMA OthersTrim ==
  ASSUME InflightOK, NEW w \in Workers, NEW r, Takes(w, r), ~ Trimming(w)
  PROVE  \A v \in Workers : Trimming(v) => inflight'[v] = inflight[v]
<1>1. \A v \in Workers : v # w => inflight'[v] = inflight[v]
  BY GoesOn, Ends DEF Takes
<1>2. QED BY <1>1

\* Most steps neither add rows nor use them.
LEMMA RestOfSessions ==
  ASSUME SessionRowsOK, NEW w \in Workers,
         \/ \E tab \in Tabs : SendRefresh(w, tab) \/ SignOut(w, tab)
         \/ LookUpReplaced(w) \/ RevokeReplayed(w) \/ FindSession(w) \/ Answer(w)
         \/ LoseAnswer(w) \/ Reload(w) \/ Welcome(w) \/ Logout(w)
  PROVE  /\ since' = since /\ Existing' = Existing /\ died' = died
         /\ \A v \in Workers : Trimming(v) => inflight'[v] = inflight[v]
<1>1. InflightOK /\ session \in [Logins -> SessionRow] BY DEF SessionRowsOK
<1>2. CASE \E tab \in Tabs : SendRefresh(w, tab) \/ SignOut(w, tab)
  <2>1. ~ Trimming(w) /\ \E r : Takes(w, r)
    BY <1>2 DEF SendRefresh, SignOut, Begin, Idle, Trimming, Running, Takes
  <2>2. since' = since /\ session' = session /\ died' = died BY <1>2 DEF SendRefresh, SignOut
  <2>3. QED BY <1>1, <2>1, <2>2, OthersTrim, SameRows
<1>3. CASE LookUpReplaced(w) \/ FindSession(w) \/ Answer(w) \/ Welcome(w)
  <2>1. ~ Trimming(w)
    BY <1>3 DEF LookUpReplaced, FindSession, Answer, Welcome, Trimming, Running
  <2>2. \E r : Takes(w, r)
    BY <1>3 DEF LookUpReplaced, FindSession, Answer, Welcome, Takes
  <2>3. since' = since /\ session' = session /\ died' = died
    BY <1>3 DEF LookUpReplaced, FindSession, Answer, Welcome, sessionRows
  <2>4. QED BY <1>1, <2>1, <2>2, <2>3, OthersTrim, SameRows
<1>4. CASE RevokeReplayed(w) \/ Logout(w)
  <2>1. ~ Trimming(w) BY <1>4 DEF RevokeReplayed, Logout, Trimming, Running
  <2>2. \E r : Takes(w, r) BY <1>4 DEF RevokeReplayed, Logout, Takes
  <2>3. since' = since /\ died' = died BY <1>4 DEF RevokeReplayed, Logout
  <2>4. \A q \in Logins : session'[q].token = session[q].token
    BY <1>1, <1>4 DEF RevokeReplayed, Logout, SessionRow
  <2>5. QED BY <1>1, <2>1, <2>2, <2>3, <2>4, OthersTrim, SameRows
<1>5. CASE LoseAnswer(w) \/ Reload(w)
  <2>1. ~ Trimming(w)
    BY <1>5 DEF LoseAnswer, Reload, Refreshing, RefreshOps, Trimming, Running
  <2>2. \A v \in Workers : v # w => inflight'[v] = inflight[v]
    BY <1>1, <1>5 DEF LoseAnswer, Reload, InflightOK
  <2>3. since' = since /\ session' = session /\ died' = died BY <1>5 DEF LoseAnswer, Reload
  <2>4. QED BY <2>1, <2>2, <2>3, SameRows
<1>6. QED BY <1>2, <1>3, <1>4, <1>5

\* A refresh uses its row.
LEMMA RotateCap ==
  ASSUME CapInv, NEW w \in Workers, Rotate(w), SessionRowsOK', overlapped' = overlapped
  PROVE  CapInv'
<1> DEFINE s == inflight[w].on
<1>1. SessionRowsOK /\ s \in Logins /\ session[s] \in SessionRow /\ inflight[w].n \in Nat
  BY AtRefresh DEF CapInv, Rotate, RefreshOps
<1>2. ~ Trimming(w) /\ \E r : Takes(w, r) BY DEF Rotate, Trimming, Running, Takes
<1>3. \A v \in Workers : Trimming(v) => inflight'[v] = inflight[v]
  BY <1>1, <1>2, OthersTrim DEF SessionRowsOK
<1>4. CASE ~ Exists(s)
  <2>1. since' = since /\ session' = session /\ died' = died BY <1>4 DEF Rotate
  <2>2. QED BY <1>3, <2>1, SameRows, CapStands
<1>5. CASE Exists(s)
  <2>1. UsedNow(s) /\ died' = died BY <1>5 DEF Rotate
  <2>2. session'[s].token = session[s].token + 1 /\ session[s].token \in Nat
    BY <1>1, <1>5 DEF Rotate, SessionRowsOK, SessionRow
  <2>3. \A q \in Logins \ {s} : session'[q] = session[q]
    BY <1>1, <1>5 DEF Rotate, SessionRowsOK
  <2>4. Existing' = Existing
    <3>1. Exists(s) /\ session'[s].token # 0 BY <1>5, <2>2
    <3>2. QED BY <2>3, <3>1, SameRows DEF Exists
  <2>5. s \in Existing BY <1>1, <1>5 DEF Existing
  <2>6. Existing' = Existing \cup {s} BY <2>4, <2>5
  <2>7. UsedInOrder' /\ IsFiniteSet(Existing)' /\ since' \in [Logins -> SUBSET Logins]
    BY <1>1, <2>1, <2>6, UsedNowOrder DEF CapInv
  <2>8. QED BY <1>3, <2>1, <2>4, <2>7, CapStands
<1>6. QED BY <1>4, <1>5

\* A sign-in adds the row used last, and is to trim the others.
LEMMA SignInCap ==
  ASSUME CapInv, NEW w \in Workers, NEW s \in Logins, NEW tab \in Tabs, SignIn(w, s, tab),
         SessionRowsOK', overlapped' = overlapped
  PROVE  CapInv'
<1>1. SessionRowsOK BY DEF CapInv
<1>2. Running(w, "trim")'
  <2>1. inflight'[w] = SessionReq("trim", s, tab, 1)
    BY <1>1 DEF SignIn, CommitFirst, SessionRowsOK, InflightOK
  <2> DEFINE r == SessionReq("trim", s, tab, 1)
  <2>2. r \in SessionRequest /\ r.op = "trim" BY DEF SessionReq, SessionRequest, SessionOps
  <2> HIDE DEF r
  <2>3. inflight'[w] = r BY <2>1 DEF r
  <2>4. QED BY <2>2, <2>3, SessionRequestAssumption DEF Running
<1>3. Existing' = Existing \cup {s}
  <2>1. session'[s].token = 1 /\ \A q \in Logins \ {s} : session'[q] = session[q]
    BY <1>1 DEF SignIn, SessionRowsOK, SessionRow
  <2>2. \A q \in Logins : Exists(q)' <=> Exists(q) \/ q = s BY <2>1 DEF Exists
  <2>3. QED BY <2>2 DEF Existing
<1>4. UsedInOrder' /\ IsFiniteSet(Existing)' /\ since' \in [Logins -> SUBSET Logins]
  BY <1>3, UsedNowOrder DEF CapInv, SignIn
<1>5. QED BY <1>2, <1>4 DEF CapInv

\* The last sign-in to read the rows sees them all, and those it leaves are within
\* the cap.
LEMMA FindStaleCap ==
  ASSUME CapInv, NEW w \in Workers, FindStale(w), SessionRowsOK', overlapped' = overlapped
  PROVE  CapInv'
<1> DEFINE r == [inflight[w] EXCEPT !.op = IF BeyondCap = {} THEN "welcome" ELSE "delete",
                                    !.stale = BeyondCap]
<1>1. SessionRowsOK /\ inflight[w] \in SessionRequest
  BY DEF CapInv, SessionRowsOK, FindStale, Running, Idle
<1>2. r.stale = BeyondCap /\ r.op = IF BeyondCap = {} THEN "welcome" ELSE "delete"
  BY <1>1 DEF SessionRequest
<1>3. UNCHANGED <<sessionRows, died>> /\ inflight'[w] = r
  BY <1>1 DEF FindStale, Reread, SessionRowsOK, InflightOK
<1>4. since' = since /\ Existing' = Existing /\ UsedInOrder'
  BY <1>3 DEF sessionRows, Existing, Exists, UsedInOrder, CapInv
<1>5. BeyondCap \subseteq Doomed'
  <2>1. CASE BeyondCap = {} BY <2>1
  <2>2. CASE BeyondCap # {}
    <3>1. Running(w, "delete")'
      <4>1. inflight'[w] \in SessionRequest \cup {Null} /\ inflight'[w].op = "delete"
        BY <1>2, <1>3, <2>2 DEF SessionRowsOK, Idle
      <4>2. r \in SessionRequest
        BY <1>1 DEF SessionRequest, SessionOps, BeyondCap
      <4>3. QED BY <1>3, <4>1, <4>2, SessionRequestAssumption DEF Running
    <3>2. inflight'[w].stale = BeyondCap BY <1>2, <1>3
    <3>3. BeyondCap \subseteq Logins BY DEF BeyondCap
    <3>4. QED BY <3>1, <3>2, <3>3 DEF Doomed
  <2>3. QED BY <2>1, <2>2
<1>6. (Cardinality(Existing \ Doomed) <= MaxSessions)'
  <2>1. Cardinality(Existing \ BeyondCap) <= MaxSessions BY WithinCap DEF CapInv
  <2>2. (Existing \ Doomed)' \in SUBSET (Existing \ BeyondCap) BY <1>4, <1>5
  <2>3. IsFiniteSet(Existing \ BeyondCap)
    <3>1. Existing \ BeyondCap \in SUBSET Existing OBVIOUS
    <3>2. QED BY <3>1, FS_Subset DEF CapInv
  <2>4. /\ Cardinality((Existing \ Doomed)') <= Cardinality(Existing \ BeyondCap)
        /\ Cardinality((Existing \ Doomed)') \in Nat /\ Cardinality(Existing \ BeyondCap) \in Nat
    BY <2>2, <2>3, FS_Subset, FS_CardinalityType
  <2>5. QED BY <2>1, <2>4
<1>7. QED BY <1>4, <1>6 DEF CapInv

\* The rows it had read go, and it is done with them.
LEMMA DeleteStaleCap ==
  ASSUME CapInv, NEW w \in Workers, DeleteStale(w), SessionRowsOK', overlapped' = overlapped
  PROVE  CapInv'
<1> DEFINE stale == inflight[w].stale
<1>1. SessionRowsOK /\ Running(w, "delete") /\ inflight[w] \in SessionRequest
  BY DEF CapInv, SessionRowsOK, DeleteStale, Running, Idle
<1>2. /\ session' = [s \in Logins |-> IF s \notin stale THEN session[s] ELSE Deleted]
      /\ since' = [s \in Logins |-> IF s \notin stale THEN {q \in since[s] : q \notin stale} ELSE {}]
      /\ died' = died
  BY DEF DeleteStale
<1>3. Existing' = Existing \ stale
  BY <1>2 DEF Existing, Exists, Deleted, Unissued
<1>4. since' \in [Logins -> SUBSET Logins]
  <2>1. \A s \in Logins : since[s] \subseteq Logins BY DEF CapInv
  <2>2. \A s \in Logins : (IF s \notin stale THEN {q \in since[s] : q \notin stale} ELSE {}) \in SUBSET Logins
    BY <2>1
  <2>3. QED BY <1>2, <2>2
<1>5. IsFiniteSet(Existing)'
  <2>1. Existing' \in SUBSET Existing BY <1>3
  <2>2. QED BY <2>1, FS_Subset DEF CapInv
<1>6. UsedInOrder'
  <2>1. \A s \in Existing' : s \in Existing /\ s \in Logins /\ since'[s] = since[s] \ stale
    BY <1>2, <1>3 DEF Existing
  <2>2. QED BY <1>3, <2>1 DEF UsedInOrder, CapInv
<1>7. \A v \in Workers : v # w => inflight'[v] = inflight[v]
  BY <1>1 DEF DeleteStale, CommitThen, SessionRowsOK, InflightOK
<1>8. ~ Running(w, "trim") BY <1>1 DEF Running
<1>9. ASSUME ~ died', \A v \in Workers : ~ Running(v, "trim")'
      PROVE  (Cardinality(Existing \ Doomed) <= MaxSessions)'
  <2>1. \A v \in Workers : ~ Running(v, "trim") BY <1>7, <1>8, <1>9 DEF Running
  <2>2. Cardinality(Existing \ Doomed) <= MaxSessions BY <1>2, <1>9, <2>1 DEF CapInv
  <2>3. Doomed \subseteq Doomed' \cup stale BY <1>7 DEF Doomed, Running
  <2>4. (Existing \ Doomed)' \in SUBSET (Existing \ Doomed) BY <1>3, <2>3
  <2>5. IsFiniteSet(Existing \ Doomed)
    <3>1. Existing \ Doomed \in SUBSET Existing OBVIOUS
    <3>2. QED BY <3>1, FS_Subset DEF CapInv
  <2>6. /\ Cardinality((Existing \ Doomed)') <= Cardinality(Existing \ Doomed)
        /\ Cardinality((Existing \ Doomed)') \in Nat /\ Cardinality(Existing \ Doomed) \in Nat
    BY <2>4, <2>5, FS_Subset, FS_CardinalityType
  <2>7. QED BY <2>2, <2>6
<1>10. QED BY <1>4, <1>5, <1>6, <1>9 DEF CapInv

\* Every step keeps the rows within the cap, but for those about to go.
LEMMA CapNextInv ==
  ASSUME CapInv, SessionInv, [SessionsNext]_sessionVars
  PROVE  CapInv'
<1>1. SessionRowsOK' /\ SessionRowsOK BY SessionsNextInv DEF SessionInv
<1>2. CASE UNCHANGED sessionVars
  <2>1. UNCHANGED <<session, since, inflight, died, overlapped>>
    BY <1>2 DEF sessionVars, sessionRows, settlingVars, handlerVars
  <2>2. QED BY <1>1, <2>1, SameRows, CapStands
<1>3. CASE SessionsNext
  <2>1. overlapped' = overlapped BY <1>3 DEF SessionsNext
  <2>2. ASSUME NEW w \in Workers,
               \/ \E tab \in Tabs : SendRefresh(w, tab) \/ SignOut(w, tab)
               \/ LookUpReplaced(w) \/ RevokeReplayed(w) \/ FindSession(w) \/ Answer(w)
               \/ LoseAnswer(w) \/ Reload(w) \/ Welcome(w) \/ Logout(w)
        PROVE  CapInv'
    BY <1>1, <2>1, <2>2, RestOfSessions, CapStands
  <2>3. ASSUME NEW w \in Workers, Rotate(w) \/ FindStale(w) \/ DeleteStale(w)
        PROVE  CapInv'
    BY <1>1, <2>1, <2>3, RotateCap, FindStaleCap, DeleteStaleCap
  <2>4. ASSUME NEW w \in Workers, NEW s \in Logins, NEW tab \in Tabs, SignIn(w, s, tab)
        PROVE  CapInv'
    BY <1>1, <2>1, <2>4, SignInCap
  <2>5. ASSUME NEW w \in Workers, DropSession(w) PROVE CapInv'
    <3>1. since' = since /\ session' = session /\ died'
      BY <2>5 DEF DropSession, Die
    <3>2. QED BY <1>1, <2>1, <3>1, SameRows, CapStands
  <2>6. CASE RevokeAll \/ \E s \in Logins : RevokeOne(s)
    <3>1. since' = since /\ inflight' = inflight /\ died' = died
      BY <2>6 DEF RevokeAll, RevokeOne, CommitAtOnce
    <3>2. \A q \in Logins : session'[q].token = session[q].token
      BY <1>1, <2>6 DEF RevokeAll, RevokeOne, SessionRowsOK, SessionRow
    <3>3. QED BY <1>1, <2>1, <3>1, <3>2, SameRows, CapStands
  <2>7. QED BY <1>3, <2>2, <2>3, <2>4, <2>5, <2>6 DEF SessionsNext
<1>4. QED BY <1>2, <1>3

\* Nobody has a row yet.
LEMMA CapInitInv == SessionsInit => CapInv
<1> SUFFICES ASSUME SessionsInit PROVE CapInv
  OBVIOUS
<1>1. SessionRowsOK /\ overlapped \in BOOLEAN /\ since \in [Logins -> SUBSET Logins]
  BY SessionsInitInv DEF SessionInv, SessionsInit, SettlingInit
<1>2. Existing = {} BY DEF SessionsInit, Existing, Exists, Unissued
<1>3. IsFiniteSet(Existing) /\ Existing \ Doomed = {} /\ Cardinality({}) = 0
  BY <1>2, FS_EmptySet
<1>4. UsedInOrder BY <1>2 DEF UsedInOrder
<1>5. QED BY <1>1, <1>3, <1>4 DEF CapInv

\* Whatever sign-ins and refreshes overlap, and whichever rows each sign-in has read,
\* once they have all finished the user has no more sessions than the cap, for any cap.
THEOREM CapIsKept == SessionsSpec => []CapHolds
<1>1. CapInv => CapHolds
  <2> SUFFICES ASSUME CapInv, Quiet, ~ died PROVE Cardinality({s \in Logins : Exists(s)}) <= MaxSessions
    BY DEF CapHolds
  <2>1. \A w \in Workers : ~ Running(w, "trim") BY DEF Quiet, Idle, Running
  <2>2. Doomed = {} BY DEF Doomed, Quiet, Idle, Running
  <2>3. Existing \ Doomed = {s \in Logins : Exists(s)} BY <2>2 DEF Existing
  <2>4. QED BY <2>1, <2>3 DEF CapInv
<1>2. QED BY <1>1, CapInitInv, CapNextInv, SessionsInitInv, SessionsNextInv, PTL DEF SessionsSpec

\* The rows, the browsers and the requests under way are what their types say, in
\* every state that sessions reach.
THEOREM SessionsTyped == SessionsSpec => []SessionsTypeOK
<1>1. CapInv => SessionsTypeOK
  BY DEF CapInv, SessionRowsOK, SessionRow, SessionsTypeOK, SettlingOK
<1>2. QED BY <1>1, CapInitInv, CapNextInv, SessionsInitInv, SessionsNextInv, PTL DEF SessionsSpec
-----------------------------------------------------------------------------
(* The run people: one component moves, and the others rest                 *)

\* Every request under way is at one of these steps.
Only(Ops) == \A w \in Workers : ~ Idle(w) => inflight[w].op \in Ops

PointsOps == {"announce"}

\* The components by the names a behaviour chooses from.
Components == {"support", "chat", "reviews", "reports", "points", "blind", "sessions", "phones"}

\* What holds of the component that a behaviour follows.
PeopleInv ==
  /\ TypeOK
  /\ focus = "support"  => Only(SupportOps) /\ IInv
  /\ focus = "chat"     => Only(ChatOps) /\ TalkInv
  /\ focus = "reviews"  => Only(ReviewOps) /\ ReviewsInv
  /\ focus = "reports"  => Only(ReportOps) /\ ReportInv /\ StandingInv
  /\ focus = "points"   => Only(PointsOps) /\ PointsInv
  /\ focus = "blind"    => Only(TenancyOps) /\ TenancyInv
  /\ focus = "sessions" => Only(SessionOps) /\ SessionInv /\ CapInv
  /\ focus = "phones"   => Only(PhoneOps) /\ PhoneInv
  /\ focus \notin Components => Only({})

\* A component none of whose requests is under way keeps its types with its rows.
LEMMA SupportRests ==
  ASSUME SupportTypeOK, UNCHANGED caseVars, SettlingOK', NEW Ops, Only(Ops)',
         Ops \cap SupportOps = {}
  PROVE  SupportTypeOK'
BY DEF SupportTypeOK, caseVars, SettlingOK, Only, Idle

\* The same of conversations,
LEMMA ChatRests ==
  ASSUME ChatTypeOK, UNCHANGED chatRows, SettlingOK', NEW Ops, Only(Ops)',
         Ops \cap ChatOps = {}
  PROVE  ChatTypeOK'
BY DEF ChatTypeOK, chatRows, SettlingOK, Only, Idle

\* community reviews,
LEMMA ReviewsRest ==
  ASSUME ReviewsTypeOK, UNCHANGED reviewRows, SettlingOK', NEW Ops, Only(Ops)',
         Ops \cap ReviewOps = {}
  PROVE  ReviewsTypeOK'
BY DEF ReviewsTypeOK, reviewRows, Only, Idle

\* reports,
LEMMA ReportsRest ==
  ASSUME ReportsTypeOK, UNCHANGED reportRows, SettlingOK', NEW Ops, Only(Ops)',
         Ops \cap ReportOps = {}
  PROVE  ReportsTypeOK'
BY DEF ReportsTypeOK, reportRows, Only, Idle

\* points,
LEMMA PointsRest ==
  ASSUME PointsTypeOK, UNCHANGED pointsRows, SettlingOK', NEW Ops, Only(Ops)',
         Ops \cap PointsOps = {}
  PROVE  PointsTypeOK'
BY DEF PointsTypeOK, pointsRows, Only, PointsOps, Idle, Running

\* tenancy reviews,
LEMMA TenancyRests ==
  ASSUME TenancyTypeOK, UNCHANGED tenancyRows, SettlingOK', NEW Ops, Only(Ops)',
         Ops \cap TenancyOps = {}
  PROVE  TenancyTypeOK'
BY DEF TenancyTypeOK, tenancyRows, Only, Idle

\* sessions,
LEMMA SessionsRest ==
  ASSUME SessionsTypeOK, UNCHANGED sessionRows, SettlingOK', NEW Ops, Only(Ops)',
         Ops \cap SessionOps = {}
  PROVE  SessionsTypeOK'
BY DEF SessionsTypeOK, sessionRows, Only, Idle

\* and phone numbers.
LEMMA PhoneRests ==
  ASSUME PhoneTypeOK, UNCHANGED phoneRows, SettlingOK', NEW Ops, Only(Ops)',
         Ops \cap PhoneOps = {}
  PROVE  PhoneTypeOK'
BY DEF PhoneTypeOK, phoneRows, Only, Idle

\* A worker goes on with such a request or ends,
LEMMA TakesOnly ==
  ASSUME InflightOK, NEW Ops, Only(Ops), NEW w \in Workers, NEW r, Takes(w, r),
         r # Null => r.op \in Ops
  PROVE  Only(Ops)'
<1>1. \A v \in Workers : inflight'[v] = IF v = w THEN r ELSE inflight[v]
  BY GoesOn, Ends DEF Takes
<1>2. QED BY <1>1 DEF Only, Idle

\* and a single statement leaves all of them where they are.
LEMMA AtOnceOnly ==
  ASSUME NEW Ops, Only(Ops), NEW k, CommitAtOnce(k) \/ UNCHANGED inflight
  PROVE  Only(Ops)'
BY DEF CommitAtOnce, Only, Idle

\* A step of the support desk leaves requests of the desk,
LEMMA SupportOnly ==
  ASSUME SupportTypeOK, Only(SupportOps), [SupportNext]_supportVars
  PROVE  Only(SupportOps)'
<1>0. InflightOK BY DEF SupportTypeOK
<1>1. CASE UNCHANGED supportVars
  BY <1>1, AtOnceOnly DEF supportVars, handlerVars
<1>2. ASSUME NEW c \in Cases, NEW x, NewCase(c, x)
      PROVE  Only(SupportOps)'
  BY <1>2, AtOnceOnly DEF NewCase
<1>3. ASSUME NEW c \in Cases, NEW holder, AssignCase(c, holder)
      PROVE  Only(SupportOps)'
  BY <1>3, AtOnceOnly DEF AssignCase
<1>4. ASSUME NEW w \in Workers, NEW c \in Cases, NEW x, NEW asked,
             ReadReply(w, c, x, asked) \/ ReadAttach(w, c, x, asked)
      PROVE  Only(SupportOps)'
  <2>1. CASE ReadReply(w, c, x, asked)
    <3> DEFINE r == [Blank("reply", c, x.role) EXCEPT
                       !.by = x.by, !.moves = MoveOnReply(c, x.role),
                       !.claims = Claims(c, x.role),
                       !.next = MessageVisibility(x.role, asked)]
    <3>1. r.op = "reply" BY Zenon DEF Blank
    <3>2. QED BY <1>0, <2>1, <3>1, TakesOnly DEF ReadReply, SupportOps, Takes
  <2>2. CASE ReadAttach(w, c, x, asked)
    <3> DEFINE r == [Blank("attach", c, x.role) EXCEPT !.next = FileVisibility(x.role, asked)]
    <3>1. r.op = "attach" BY Zenon DEF Blank
    <3>2. QED BY <1>0, <2>2, <3>1, TakesOnly DEF ReadAttach, SupportOps, Takes
  <2>3. QED BY <1>4, <2>1, <2>2
<1>5. ASSUME NEW w \in Workers, NEW c \in Cases, NEW u, NEW o \in {"openThread", "closing"},
             ReadThread(w, c, u, o)
      PROVE  Only(SupportOps)'
  <2>1. PICK r : Begin(w, r) /\ r.op \in SupportOps
    <3> DEFINE r == [Blank(o, c, PartyRole(c, u)) EXCEPT !.seen = Len(thread[c])]
    <3>1. r.op = o BY Zenon DEF Blank
    <3>2. QED BY <1>5, <3>1 DEF ReadThread, SupportOps
  <2>2. QED BY <1>0, <2>1, TakesOnly DEF Takes
<1>6. ASSUME NEW w \in Workers, NEW c \in Cases, NEW to, ReadStatus(w, c, to)
      PROVE  Only(SupportOps)'
  <2>1. PICK r : Begin(w, r) /\ r.op \in SupportOps
    <3>1. MoveTo(c, "ADMIN", to).op = "setStatus" BY Zenon DEF MoveTo, Blank
    <3>2. QED BY <1>6, <3>1 DEF ReadStatus, SupportOps
  <2>2. QED BY <1>0, <2>1, TakesOnly DEF Takes
<1>7. ASSUME NEW w \in Workers, Commit(w) \/ Drop(w)
      PROVE  Only(SupportOps)'
  BY <1>0, <1>7, EndTakesNull, TakesOnly
<1>8. ASSUME NEW w \in Workers, ShowBeforeClosing(w) \/ CloseMine(w)
      PROVE  Only(SupportOps)'
  <2>1. CASE ShowBeforeClosing(w)
    <3> DEFINE r == [inflight[w] EXCEPT !.op = "closeMine"]
    <3>1. \A q \in SupportRequest : [q EXCEPT !.op = "closeMine"].op = "closeMine"
      BY DEF SupportRequest
    <3>2. inflight[w] \in SupportRequest
      BY <2>1 DEF ShowBeforeClosing, Running, Idle, SupportTypeOK, SupportOps
    <3>3. r.op = "closeMine" BY <3>1, <3>2
    <3>4. QED BY <1>0, <2>1, <3>3, TakesOnly DEF ShowBeforeClosing, SupportOps, Takes
  <2>2. CASE CloseMine(w)
    <3>1. MoveTo(inflight[w].on, inflight[w].role, "CLOSED").op = "setStatus"
      BY Zenon DEF MoveTo, Blank
    <3>2. QED BY <1>0, <2>2, <3>1, TakesOnly DEF CloseMine, SupportOps, Takes
  <2>3. QED BY <1>8, <2>1, <2>2
<1>9. ASSUME NEW w \in Workers,
             \/ WriteReply(w) \/ WriteStatus(w) \/ WriteAttach(w) \/ ShowThread(w)
             \/ DropSupport(w)
      PROVE  Only(SupportOps)'
  BY <1>7, <1>9 DEF WriteReply, WriteStatus, WriteAttach, ShowThread, DropSupport
<1>10. QED BY <1>1, <1>2, <1>3, <1>4, <1>5, <1>6, <1>8, <1>9
           DEF SupportNext, OpenCase, OpenReportCase

\* one of a conversation requests about conversations,
LEMMA ChatOnly ==
  ASSUME InflightOK, Only(ChatOps), [ChatNext]_chatVars
  PROVE  Only(ChatOps)'
<1>1. CASE UNCHANGED chatVars
  BY <1>1, AtOnceOnly DEF chatVars, handlerVars
<1>2. ASSUME NEW k, NEW side, BlockUser(k, side) \/ UnblockUser(k, side) \/ DeleteLetter(k, side)
      PROVE  Only(ChatOps)'
  BY <1>2, AtOnceOnly DEF BlockUser, UnblockUser, DeleteLetter
<1>3. ASSUME NEW w \in Workers, NEW r, Takes(w, r), r # Null => r.op \in ChatOps
      PROVE  Only(ChatOps)'
  BY <1>3, TakesOnly
<1>4. ASSUME NEW w \in Workers, NEW k, NEW side,
             ReadOpen(w, k, side) \/ ReadSend(w, k, side) \/ ReadRead(w, k, side)
      PROVE  Only(ChatOps)'
  <2>1. PICK r : Begin(w, r) /\ r.op \in ChatOps
    BY <1>4 DEF ReadOpen, ReadSend, ReadRead, ChatReq, ChatOps
  <2>2. QED BY <1>3, <2>1 DEF Takes
<1>5. ASSUME NEW w \in Workers, NEW k, NEW i, NEW side, ReadEdit(w, k, i, side)
      PROVE  Only(ChatOps)'
  <2>1. PICK r : Begin(w, r) /\ r.op \in ChatOps
    BY <1>5 DEF ReadEdit, ChatReq, ChatOps
  <2>2. QED BY <1>3, <2>1 DEF Takes
<1>6. ASSUME NEW w \in Workers, Commit(w) \/ Drop(w)
      PROVE  Only(ChatOps)'
  BY <1>3, <1>6, EndTakesNull
<1>7. ASSUME NEW w \in Workers, WriteSend(w)
      PROVE  Only(ChatOps)'
  BY <1>3, <1>7 DEF WriteSend, ChatReq, ChatOps, Takes
<1>8. ASSUME NEW w \in Workers, MarkLetters(w) \/ MarkBell(w)
      PROVE  Only(ChatOps)'
  <2>1. PICK part : Running(w, "read") /\ ReadDone(w, part) BY <1>8 DEF MarkLetters, MarkBell
  <2>2. inflight[w].op \in ChatOps BY <2>1 DEF Running, ChatOps
  <2>3. [inflight[w] EXCEPT !.left = @ \ {part}].op = inflight[w].op OBVIOUS
  <2>4. QED BY <1>3, <1>6, <2>1, <2>2, <2>3 DEF ReadDone, Takes
<1>9. ASSUME NEW w \in Workers,
             WriteOpen(w) \/ Notify(w) \/ WriteEdit(w) \/ DropChat(w)
      PROVE  Only(ChatOps)'
  BY <1>6, <1>9 DEF WriteOpen, Notify, WriteEdit, DropChat
<1>10. QED BY <1>1, <1>2, <1>4, <1>5, <1>7, <1>8, <1>9 DEF ChatNext

\* and one of the tenancy requests about it.
LEMMA TenancyOnly ==
  ASSUME InflightOK, Only(TenancyOps), [TenancyNext]_tenancyVars
  PROVE  Only(TenancyOps)'
<1>1. CASE UNCHANGED tenancyVars
  BY <1>1, AtOnceOnly DEF tenancyVars, settlingVars, handlerVars
<1>2. CASE Ripen \/ ConfirmTenancy
  BY <1>2, AtOnceOnly DEF Ripen, ConfirmTenancy, handlerVars
<1>3. ASSUME NEW w \in Workers, NEW hat, ReadDecline(w) \/ ReadAddReview(w, hat)
      PROVE  Only(TenancyOps)'
  <2>1. PICK r : Begin(w, r) /\ r.op \in TenancyOps
    BY <1>3 DEF ReadDecline, ReadAddReview, TenancyReq, TenancyOps
  <2>2. QED BY <2>1, TakesOnly DEF Takes
<1>4. ASSUME NEW w \in Workers, Commit(w) \/ Drop(w)
      PROVE  Only(TenancyOps)'
  BY <1>4, EndTakesNull, TakesOnly
<1>5. ASSUME NEW w \in Workers,
             WriteDecline(w) \/ WriteAddReview(w) \/ LookUpCounterpart(w) \/ DropTenancy(w)
      PROVE  Only(TenancyOps)'
  <2>1. \/ Commit(w) \/ Drop(w)
        \/ \E r : CommitThen(w, r) /\ r.op \in TenancyOps
    BY <1>5 DEF WriteDecline, WriteAddReview, LookUpCounterpart, DropTenancy, Die,
                TenancyReq, TenancyOps
  <2>2. QED BY <1>4, <2>1, TakesOnly DEF Takes
<1>6. QED BY <1>1, <1>2, <1>3, <1>5 DEF TenancyNext

\* The invariants of the components contain their types.
LEMMA FollowedTypes ==
  /\ IInv => SupportTypeOK
  /\ TalkInv => ChatTypeOK
  /\ ReviewsInv => ReviewsTypeOK
  /\ ReportInv => ReportsTypeOK
  /\ PointsInv => PointsTypeOK
  /\ TenancyInv => TenancyTypeOK
  /\ CapInv => SessionsTypeOK
  /\ PhoneInv => PhoneTypeOK
<1>1. IInv => SupportTypeOK
  BY DEF IInv, SupportTypeOK, RowsTyped, RequestsOK, InOrder
<1>2. TalkInv => ChatTypeOK
  BY DEF TalkInv, TalkTyped, TalkRequestsOK, TalkInOrder, TalkRequestOK, ChatTypeOK
<1>3. ReviewsInv => ReviewsTypeOK BY DEF ReviewsInv
<1>4. ReportInv => ReportsTypeOK
  BY DEF ReportInv, ReportRowsOK, ReportRow, ReportsTypeOK
<1>5. PointsInv => PointsTypeOK BY DEF PointsInv
<1>6. TenancyInv => TenancyTypeOK BY DEF TenancyInv
<1>7. CapInv => SessionsTypeOK
  BY DEF CapInv, SessionRowsOK, SessionRow, SessionsTypeOK, SettlingOK
<1>8. PhoneInv => PhoneTypeOK
  BY ElementOfSeq DEF PhoneInv, PhoneRowsOK, PhoneRequestOK, PhoneTypeOK, CodeRow
<1>9. QED BY <1>1, <1>2, <1>3, <1>4, <1>5, <1>6, <1>7, <1>8

\* At first nobody has asked for anything.
LEMMA PeopleBegin == Init => PeopleInv
<1> SUFFICES ASSUME Init PROVE PeopleInv OBVIOUS
<1>1. \A w \in Workers : Idle(w)
  BY NoneInflight DEF Init, ReviewsInit, SettlingInit, Idle
<1>2. \A Ops : Only(Ops) BY <1>1 DEF Only
<1>3. /\ IInv /\ TalkInv /\ ReviewsInv /\ ReportInv /\ StandingInv /\ PointsInv /\ TenancyInv
      /\ SessionInv /\ CapInv /\ PhoneInv
  BY InitInv, TalkBegins, ReviewsInitInv, ReportsInitInv, PointsInitInv, TenancyInitInv,
     SessionsInitInv, CapInitInv, PhoneInitInv DEF Init
<1>4. TypeOK BY <1>3, FollowedTypes DEF TypeOK
<1>5. QED BY <1>2, <1>3, <1>4 DEF PeopleInv

\* The components' steps have names of their own.
LEMMA OpsApart ==
  /\ SupportOps \cap (ChatOps \cup ReviewOps \cup ReportOps \cup PointsOps \cup TenancyOps
                       \cup SessionOps \cup PhoneOps) = {}
  /\ ChatOps \cap (ReviewOps \cup ReportOps \cup PointsOps \cup TenancyOps \cup SessionOps
                    \cup PhoneOps) = {}
  /\ ReviewOps \cap (ReportOps \cup PointsOps \cup TenancyOps \cup SessionOps \cup PhoneOps) = {}
  /\ ReportOps \cap (PointsOps \cup TenancyOps \cup SessionOps \cup PhoneOps) = {}
  /\ PointsOps \cap (TenancyOps \cup SessionOps \cup PhoneOps) = {}
  /\ TenancyOps \cap (SessionOps \cup PhoneOps) = {}
  /\ SessionOps \cap PhoneOps = {}
BY DEF SupportOps, ChatOps, ReviewOps, ReportOps, PointsOps, TenancyOps, SessionOps, PhoneOps,
       RefreshOps

\* Whatever steps are under way, the components whose steps they are not rest.
LEMMA OthersRest ==
  ASSUME TypeOK, SettlingOK', NEW Ops, Only(Ops)'
  PROVE
    /\ Ops \cap SupportOps = {} /\ UNCHANGED caseVars => SupportTypeOK'
    /\ Ops \cap ChatOps = {} /\ UNCHANGED chatRows => ChatTypeOK'
    /\ Ops \cap ReviewOps = {} /\ UNCHANGED reviewRows => ReviewsTypeOK'
    /\ Ops \cap ReportOps = {} /\ UNCHANGED reportRows => ReportsTypeOK'
    /\ Ops \cap PointsOps = {} /\ UNCHANGED pointsRows => PointsTypeOK'
    /\ Ops \cap TenancyOps = {} /\ UNCHANGED tenancyRows => TenancyTypeOK'
    /\ Ops \cap SessionOps = {} /\ UNCHANGED sessionRows => SessionsTypeOK'
    /\ Ops \cap PhoneOps = {} /\ UNCHANGED phoneRows => PhoneTypeOK'
BY SupportRests, ChatRests, ReviewsRest, ReportsRest, PointsRest, TenancyRests, SessionsRest,
   PhoneRests DEF TypeOK

\* A step of the support desk: the others rest.
LEMMA SupportFollowed ==
  ASSUME TypeOK, Only(SupportOps), IInv, [SupportNext]_supportVars,
         UNCHANGED <<chatRows, reviewRows, reportRows, pointsRows, tenancyRows, sessionRows,
                     phoneRows, died, overlapped>>
  PROVE  TypeOK' /\ Only(SupportOps)' /\ IInv'
<1>1. Only(SupportOps)' BY SupportOnly DEF TypeOK
<1>2. IInv' BY NextInv
<1>3. SupportTypeOK' BY <1>2, FollowedTypes, PTL
<1>4. SettlingOK' BY <1>3 DEF SupportTypeOK, TypeOK, TenancyTypeOK, SettlingOK
<1>5. QED BY <1>1, <1>2, <1>3, <1>4, OthersRest, OpsApart DEF TypeOK

\* One of a conversation,
LEMMA ChatFollowed ==
  ASSUME TypeOK, Only(ChatOps), TalkInv, [ChatNext]_chatVars,
         UNCHANGED <<caseVars, reviewRows, reportRows, pointsRows, tenancyRows,
                     sessionRows, phoneRows, died, overlapped>>
  PROVE  TypeOK' /\ Only(ChatOps)' /\ TalkInv'
<1>1. TalkInv' BY TalkGoesOn
<1>2. Only(ChatOps)'
  BY ChatOnly DEF TalkInv
<1>3. ChatTypeOK' BY <1>1, FollowedTypes, PTL
<1>4. SettlingOK' BY <1>3 DEF ChatTypeOK, TypeOK, TenancyTypeOK, SettlingOK
<1>5. QED BY <1>1, <1>2, <1>3, <1>4, OthersRest, OpsApart DEF TypeOK

\* of community reviews,
LEMMA ReviewsFollowed ==
  ASSUME TypeOK, Only(ReviewOps), ReviewsInv, [ReviewsNext]_reviewVars,
         UNCHANGED <<caseVars, chatRows, reportRows, pointsRows, tenancyRows,
                     sessionRows, phoneRows>>
  PROVE  TypeOK' /\ Only(ReviewOps)' /\ ReviewsInv'
<1>1. ReviewsInv' BY ReviewsNextInv
<1>2. Only(ReviewOps)'
  BY <1>1 DEF ReviewsInv, ReviewOnly, Only, ReviewRequest
<1>3. ReviewsTypeOK' BY <1>1, FollowedTypes, PTL
<1>4. SettlingOK' BY <1>3 DEF ReviewsTypeOK
<1>5. QED BY <1>1, <1>2, <1>3, <1>4, OthersRest, OpsApart DEF TypeOK

\* of reports,
LEMMA ReportsFollowed ==
  ASSUME TypeOK, Only(ReportOps), ReportInv, StandingInv, [ReportsNext]_reportVars,
         UNCHANGED <<caseVars, chatRows, reviewRows, pointsRows, tenancyRows,
                     sessionRows, phoneRows>>
  PROVE  TypeOK' /\ Only(ReportOps)' /\ ReportInv' /\ StandingInv'
<1>1. ReportInv' /\ StandingInv' BY ReportsNextInv
<1>2. Only(ReportOps)'
  BY <1>1 DEF ReportInv, ReportRowsOK, Only, ReportRequest
<1>3. ReportsTypeOK' BY <1>1, FollowedTypes, PTL
<1>4. SettlingOK' BY <1>3 DEF ReportsTypeOK
<1>5. QED BY <1>1, <1>2, <1>3, <1>4, OthersRest, OpsApart DEF TypeOK

\* of points,
LEMMA PointsFollowed ==
  ASSUME TypeOK, Only(PointsOps), PointsInv, [PointsNext]_pointsVars,
         UNCHANGED <<caseVars, chatRows, reviewRows, reportRows, tenancyRows,
                     sessionRows, phoneRows>>
  PROVE  TypeOK' /\ Only(PointsOps)' /\ PointsInv'
<1>1. PointsInv' BY PointsNextInv
<1>2. Only(PointsOps)'
  BY <1>1 DEF PointsInv, PointsOnly, Only, PointsRequest, PointsOps
<1>3. PointsTypeOK' BY <1>1, FollowedTypes, PTL
<1>4. SettlingOK' BY <1>3 DEF PointsTypeOK
<1>5. QED BY <1>1, <1>2, <1>3, <1>4, OthersRest, OpsApart DEF TypeOK

\* of tenancy reviews,
LEMMA TenancyFollowed ==
  ASSUME TypeOK, Only(TenancyOps), TenancyInv, [TenancyNext]_tenancyVars,
         UNCHANGED <<caseVars, chatRows, reviewRows, reportRows, pointsRows,
                     sessionRows, phoneRows>>
  PROVE  TypeOK' /\ Only(TenancyOps)' /\ TenancyInv'
<1>1. TenancyInv' BY TenancyNextInv
<1>2. Only(TenancyOps)'
  BY TenancyOnly DEF TenancyInv, TenancyTypeOK, SettlingOK
<1>3. TenancyTypeOK' BY <1>1, FollowedTypes, PTL
<1>4. SettlingOK' BY <1>3 DEF TenancyTypeOK
<1>5. QED BY <1>1, <1>2, <1>3, <1>4, OthersRest, OpsApart DEF TypeOK

\* of sessions,
LEMMA SessionsFollowed ==
  ASSUME TypeOK, Only(SessionOps), SessionInv, CapInv, [SessionsNext]_sessionVars,
         UNCHANGED <<caseVars, chatRows, reviewRows, reportRows, pointsRows,
                     tenancyRows, phoneRows>>
  PROVE  TypeOK' /\ Only(SessionOps)' /\ SessionInv' /\ CapInv'
<1>1. SessionInv' /\ CapInv' BY SessionsNextInv, CapNextInv
<1>2. Only(SessionOps)'
  BY <1>1 DEF CapInv, SessionRowsOK, Only, SessionRequest
<1>3. SessionsTypeOK' BY <1>1, FollowedTypes, PTL
<1>4. SettlingOK' BY <1>3 DEF SessionsTypeOK
<1>5. QED BY <1>1, <1>2, <1>3, <1>4, OthersRest, OpsApart DEF TypeOK

\* and of phone numbers.
LEMMA PhoneFollowed ==
  ASSUME TypeOK, Only(PhoneOps), PhoneInv, [PhoneNext]_phoneVars,
         UNCHANGED <<caseVars, chatRows, reviewRows, reportRows, pointsRows,
                     tenancyRows, sessionRows>>
  PROVE  TypeOK' /\ Only(PhoneOps)' /\ PhoneInv'
<1>1. PhoneInv' BY PhoneNextInv
<1>2. Only(PhoneOps)'
  BY <1>1 DEF PhoneInv, PhoneRequestOK, Only, PhoneRequest
<1>3. PhoneTypeOK' BY <1>1, FollowedTypes, PTL
<1>4. SettlingOK' BY <1>3 DEF PhoneTypeOK
<1>5. QED BY <1>1, <1>2, <1>3, <1>4, OthersRest, OpsApart DEF TypeOK

\* A behaviour takes steps of the component it follows and of no other, and keeps to it.
LEMMA OneFollowed ==
  ASSUME [Next]_<<focus, supportVars, chatRows, settledVars>>
  PROVE  /\ focus' = focus
         /\ focus = "support" =>
              [SupportNext]_supportVars
              /\ UNCHANGED <<chatRows, reviewRows, reportRows, pointsRows, tenancyRows,
                             sessionRows, phoneRows, died, overlapped>>
         /\ focus = "chat" =>
              [ChatNext]_chatVars
              /\ UNCHANGED <<caseVars, reviewRows, reportRows, pointsRows, tenancyRows,
                             sessionRows, phoneRows, died, overlapped>>
         /\ focus = "reviews" =>
              [ReviewsNext]_reviewVars
              /\ UNCHANGED <<caseVars, chatRows, reportRows, pointsRows, tenancyRows,
                             sessionRows, phoneRows>>
         /\ focus = "reports" =>
              [ReportsNext]_reportVars
              /\ UNCHANGED <<caseVars, chatRows, reviewRows, pointsRows, tenancyRows,
                             sessionRows, phoneRows>>
         /\ focus = "points" =>
              [PointsNext]_pointsVars
              /\ UNCHANGED <<caseVars, chatRows, reviewRows, reportRows, tenancyRows,
                             sessionRows, phoneRows>>
         /\ focus = "blind" =>
              [TenancyNext]_tenancyVars
              /\ UNCHANGED <<caseVars, chatRows, reviewRows, reportRows, pointsRows,
                             sessionRows, phoneRows>>
         /\ focus = "sessions" =>
              [SessionsNext]_sessionVars
              /\ UNCHANGED <<caseVars, chatRows, reviewRows, reportRows, pointsRows,
                             tenancyRows, phoneRows>>
         /\ focus = "phones" =>
              [PhoneNext]_phoneVars
              /\ UNCHANGED <<caseVars, chatRows, reviewRows, reportRows, pointsRows,
                             tenancyRows, sessionRows>>
         /\ focus \notin Components =>
              UNCHANGED <<caseVars, chatRows, reviewRows, reportRows, pointsRows, tenancyRows,
                          sessionRows, phoneRows, settlingVars>>
BY DEF Components, Next, supportVars, chatVars, settledVars, otherRows, reviewVars, reportVars, pointsVars,
       tenancyVars, sessionVars, phoneVars, settlingVars

\* Whatever a behaviour follows keeps its invariant.
LEMMA PeopleGoOn ==
  ASSUME PeopleInv, [Next]_<<focus, supportVars, chatRows, settledVars>>
  PROVE  PeopleInv'
<1>1. focus' = focus /\ TypeOK BY OneFollowed DEF PeopleInv
<1> USE DEF PeopleInv
<1>2. CASE focus = "support" BY <1>1, <1>2, OneFollowed, SupportFollowed DEF Components
<1>3. CASE focus = "chat" BY <1>1, <1>3, OneFollowed, ChatFollowed DEF Components
<1>4. CASE focus = "reviews" BY <1>1, <1>4, OneFollowed, ReviewsFollowed DEF Components
<1>5. CASE focus = "reports" BY <1>1, <1>5, OneFollowed, ReportsFollowed DEF Components
<1>6. CASE focus = "points" BY <1>1, <1>6, OneFollowed, PointsFollowed DEF Components
<1>7. CASE focus = "blind" BY <1>1, <1>7, OneFollowed, TenancyFollowed DEF Components
<1>8. CASE focus = "sessions" BY <1>1, <1>8, OneFollowed, SessionsFollowed DEF Components
<1>9. CASE focus = "phones" BY <1>1, <1>9, OneFollowed, PhoneFollowed DEF Components
<1>10. CASE focus \notin Components
  <2>1. UNCHANGED <<caseVars, chatRows, reviewRows, reportRows, pointsRows, tenancyRows,
                    sessionRows, phoneRows, settlingVars>> /\ Only({})
    BY <1>10, OneFollowed
  <2>2. UNCHANGED <<inflight, overtaken, died, overlapped>>
    BY <2>1 DEF settlingVars, handlerVars
  <2>3. SettlingOK'
    BY <1>1, <2>2 DEF TypeOK, TenancyTypeOK, SettlingOK, InflightOK, Idle
  <2>4. Only({})' BY <2>1, <2>2, AtOnceOnly
  <2>5. TypeOK' BY <1>1, <2>1, <2>3, <2>4, OthersRest DEF TypeOK
  <2>6. QED BY <1>1, <1>10, <2>4, <2>5 DEF Components
<1>11. QED
  BY <1>2, <1>3, <1>4, <1>5, <1>6, <1>7, <1>8, <1>9, <1>10 DEF Components

\* Every row and request of the eight components keeps its type, whichever of them a
\* behaviour follows, and however its requests overlap and die.
THEOREM PeopleTypes == Spec => []TypeOK
<1>1. PeopleInv => TypeOK BY DEF PeopleInv
<1>2. QED BY <1>1, PeopleBegin, PeopleGoOn, PTL DEF Spec
=============================================================================
