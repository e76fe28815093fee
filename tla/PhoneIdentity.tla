---------------------------- MODULE PhoneIdentity ----------------------------
(***************************************************************************)
(* Whose number is it?  User.phone is free text; phoneVerifiedAt, the badge, *)
(* says the number was proven, and with it one may sign in by SMS.  Three     *)
(* flows set them: a code typed on the website, a first WhatsApp message      *)
(* (Meta has proven the number), and the answer to the bot's offer to link    *)
(* an account that typed the number; saving the profile sets them too.        *)
(*                                                                          *)
(* Wrong codes, cooldowns and blocked accounts only refuse; a text that is    *)
(* never delivered is one that nobody types.                                  *)
(***************************************************************************)
EXTENDS Settling, Sequences

CONSTANTS
  People,      \* users, those the bot will create among them
  Registered,  \* the users that signed up with an email
  Numbers,     \* phone numbers
  Cleared,     \* '', the number of a profile that cleared it (Null if it never had one)
  MaxCodes     \* bound: PhoneOtp rows

ASSUME PhoneAssumption ==
  /\ Registered \subseteq People /\ MaxCodes \in Nat
  /\ Null \notin People \cup Numbers \cup {Cleared} /\ Cleared \notin Numbers

VARIABLES
  known,     \* the users that exist
  phone,     \* User.phone
  verified,  \* the users with phoneVerifiedAt
  codes,     \* PhoneOtp rows in order: whose, and for which number; Null once used or expired
  offer,     \* per number: the account its conversation is offered to link, or Null
  proven,    \* the numbers each user has proven to hold (history)
  spoiled,   \* a profile was saved over a change of the same account (history)
  split      \* "new account" was answered once the number was verified (history)

phoneRows == <<known, phone, verified, codes, offer, proven, spoiled, split>>
phoneVars == <<phoneRows, settlingVars>>

-----------------------------------------------------------------------------
PhoneOps == {"checkClaim", "burn", "prove", "saveProfile",
             "findCandidate", "createOwner", "linkOwner"}
BotOps == {"findCandidate", "createOwner", "linkOwner"}

\* code: the PhoneOtp row it is about.  keeps: a save that leaves the badge alone.
Typed == Numbers \cup {Cleared}
PhoneRequest == [op : PhoneOps, on : People \cup {Null}, number : Typed,
                 code : 0..MaxCodes, keeps : BOOLEAN]
PhoneReq(o, u, n) == [op |-> o, on |-> u, number |-> n, code |-> 0, keeps |-> FALSE]
About(o, u, i) == [PhoneReq(o, u, codes[i].number) EXCEPT !.code = i]

PhoneInit ==
  /\ known = Registered
  /\ phone = [u \in People |-> Null]
  /\ verified = {}
  /\ codes = <<>>
  /\ offer = [n \in Numbers |-> Null]
  /\ proven = [u \in People |-> {}]
  /\ spoiled = FALSE /\ split = FALSE
  /\ SettlingInit

Owners(n) == {u \in verified : phone[u] = n}

\* claimedByAnother; linkExistingAccount asks the same.
ClaimedByAnother(n, u) == Owners(n) \ {u} # {}

\* The number is written with its badge.
Proves(u, n) ==
  /\ phone' = [phone EXCEPT ![u] = n]
  /\ verified' = verified \cup {u}
  /\ proven' = [proven EXCEPT ![u] = @ \cup {n}]

-----------------------------------------------------------------------------
(* Codes                                                                    *)

\* The PhoneOtp row.  One step with the checks before it: they are made again when
\* the code is typed, minutes later.
SendCode(u, n) ==
  /\ Len(codes) < MaxCodes
  /\ codes' = Append(codes, [user |-> u, number |-> n])
  /\ UNCHANGED <<known, phone, verified, offer, proven, spoiled, split, handlerVars, died>>

\* requestPhoneOtp: for a number that is verified neither here nor on another account.
RequestPhoneOtp(u, n) ==
  /\ u \in known /\ u \notin Owners(n) /\ ~ ClaimedByAnother(n, u)
  /\ SendCode(u, n)

\* requestPhoneLoginOtp: to a verified number only.
RequestPhoneLoginOtp(u) == u \in verified /\ phone[u] \in Numbers /\ SendCode(u, phone[u])

\* The newest code of a user that can be used, among those for the numbers `ns`.
Usable(i, u, ns) == codes[i] # Null /\ codes[i].user = u /\ codes[i].number \in ns
Newest(i, u, ns) ==
  Usable(i, u, ns) /\ \A j \in (i + 1)..Len(codes) : ~ Usable(j, u, ns)

\* verifyPhoneOtp: the user types their newest code, of whichever flow.
TypeCode(w, u) ==
  /\ \E i \in 1..Len(codes) : Newest(i, u, Numbers) /\ Begin(w, About("checkClaim", u, i))
  /\ UNCHANGED <<phoneRows, died>>

\* Mutant: that nobody else had the number was seen when the code was asked for.
TrustsRequest(n, u) == "prove"

\* Checked again: minutes have passed.
OnClaim(n, u) == IF ClaimedByAnother(n, u) THEN "burn" ELSE "prove"

CheckClaim(w) ==
  LET r == inflight[w] IN
  /\ Running(w, "checkClaim")
  /\ Reread(w, [r EXCEPT !.op = OnClaim(r.number, r.on)])
  /\ UNCHANGED <<phoneRows, died>>

Used(i) == codes' = [codes EXCEPT ![i] = Null]

\* The claimed number's code is burnt; the other way, one $transaction.
EndVerify(w) ==
  LET r == inflight[w] IN
  /\ \/ Running(w, "burn") /\ UNCHANGED <<phone, verified, proven>>
     \/ Running(w, "prove") /\ Proves(r.on, r.number)
  /\ Used(r.code)
  /\ Commit(w)
  /\ UNCHANGED <<known, offer, spoiled, split, died>>

\* verifyPhoneLoginOtp consumes the newest code of the number's owner for that number,
\* and issues a session (Sessions).
VerifyPhoneLoginOtp(u) ==
  /\ u \in verified
  /\ \E i \in 1..Len(codes) : Newest(i, u, {phone[u]}) /\ Used(i)
  /\ UNCHANGED <<known, phone, verified, offer, proven, spoiled, split, handlerVars, died>>

ExpireCode(i) ==
  /\ codes[i] # Null /\ Used(i)
  /\ UNCHANGED <<known, phone, verified, offer, proven, spoiled, split, handlerVars, died>>

-----------------------------------------------------------------------------
(* The profile                                                              *)

\* Mutant: the badge stays whatever the number becomes.
KeepsAlways(u, n) == TRUE

\* "A verified badge belongs to a NUMBER, not to an account."
KeepsBadge(u, n) == phone[u] = n

\* updateUser reads the number, and then writes the row by id.  The new one may be ''.
ReadProfile(w, u, n) ==
  /\ u \in known
  /\ Begin(w, [PhoneReq("saveProfile", u, n) EXCEPT !.keeps = KeepsBadge(u, n)])
  /\ UNCHANGED <<phoneRows, died>>

WriteProfile(w) ==
  LET r == inflight[w] IN
  /\ Running(w, "saveProfile")
  /\ phone' = [phone EXCEPT ![r.on] = r.number]
  /\ verified' = IF r.keeps THEN verified ELSE verified \ {r.on}
  /\ spoiled' = (spoiled \/ w \in overtaken)
  /\ Commit(w)
  /\ UNCHANGED <<known, codes, offer, proven, split, died>>

-----------------------------------------------------------------------------
(* WhatsApp.  The turns of a number come one after another (Inbound).        *)

BotIsBusy(n) == \E w \in Workers :
  ~ Idle(w) /\ inflight[w].op \in BotOps /\ inflight[w].number = n

\* startConversation, from a number that is verified on no account.
FirstContact(w, n) ==
  /\ ~ BotIsBusy(n) /\ offer[n] = Null
  /\ Owners(n) = {}
  /\ Begin(w, PhoneReq("findCandidate", Null, n))
  /\ UNCHANGED <<phoneRows, died>>

\* The one account that typed the number, if it has an email to show.
Candidates(n) == {u \in known \ verified : phone[u] = n}
HasCandidate(n) == \E u \in Registered : Candidates(n) = {u}

FindCandidate(w) ==
  LET n == inflight[w].number IN
  /\ Running(w, "findCandidate")
  /\ IF HasCandidate(n)
       THEN /\ \E u \in Candidates(n) : offer' = [offer EXCEPT ![n] = u]
            /\ Commit(w)
       ELSE /\ Reread(w, PhoneReq("createOwner", Null, n))
            /\ UNCHANGED offer
  /\ UNCHANGED <<known, phone, verified, codes, proven, spoiled, split, died>>

\* createWhatsAppOwner checks nothing.
NewOwner(n) == \E u \in People \ known : known' = known \cup {u} /\ Proves(u, n)

CreateOwner(w) ==
  /\ Running(w, "createOwner")
  /\ NewOwner(inflight[w].number)
  /\ Commit(w)
  /\ UNCHANGED <<codes, offer, spoiled, split, died>>

\* resolveLinkOffer, "No, new account".
AnswerNo(n) ==
  /\ offer[n] # Null /\ ~ BotIsBusy(n)
  /\ NewOwner(n)
  /\ split' = (split \/ Owners(n) # {})
  /\ offer' = [offer EXCEPT ![n] = Null]
  /\ UNCHANGED <<codes, spoiled, handlerVars, died>>

\* "Yes, that's me": linkExistingAccount.
AnswerYes(w, n) ==
  /\ offer[n] # Null /\ ~ BotIsBusy(n)
  /\ ~ ClaimedByAnother(n, offer[n])
  /\ Begin(w, PhoneReq("linkOwner", offer[n], n))
  /\ UNCHANGED <<phoneRows, died>>

LinkOwner(w) ==
  LET r == inflight[w] IN
  /\ Running(w, "linkOwner")
  /\ Proves(r.on, r.number)
  /\ offer' = [offer EXCEPT ![r.number] = Null]
  /\ Commit(w)
  /\ UNCHANGED <<known, codes, spoiled, split, died>>

\* An admin cancels the conversation.
WithdrawOffer(n) ==
  /\ offer[n] # Null /\ ~ BotIsBusy(n)
  /\ offer' = [offer EXCEPT ![n] = Null]
  /\ UNCHANGED <<known, phone, verified, codes, proven, spoiled, split, handlerVars, died>>

DropPhone(w) == Die(w) /\ UNCHANGED phoneRows

PhoneNext ==
  /\ \/ \E w \in Workers :
          \/ \E u \in People : \/ TypeCode(w, u)
                              \/ \E n \in Typed : ReadProfile(w, u, n)
          \/ \E n \in Numbers : FirstContact(w, n) \/ AnswerYes(w, n)
          \/ CheckClaim(w) \/ EndVerify(w) \/ WriteProfile(w)
          \/ FindCandidate(w) \/ CreateOwner(w) \/ LinkOwner(w) \/ DropPhone(w)
     \/ \E u \in People : \/ RequestPhoneLoginOtp(u) \/ VerifyPhoneLoginOtp(u)
                         \/ \E n \in Numbers : RequestPhoneOtp(u, n)
     \/ \E n \in Numbers : AnswerNo(n) \/ WithdrawOffer(n)
     \/ \E i \in 1..Len(codes) : ExpireCode(i)
  /\ Noted

PhoneSpec == PhoneInit /\ [][PhoneNext]_phoneVars

-----------------------------------------------------------------------------
PhoneTypeOK ==
  /\ SettlingOK
  /\ \A w \in Workers :
       ~ Idle(w) /\ inflight[w].op \in PhoneOps => inflight[w] \in PhoneRequest
  /\ known \subseteq People /\ verified \subseteq known
  /\ phone \in [People -> Typed \cup {Null}]
  /\ Len(codes) <= MaxCodes
  /\ \A i \in 1..Len(codes) :
       codes[i] \in [user : People, number : Numbers] \cup {Null}
  /\ offer \in [Numbers -> Registered \cup {Null}]
  /\ proven \in [People -> SUBSET Numbers]
  /\ {spoiled, split} \subseteq BOOLEAN

\* "A verified badge belongs to a NUMBER, not to an account": a badge stands beside a
\* number its user has proven, through codes for other numbers, links, sign-in codes
\* typed as proof and profile edits - unless the number or the badge changed between
\* the two steps of a profile save.
BadgeIsProven ==
  ~ spoiled => \A u \in verified : phone[u] \in proven[u]

\* "There can be at most one (phone.service.js enforces it)": a number is verified on
\* one account, of all the flows that may verify it in the meantime - for requests
\* that came one after another, until somebody answers the bot's offer, made before
\* the number was verified, with "new account".
OneVerifiedOwner ==
  ~ overlapped /\ ~ split =>
    \A u, v \in verified : phone[u] = phone[v] => u = v
=============================================================================
