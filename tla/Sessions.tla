------------------------------- MODULE Sessions -------------------------------
(***************************************************************************)
(* The signed-in devices of one user, and the browsers that hold their      *)
(* refresh tokens.  A refresh rotates the token; the server keeps the hash  *)
(* of the one it replaced, and takes its return for theft.  The tabs of a   *)
(* browser share one storage, but each keeps its own `refreshing` promise.  *)
(* An answer may be lost, or arrive after the user has signed out; a server *)
(* handler goes on though nobody waits for it.                              *)
(*                                                                          *)
(* A token is a pair <<session, n>>, n counting the tokens of the session.  *)
(* Access tokens, expiry (30 days) and blocked accounts are left out: each  *)
(* can only refuse a refresh.                                               *)
(***************************************************************************)
EXTENDS Settling

CONSTANTS
  Logins,       \* AuthSession ids, one per sign-in; the naturals 1..n
  Browsers,     \* browsers, each with a storage
  Tabs,         \* their tabs
  Browser,      \* the browser of a tab
  MaxSessions,  \* MAX_SESSIONS_PER_USER
  MaxTokens     \* bound: the last token of a session that is still exchanged

ASSUME SessionsAssumption ==
  /\ Logins \subseteq Nat \ {0}
  /\ Browser \in [Tabs -> Browsers]
  /\ MaxSessions \in Nat \ {0} /\ MaxTokens \in Nat

VARIABLES
  session,   \* the rows: token, prev (0 for null) and why it is revoked
  since,     \* per row, what its lastUsedAt tells: the rows used after it was
  stored,    \* per browser: the refresh token in its storage, or Null
  signedOut, \* the sessions somebody signed out of
  raced,     \* a token was sent by two tabs, or again after a reload (history)
  again      \* a refresh was sent while a sign-out of its session was under way (history)

sessionRows == <<session, since, stored, signedOut, raced, again>>
sessionVars == <<sessionRows, settlingVars>>

-----------------------------------------------------------------------------
Unissued == [token |-> 0, prev |-> 0, revoked |-> "no"]
Deleted == [Unissued EXCEPT !.revoked = "deleted"]
Exists(s) == session[s].token # 0
Live(s) == Exists(s) /\ session[s].revoked = "no"

RefreshOps == {"replaced?", "find", "revoke", "rotate", "answer"}
SessionOps == RefreshOps \cup {"logout", "trim", "delete", "welcome"}

\* tab: who asked; heard: it still waits for the answer; n: the token presented,
\* then the one answered (0 for an error); stale: the sessions read as beyond the cap.
SessionRequest == [op : SessionOps, on : Logins, tab : Tabs, n : Nat,
                   heard : BOOLEAN, stale : SUBSET Logins]
SessionReq(o, s, tab, n) ==
  [op |-> o, on |-> s, tab |-> tab, n |-> n, heard |-> TRUE, stale |-> {}]

Refreshing(w) == ~ Idle(w) /\ inflight[w].op \in RefreshOps

\* lastUsedAt: now.
UsedNow(s) ==
  since' = [q \in Logins |-> IF q # s /\ Exists(q) THEN since[q] \cup {s} ELSE {}]

Store(tab, token) == stored' = [stored EXCEPT ![Browser[tab]] = token]

\* No request is mistaken for "none".
ASSUME SessionRequestAssumption == Null \notin SessionRequest

SessionsInit ==
  /\ session = [s \in Logins |-> Unissued]
  /\ since = [s \in Logins |-> {}]
  /\ stored = [b \in Browsers |-> Null]
  /\ signedOut = {}
  /\ raced = FALSE /\ again = FALSE
  /\ SettlingInit

-----------------------------------------------------------------------------
(* Refreshing                                                               *)

\* Mutant: every 401 sends a refresh of its own.
MayAlways(tab) == TRUE

\* `refreshing ??=`: one at a time, for each tab.
MayRefresh(tab) == \A w \in Workers : Refreshing(w) /\ inflight[w].tab = tab => ~ inflight[w].heard

\* tryRefresh sends the token its browser has stored.
SendRefresh(w, tab) ==
  LET token == stored[Browser[tab]]  s == token[1] IN
  /\ token # Null /\ token[2] < MaxTokens
  /\ MayRefresh(tab)
  /\ Begin(w, SessionReq("replaced?", s, tab, token[2]))
  /\ raced' = (raced \/ \E v \in Workers : Refreshing(v) /\ inflight[v].on = s
                                           /\ inflight[v].tab # tab)
  /\ again' = (again \/ \E v \in Workers : Running(v, "logout") /\ inflight[v].on = s)
  /\ UNCHANGED <<session, since, stored, signedOut, died>>

\* refreshSession, first look-up: is it a token that was replaced?
LookUpReplaced(w) ==
  LET r == inflight[w] IN
  /\ Running(w, "replaced?")
  /\ Reread(w, [r EXCEPT !.op = IF Live(r.on) /\ session[r.on].prev = r.n THEN "revoke" ELSE "find"])
  /\ UNCHANGED <<sessionRows, died>>

RevokeReplayed(w) ==
  LET r == inflight[w] IN
  /\ Running(w, "revoke")
  /\ session' = [session EXCEPT ![r.on].revoked = IF Live(r.on) THEN "replay" ELSE @]
  /\ CommitThen(w, [r EXCEPT !.op = "answer", !.n = 0])
  /\ UNCHANGED <<since, stored, signedOut, raced, again, died>>

\* Second look-up: the session whose token it is.
FindSession(w) ==
  LET r == inflight[w] IN
  /\ Running(w, "find")
  /\ Reread(w, IF Live(r.on) /\ session[r.on].token = r.n
                 THEN [r EXCEPT !.op = "rotate"] ELSE [r EXCEPT !.op = "answer", !.n = 0])
  /\ UNCHANGED <<sessionRows, died>>

\* Written by id, whatever has become of the session; it fails if the row is gone.
Rotate(w) ==
  LET r == inflight[w]  next == session[r.on].token + 1 IN
  /\ Running(w, "rotate")
  /\ IF Exists(r.on)
       THEN /\ session' = [session EXCEPT ![r.on].token = next, ![r.on].prev = r.n]
            /\ UsedNow(r.on)
            /\ CommitThen(w, [r EXCEPT !.op = "answer", !.n = next])
       ELSE /\ Reread(w, [r EXCEPT !.op = "answer", !.n = 0])
            /\ UNCHANGED <<session, since>>
  /\ UNCHANGED <<stored, signedOut, raced, again, died>>

\* What a tab does with the answer, whatever its storage holds by now: an error
\* removes the token, a success stores the new one.
Answered(r) == IF r.n = 0 THEN Null ELSE <<r.on, r.n>>

Answer(w) ==
  /\ Running(w, "answer")
  /\ IF inflight[w].heard THEN Store(inflight[w].tab, Answered(inflight[w])) ELSE UNCHANGED stored
  /\ Drop(w)
  /\ UNCHANGED <<session, since, signedOut, raced, again, died>>

\* Mutant: a failed refresh keeps the token, to try again.
KeptOnFailure(token) == token

\* The catch of tryRefresh, whatever failed.
OnFailure(token) == Null

\* The network loses the request or its answer; the server may not notice.
LoseAnswer(w) ==
  LET tab == inflight[w].tab IN
  /\ Refreshing(w) /\ inflight[w].heard
  /\ Store(tab, OnFailure(stored[Browser[tab]]))
  /\ inflight' = [inflight EXCEPT ![w].heard = FALSE]
  /\ UNCHANGED <<session, since, signedOut, raced, again, overtaken, died>>

\* The page is reloaded: its promise is gone, the storage is not.
Reload(w) ==
  /\ Refreshing(w) /\ inflight[w].heard
  /\ raced' = TRUE
  /\ inflight' = [inflight EXCEPT ![w].heard = FALSE]
  /\ UNCHANGED <<session, since, stored, signedOut, again, overtaken, died>>

-----------------------------------------------------------------------------
(* Signing in                                                               *)

\* issueSession, after any kind of proof: the row first, the newest of all.
SignIn(w, s, tab) ==
  /\ stored[Browser[tab]] = Null
  /\ session[s] = Unissued /\ \A q \in Logins : q < s => session[q] # Unissued
  /\ session' = [session EXCEPT ![s].token = 1]
  /\ UsedNow(s)
  /\ CommitFirst(w, SessionReq("trim", s, tab, 1))
  /\ UNCHANGED <<stored, signedOut, raced, again, died>>

\* Mutant: the first of those beyond the cap is left out.
BeyondCapPlusOne == {s \in Logins : Exists(s) /\ Cardinality(since[s]) > MaxSessions}

\* orderBy: lastUsedAt desc, skip: MAX_SESSIONS_PER_USER; revoked ones counted too.
BeyondCap == {s \in Logins : Exists(s) /\ Cardinality(since[s]) >= MaxSessions}

FindStale(w) ==
  LET stale == BeyondCap IN
  /\ Running(w, "trim")
  /\ Reread(w, [inflight[w] EXCEPT !.op = IF stale = {} THEN "welcome" ELSE "delete",
                                    !.stale = stale])
  /\ UNCHANGED <<sessionRows, died>>

DeleteStale(w) ==
  LET Kept(s) == s \notin inflight[w].stale IN
  /\ Running(w, "delete")
  /\ since' = [s \in Logins |-> IF Kept(s) THEN {q \in since[s] : Kept(q)} ELSE {}]
  /\ session' = [s \in Logins |-> IF Kept(s) THEN session[s] ELSE Deleted]
  /\ CommitThen(w, [inflight[w] EXCEPT !.op = "welcome", !.stale = {}])
  /\ UNCHANGED <<stored, signedOut, raced, again, died>>

\* loginSuccess
Welcome(w) ==
  /\ Running(w, "welcome")
  /\ Store(inflight[w].tab, <<inflight[w].on, 1>>)
  /\ Drop(w)
  /\ UNCHANGED <<session, since, signedOut, raced, again, died>>

-----------------------------------------------------------------------------
(* Signing out                                                              *)

\* signOut drops the token and tells the server, without waiting for either
\* that or a refresh under way.
SignOut(w, tab) ==
  LET token == stored[Browser[tab]] IN
  /\ token # Null
  /\ Store(tab, Null)
  /\ signedOut' = signedOut \cup {token[1]}
  /\ Begin(w, SessionReq("logout", token[1], tab, token[2]))
  /\ UNCHANGED <<session, since, raced, again, died>>

\* Mutant: the current token only.
IsCurrent(s, n) == session[s].token = n

\* "Accept the current OR just-rotated hash."
IsTokenOf(s, n) == n \in {session[s].token, session[s].prev}

\* revokeSessionByToken, one updateMany.
Logout(w) ==
  LET r == inflight[w] IN
  /\ Running(w, "logout")
  /\ session' = [session EXCEPT ![r.on].revoked =
                   IF Live(r.on) /\ IsTokenOf(r.on, r.n) THEN "asked" ELSE @]
  /\ Commit(w)
  /\ UNCHANGED <<since, stored, signedOut, raced, again, died>>

\* revokeAllSessions, by logout-all or a password reset.
RevokeAll ==
  /\ \E s \in Logins : Live(s)
  /\ session' = [s \in Logins |-> IF Live(s) THEN [session[s] EXCEPT !.revoked = "asked"]
                                  ELSE session[s]]
  /\ overtaken' = {w \in Workers : ~ Idle(w)}
  /\ UNCHANGED <<since, stored, signedOut, raced, again, inflight, died>>

\* revokeSessionById, from the list of devices.
RevokeOne(s) ==
  /\ Live(s)
  /\ session' = [session EXCEPT ![s].revoked = "asked"]
  /\ CommitAtOnce(s)
  /\ UNCHANGED <<since, stored, signedOut, raced, again, died>>

\* The server process dies with the request; a waiting tab sees an error.
DropSession(w) ==
  /\ Die(w)
  /\ IF Refreshing(w) /\ inflight[w].heard THEN Store(inflight[w].tab, Null) ELSE UNCHANGED stored
  /\ UNCHANGED <<session, since, signedOut, raced, again>>

SessionsNext ==
  /\ \/ \E w \in Workers :
          \/ \E tab \in Tabs : \/ SendRefresh(w, tab) \/ SignOut(w, tab)
                               \/ \E s \in Logins : SignIn(w, s, tab)
          \/ LookUpReplaced(w) \/ RevokeReplayed(w) \/ FindSession(w) \/ Rotate(w)
          \/ Answer(w) \/ LoseAnswer(w) \/ Reload(w)
          \/ FindStale(w) \/ DeleteStale(w) \/ Welcome(w) \/ Logout(w) \/ DropSession(w)
     \/ RevokeAll
     \/ \E s \in Logins : RevokeOne(s)
  /\ UNCHANGED overlapped

SessionsSpec == SessionsInit /\ [][SessionsNext]_sessionVars

-----------------------------------------------------------------------------
SessionsTypeOK ==
  /\ SettlingOK
  /\ \A w \in Workers :
       ~ Idle(w) /\ inflight[w].op \in SessionOps => inflight[w] \in SessionRequest
  /\ session \in [Logins -> [token : Nat, prev : Nat, revoked : {"no", "asked", "replay", "deleted"}]]
  /\ since \in [Logins -> SUBSET Logins]
  /\ stored \in [Browsers -> (Logins \X Nat) \cup {Null}]
  /\ signedOut \subseteq Logins
  /\ {raced, again} \subseteq BOOLEAN

\* "A burst of 401s must produce ONE rotation, not a race of many": unless two tabs
\* sent the same token, or a reloaded page sent it again, a browser is never taken
\* for a thief, however its answers are lost, late or crossed by a sign-out; and
\* when all is answered the token it holds is the one the server expects.
OneRotation ==
  ~ raced =>
    /\ \A s \in Logins : session[s].revoked # "replay"
    /\ Quiet => \A b \in Browsers : stored[b] # Null =>
                  LET s == stored[b][1] IN Exists(s) => session[s].token = stored[b][2]

\* "A login loop must not grow rows forever": when every login has finished, a user
\* has no more sessions than the cap, though two logins read different ones and
\* refreshes reorder them in between.
CapHolds == Quiet /\ ~ died => Cardinality({s \in Logins : Exists(s)}) <= MaxSessions

\* "Accept the current OR just-rotated hash - a client that refreshed and then
\* immediately logged out may only have the older token in hand": a session that was
\* signed out of has ended, even if a refresh of it was under way, provided the
\* sign-out reached the server before the browser could refresh once more.
SignOutEndsSession ==
  Quiet /\ ~ died /\ ~ raced /\ ~ again =>
    \A s \in signedOut : ~ Live(s)
=============================================================================
