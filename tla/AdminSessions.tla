--------------------------- MODULE AdminSessions ---------------------------
(***************************************************************************)
(* Signing in to the console (internal/admin/admin.go): login with its     *)
(* limit on failures, logout, and requireSession before every handler of   *)
(* the admin API. Both maps live in memory, each behind the same mutex     *)
(* but touched in several critical sections per request.                   *)
(*                                                                         *)
(* The logins modelled come from one IP address: failures are counted per  *)
(* address and the lists share nothing. Of a list only its length is ever  *)
(* read: it is a set of times here, each with the login that failed.       *)
(***************************************************************************)
EXTENDS Naturals, FiniteSets

CONSTANTS
  Logins,      \* login requests; each names the token it may be given
  Calls,       \* requests to the admin API
  None,
  MaxFails,    \* maxLoginFails (5)
  Window,      \* loginFailWindow (15 minutes)
  TTL,         \* sessionTTL (12 hours)
  Concurrent,  \* bound: logins between check and verdict at one time
  MaxTime,     \* bound: the clock stops there
  MaxCrashes   \* bound: restarts of the service

ASSUME AdminSessionsConstants ==
  /\ None \notin Logins
  /\ MaxFails \in Nat \ {0} /\ Window \in Nat \ {0} /\ TTL \in Nat \ {0}
  /\ Concurrent \in Nat \ {0}
  /\ MaxTime \in Nat /\ MaxCrashes \in Nat

VARIABLES
  clock,
  crashes,
  fails,      \* Handler.fails of the address
  sessions,   \* Handler.sessions: the expiry of each token, 0 for no session
  login,      \* the login handlers
  api,        \* the other handlers: where they are, and the token they showed
  wrong,      \* history: 401 answers since the last success or start
  issued      \* history: when each token was given out in this life, less
              \* those logged out; MaxTime + 1 otherwise

vars == <<clock, crashes, fails, sessions, login, api, wrong, issued>>

NoSession == 0
Never == MaxTime + 1

Request(pc, token) == [pc |-> pc, token |-> token]

Failure == [by : Logins, at : 0..MaxTime]

TypeOK ==
  /\ clock \in 0..MaxTime
  /\ crashes \in 0..MaxCrashes
  /\ fails \subseteq Failure /\ wrong \subseteq Failure
  /\ sessions \in [Logins -> 0..(MaxTime + TTL)]
  /\ login \in [Logins -> {"idle", "checked", "refused", "wrong", "in", "dead"}]
  /\ api \in [Calls -> [pc : {"idle", "entered", "acted", "401", "dead"},
                        token : Logins \cup {None}]]
  /\ issued \in [Logins -> 0..Never]

Init ==
  /\ clock = 0
  /\ crashes = 0
  /\ fails = {}
  /\ sessions = [l \in Logins |-> NoSession]
  /\ login = [l \in Logins |-> "idle"]
  /\ api = [c \in Calls |-> Request("idle", None)]
  /\ wrong = {}
  /\ issued = [l \in Logins |-> Never]

Pass ==
  /\ clock < MaxTime
  /\ clock' = clock + 1
  /\ UNCHANGED <<crashes, fails, sessions, login, api, wrong, issued>>

----------------------------------------------------------------------------
(* login.                                                                  *)
RecentOf(times) == {f \in times : f.at > clock - Window}

(* tooManyFails drops the times outside the window. Mutants: one failure   *)
(* more; a window that never ends.                                         *)
StillCounted(times) == times
Counted(times) == RecentOf(times)
TooManyOffByOne(times) == Cardinality(times) > MaxFails
TooMany(times) == Cardinality(times) >= MaxFails

InFlight == {l \in Logins : login[l] = "checked"}

Check(l) ==
  /\ login[l] = "idle"
  /\ Cardinality(InFlight) < Concurrent
  /\ fails' = Counted(fails)
  /\ login' = [login EXCEPT ![l] = IF TooMany(Counted(fails)) THEN "refused" ELSE "checked"]
  /\ UNCHANGED <<clock, crashes, sessions, api, wrong, issued>>

(* The wrong user name or password: recordFail and 401.                    *)
Fail(l) ==
  /\ login[l] = "checked"
  /\ fails' = fails \cup {[by |-> l, at |-> clock]}
  /\ wrong' = wrong \cup {[by |-> l, at |-> clock]}
  /\ login' = [login EXCEPT ![l] = "wrong"]
  /\ UNCHANGED <<clock, crashes, sessions, api, issued>>

(* The right ones: the failures are forgotten and a session starts.        *)
(* Mutant: a session of twice the time.                                    *)
ExpiryDoubled == clock + TTL + TTL
Expiry == clock + TTL

Succeed(l) ==
  /\ login[l] = "checked"
  /\ fails' = {}
  /\ wrong' = {}
  /\ sessions' = [sessions EXCEPT ![l] = Expiry]
  /\ issued' = [issued EXCEPT ![l] = clock]
  /\ login' = [login EXCEPT ![l] = "in"]
  /\ UNCHANGED <<clock, crashes, api>>

(* A body that is not JSON, or no random token: neither counts.            *)
Blunder(l) ==
  /\ login[l] = "checked"
  /\ login' = [login EXCEPT ![l] = "dead"]
  /\ UNCHANGED <<clock, crashes, fails, sessions, api, wrong, issued>>

----------------------------------------------------------------------------
(* logout removes the session of the cookie. Mutant: only the cookie.      *)
KeptSession(l) == sessions
RemovedSession(l) == [sessions EXCEPT ![l] = NoSession]

Logout(l) ==
  /\ login[l] = "in"
  /\ sessions' = RemovedSession(l)
  /\ issued' = [issued EXCEPT ![l] = Never]
  /\ UNCHANGED <<clock, crashes, fails, login, api, wrong>>

(* requireSession, with any token a client still has. validSession removes *)
(* an expired one. Mutant: it expires at its last instant.                 *)
ExpiredAtOnce(l) == clock >= sessions[l]
Expired(l) == clock > sessions[l]

Enter(c) ==
  /\ api[c].pc = "idle"
  /\ \E l \in {m \in Logins : login[m] = "in"} :
       IF sessions[l] = NoSession \/ Expired(l)
       THEN /\ api' = [api EXCEPT ![c] = Request("401", l)]
            /\ sessions' = [sessions EXCEPT ![l] = NoSession]
       ELSE /\ api' = [api EXCEPT ![c] = Request("entered", l)]
            /\ sessions' = sessions
  /\ UNCHANGED <<clock, crashes, fails, login, wrong, issued>>

(* The handler behind it does its work, however much later.                *)
Act(c) ==
  /\ api[c].pc = "entered"
  /\ api' = [api EXCEPT ![c] = Request("acted", api[c].token)]
  /\ UNCHANGED <<clock, crashes, fails, sessions, login, wrong, issued>>

(* "Restarting the service signs everyone out."                            *)
Restart ==
  /\ crashes < MaxCrashes
  /\ crashes' = crashes + 1
  /\ fails' = {} /\ wrong' = {}
  /\ sessions' = [l \in Logins |-> NoSession]
  /\ issued' = [l \in Logins |-> Never]
  /\ login' = [l \in Logins |-> IF login[l] = "checked" THEN "dead" ELSE login[l]]
  /\ api' = [c \in Calls |-> IF api[c].pc = "entered" THEN Request("dead", None) ELSE api[c]]
  /\ UNCHANGED clock

SigningIn(l) == Check(l) \/ Fail(l) \/ Succeed(l) \/ Blunder(l) \/ Logout(l)

Next ==
  \/ Pass \/ Restart
  \/ \E l \in Logins : SigningIn(l)
  \/ \E c \in Calls : Enter(c) \/ Act(c)

Spec == Init /\ [][Next]_vars

----------------------------------------------------------------------------
(* "After 5 failed logins from one IP within 15 minutes, further attempts  *)
(* from that IP are refused" (README.md:131): what the two critical        *)
(* sections, check and recordFail, do guarantee. Between two successes or  *)
(* restarts no window sees more wrong passwords than the limit and those   *)
(* that passed the check together with the last one below it.              *)
WrongIn(t) == {f \in wrong : f.at > t - Window /\ f.at <= t}

Since(t) == Cardinality(WrongIn(t))

FailsSlack == \A t \in 0..MaxTime : Since(t) <= MaxFails - 1 + Concurrent

(* Nobody is refused for less: that many wrong passwords did come within   *)
(* the window before it, since the last success.                           *)
RefusedHadFails ==
  [][\A l \in Logins : login[l] # "refused" /\ login'[l] = "refused" =>
       Since(clock) >= MaxFails]_vars

(* A request gets past requireSession only with a token that a right       *)
(* password was given in this life of the process, that is not older than  *)
(* the session time and was not logged out.                                *)
EntersSignedIn ==
  [][\A c \in Calls : api[c].pc # "entered" /\ api'[c].pc = "entered" =>
       LET l == api'[c].token
       IN issued[l] <= clock /\ clock <= issued[l] + TTL]_vars

(* And a session that is good stays good: neither another request's expiry *)
(* nor another login takes it away.                                        *)
GoodSessionsStay ==
  \A l \in Logins : issued[l] # Never /\ clock <= issued[l] + TTL =>
    sessions[l] = issued[l] + TTL
=============================================================================
