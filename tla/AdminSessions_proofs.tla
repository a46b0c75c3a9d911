------------------------ MODULE AdminSessions_proofs ------------------------
(***************************************************************************)
(* Proofs about AdminSessions: who gets past requireSession, which         *)
(* sessions may not be lost, how many failed logins an address gets and    *)
(* who is refused, for any number of logins and calls and any limits.      *)
(***************************************************************************)
EXTENDS AdminSessions, FiniteSetTheorems, TLAPS

SessionsTyped ==
  /\ clock \in 0..MaxTime
  /\ sessions \in [Logins -> Nat]
  /\ issued \in [Logins -> Nat]
  /\ api = [c \in Calls |-> api[c]]

(* The map of sessions and what was given out agree: a session in the map  *)
(* has the expiry of its login, and one that is given out, not logged out  *)
(* and not yet expired is in the map.                                      *)
SessionOf(l) ==
  /\ issued[l] # Never => issued[l] <= clock
  /\ sessions[l] # NoSession => issued[l] # Never /\ sessions[l] = issued[l] + TTL

IInv ==
  /\ SessionsTyped
  /\ \A l \in Logins : SessionOf(l)
  /\ GoodSessionsStay

LEMMA InitIInv == Init => IInv
BY AdminSessionsConstants
DEF Init, IInv, SessionsTyped, SessionOf, GoodSessionsStay, Never, NoSession

(* Steps that leave the sessions alone, while the clock may go on.         *)
LEMMA SessionsKept ==
  ASSUME IInv, clock' \in 0..MaxTime, clock <= clock', UNCHANGED <<sessions, issued>>,
         api' = [c \in Calls |-> api'[c]]
  PROVE  IInv'
BY AdminSessionsConstants
DEF IInv, SessionsTyped, SessionOf, GoodSessionsStay, Never, NoSession

(* Steps of one login.                                                     *)
LEMMA OneSession ==
  ASSUME IInv, NEW l \in Logins, NEW expiry \in Nat, NEW time \in Nat,
         sessions' = [sessions EXCEPT ![l] = expiry],
         issued' = [issued EXCEPT ![l] = time],
         UNCHANGED clock, api' = [c \in Calls |-> api'[c]],
         time # Never => time <= clock,
         expiry # NoSession => time # Never /\ expiry = time + TTL,
         time # Never /\ clock <= time + TTL => expiry = time + TTL
  PROVE  IInv'
<1>1. sessions' \in [Logins -> Nat] /\ issued' \in [Logins -> Nat]
  BY DEF IInv, SessionsTyped
<1>2. /\ sessions'[l] = expiry /\ issued'[l] = time
      /\ \A m \in Logins : m # l => sessions'[m] = sessions[m] /\ issued'[m] = issued[m]
  BY DEF IInv, SessionsTyped
<1>3. ASSUME NEW m \in Logins PROVE SessionOf(m)'
  <2>1. CASE m = l
    BY <1>2, <2>1 DEF SessionOf, Never, NoSession
  <2>2. CASE m # l
    BY <1>2, <2>2 DEF SessionOf, Never, NoSession, IInv
  <2> QED
    BY <2>1, <2>2
<1>4. GoodSessionsStay'
  <2> SUFFICES ASSUME NEW m \in Logins, issued'[m] # Never, clock <= issued'[m] + TTL
               PROVE  sessions'[m] = issued'[m] + TTL
    BY DEF GoodSessionsStay, Never
  <2>1. CASE m = l
    BY <1>2, <2>1
  <2>2. CASE m # l
    BY <1>2, <2>2 DEF IInv, GoodSessionsStay
  <2> QED
    BY <2>1, <2>2
<1> QED
  BY <1>1, <1>3, <1>4 DEF IInv, SessionsTyped

LEMMA IInvStep == IInv /\ [Next]_vars => IInv'
<1> SUFFICES ASSUME IInv, [Next]_vars PROVE IInv'
  OBVIOUS
<1> USE AdminSessionsConstants
<1>0. /\ clock \in 0..MaxTime /\ MaxTime \in Nat /\ TTL \in Nat
      /\ api = [c \in Calls |-> api[c]]
  BY DEF IInv, SessionsTyped
<1>1. CASE Pass
  BY <1>0, <1>1, SessionsKept DEF Pass
<1>2. CASE Restart
  <2>1. /\ sessions' = [l \in Logins |-> NoSession] /\ issued' = [l \in Logins |-> Never]
        /\ UNCHANGED clock /\ api' = [c \in Calls |-> api'[c]]
    BY <1>2 DEF Restart
  <2> QED
    BY <1>0, <2>1 DEF IInv, SessionsTyped, SessionOf, GoodSessionsStay, Never, NoSession
<1>3. ASSUME NEW l \in Logins, Check(l) \/ Fail(l) \/ Blunder(l) PROVE IInv'
  BY <1>0, <1>3, SessionsKept DEF Check, Fail, Blunder
<1>4. ASSUME NEW l \in Logins, Succeed(l) PROVE IInv'
  <2>1. /\ sessions' = [sessions EXCEPT ![l] = clock + TTL]
        /\ issued' = [issued EXCEPT ![l] = clock]
        /\ UNCHANGED <<clock, api>>
    BY <1>4 DEF Succeed, Expiry
  <2>2. PICK expiry \in Nat : expiry = clock + TTL
    BY <1>0
  <2>3. /\ clock \in Nat /\ clock # Never /\ clock <= clock
        /\ api' = [c \in Calls |-> api'[c]]
    BY <1>0, <2>1 DEF Never
  <2>4. sessions' = [sessions EXCEPT ![l] = expiry]
    BY <2>1, <2>2
  <2> QED
    BY <2>1, <2>2, <2>3, <2>4, OneSession
<1>5. ASSUME NEW l \in Logins, Logout(l) PROVE IInv'
  <2>1. /\ sessions' = [sessions EXCEPT ![l] = NoSession]
        /\ issued' = [issued EXCEPT ![l] = Never]
        /\ UNCHANGED <<clock, api>>
    BY <1>5 DEF Logout, RemovedSession
  <2>2. /\ NoSession \in Nat /\ Never \in Nat
        /\ api' = [c \in Calls |-> api'[c]]
    BY <1>0, <2>1 DEF Never, NoSession
  <2> QED
    BY <2>1, <2>2, OneSession
<1>6. ASSUME NEW c \in Calls, Enter(c) PROVE IInv'
  <2>1. PICK l \in Logins :
          IF sessions[l] = NoSession \/ Expired(l)
          THEN /\ api' = [api EXCEPT ![c] = Request("401", l)]
               /\ sessions' = [sessions EXCEPT ![l] = NoSession]
          ELSE /\ api' = [api EXCEPT ![c] = Request("entered", l)]
               /\ sessions' = sessions
    BY <1>6 DEF Enter
  <2>2. UNCHANGED <<clock, issued>> /\ api' = [d \in Calls |-> api'[d]]
    BY <1>0, <1>6 DEF Enter
  <2>3. CASE sessions[l] = NoSession \/ Expired(l)
    <3>1. issued[l] \in Nat /\ issued' = [issued EXCEPT ![l] = issued[l]]
      BY <2>2 DEF IInv, SessionsTyped
    <3>2. ~(issued[l] # Never /\ clock <= issued[l] + TTL)
      BY <1>0, <2>3, <3>1 DEF IInv, GoodSessionsStay, Expired, NoSession
    <3>3. issued[l] # Never => issued[l] <= clock
      BY DEF IInv, SessionOf
    <3> QED
      BY <2>1, <2>2, <2>3, <3>1, <3>2, <3>3, OneSession DEF NoSession
  <2>4. CASE ~(sessions[l] = NoSession \/ Expired(l))
    BY <1>0, <2>1, <2>2, <2>4, SessionsKept
  <2> QED
    BY <2>3, <2>4
<1>7. ASSUME NEW c \in Calls, Act(c) PROVE IInv'
  <2>1. UNCHANGED <<clock, sessions, issued>> /\ api' = [d \in Calls |-> api'[d]]
    BY <1>0, <1>7 DEF Act
  <2> QED
    BY <1>0, <2>1, SessionsKept
<1>8. CASE UNCHANGED vars
  BY <1>0, <1>8, SessionsKept DEF vars
<1> QED
  BY <1>1, <1>2, <1>3, <1>4, <1>5, <1>6, <1>7, <1>8 DEF Next, SigningIn

LEMMA Inductive == Spec => []IInv
BY InitIInv, IInvStep, PTL DEF Spec

(* A session that was given out and neither logged out nor past its time   *)
(* is in the map, whatever other requests remove.                          *)
THEOREM GoodSessionsStayTheorem == Spec => []GoodSessionsStay
<1>1. IInv => GoodSessionsStay
  BY DEF IInv
<1> QED
  BY <1>1, Inductive, PTL

(* requireSession lets in only who signed in during this life of the       *)
(* process, not longer ago than the session time, and has not signed out.  *)
THEOREM EntersSignedInTheorem == Spec => EntersSignedIn
<1> DEFINE Allowed(c) ==
      api[c].pc # "entered" /\ api'[c].pc = "entered" =>
        issued[api'[c].token] <= clock /\ clock <= issued[api'[c].token] + TTL
<1>1. ASSUME IInv, [Next]_vars PROVE \A c \in Calls : Allowed(c)
  <2> SUFFICES ASSUME NEW c \in Calls, api[c].pc # "entered", api'[c].pc = "entered"
               PROVE  /\ issued[api'[c].token] <= clock
                      /\ clock <= issued[api'[c].token] + TTL
    OBVIOUS
  <2>1. api = [d \in Calls |-> api[d]]
    BY <1>1 DEF IInv, SessionsTyped
  <2>2. PICK d \in Calls : Enter(d)
    <3>1. api' # api
      OBVIOUS
    <3>2. ~Restart
      BY DEF Restart, Request
    <3>3. \A d \in Calls : ~Act(d)
      BY <2>1 DEF Act, Request
    <3> QED
      BY <1>1, <3>1, <3>2, <3>3
      DEF Next, vars, Pass, SigningIn, Check, Fail, Succeed, Blunder, Logout
  <2>3. PICK l \in Logins :
          IF sessions[l] = NoSession \/ Expired(l)
          THEN api' = [api EXCEPT ![d] = Request("401", l)]
          ELSE api' = [api EXCEPT ![d] = Request("entered", l)]
    BY <2>2 DEF Enter
  <2>4. /\ ~(sessions[l] = NoSession \/ Expired(l))
        /\ api'[c].token = l
    BY <2>1, <2>3 DEF Request
  <2>5. /\ clock \in Nat /\ sessions[l] \in Nat
        /\ issued[l] <= clock /\ sessions[l] = issued[l] + TTL
    BY <1>1, <2>4, AdminSessionsConstants DEF IInv, SessionsTyped, SessionOf
  <2> QED
    BY <2>4, <2>5 DEF Expired
<1>2. IInv /\ [Next]_vars => [\A c \in Calls : Allowed(c)]_vars
  BY <1>1
<1> QED
  BY <1>2, Inductive, PTL DEF Spec, EntersSignedIn

----------------------------------------------------------------------------
(* Types.                                                                  *)
LEMMA RequestType ==
  ASSUME NEW pc \in {"idle", "entered", "acted", "401", "dead"}, NEW token \in Logins \cup {None}
  PROVE  Request(pc, token) \in [pc : {"idle", "entered", "acted", "401", "dead"},
                                 token : Logins \cup {None}]
BY DEF Request

LEMMA InitTypeOK == Init => TypeOK
<1> SUFFICES ASSUME Init PROVE TypeOK
  OBVIOUS
<1>1. Request("idle", None) \in [pc : {"idle", "entered", "acted", "401", "dead"},
                                  token : Logins \cup {None}]
  BY RequestType
<1>2. NoSession \in 0..(MaxTime + TTL) /\ Never \in 0..Never /\ 0 \in 0..MaxTime
      /\ 0 \in 0..MaxCrashes
  BY AdminSessionsConstants DEF NoSession, Never
<1> HIDE DEF NoSession, Never
<1> QED
  BY <1>1, <1>2 DEF Init, TypeOK

LEMMA TypeStep == TypeOK /\ [Next]_vars => TypeOK'
<1> SUFFICES ASSUME TypeOK, [Next]_vars PROVE TypeOK'
  OBVIOUS
<1> DEFINE Requests == [pc : {"idle", "entered", "acted", "401", "dead"},
                        token : Logins \cup {None}]
<1>0. /\ MaxTime \in Nat /\ TTL \in Nat /\ MaxCrashes \in Nat
      /\ clock \in 0..MaxTime /\ crashes \in 0..MaxCrashes
      /\ NoSession \in 0..(MaxTime + TTL) /\ Never \in 0..Never
      /\ clock \in 0..Never /\ clock + TTL \in 0..(MaxTime + TTL)
  BY AdminSessionsConstants DEF TypeOK, NoSession, Never
<1>1. CASE Pass
  <2>1. clock' \in 0..MaxTime
    BY <1>0, <1>1 DEF Pass
  <2> QED
    BY <1>1, <2>1 DEF Pass, TypeOK
<1>2. CASE Restart
  <2>1. crashes' \in 0..MaxCrashes
    BY <1>0, <1>2 DEF Restart
  <2>2. Request("dead", None) \in Requests
    BY RequestType
  <2>3. api' \in [Calls -> Requests]
    BY <1>2, <2>2 DEF Restart, TypeOK
  <2>4. login' \in [Logins -> {"idle", "checked", "refused", "wrong", "in", "dead"}]
    BY <1>2 DEF Restart, TypeOK
  <2>5. sessions' \in [Logins -> 0..(MaxTime + TTL)] /\ issued' \in [Logins -> 0..Never]
    BY <1>0, <1>2 DEF Restart
  <2> QED
    BY <1>2, <2>1, <2>3, <2>4, <2>5 DEF Restart, TypeOK
<1>3. ASSUME NEW l \in Logins, Check(l) PROVE TypeOK'
  <2>1. fails' \subseteq fails
    BY <1>3 DEF Check, Counted, RecentOf
  <2> QED
    BY <1>3, <2>1 DEF Check, TypeOK
<1>4. ASSUME NEW l \in Logins, Fail(l) PROVE TypeOK'
  <2>1. [by |-> l, at |-> clock] \in Failure
    BY <1>0 DEF Failure
  <2> QED
    BY <1>4, <2>1 DEF Fail, TypeOK
<1>5. ASSUME NEW l \in Logins, Succeed(l) PROVE TypeOK'
  <2>1. sessions' \in [Logins -> 0..(MaxTime + TTL)] /\ issued' \in [Logins -> 0..Never]
    BY <1>0, <1>5 DEF Succeed, Expiry, TypeOK
  <2> QED
    BY <1>5, <2>1 DEF Succeed, TypeOK
<1>6. ASSUME NEW l \in Logins, Blunder(l) PROVE TypeOK'
  BY <1>6 DEF Blunder, TypeOK
<1>7. ASSUME NEW l \in Logins, Logout(l) PROVE TypeOK'
  <2>1. sessions' \in [Logins -> 0..(MaxTime + TTL)] /\ issued' \in [Logins -> 0..Never]
    BY <1>0, <1>7 DEF Logout, RemovedSession, TypeOK
  <2> QED
    BY <1>7, <2>1 DEF Logout, TypeOK
<1>8. ASSUME NEW c \in Calls, Enter(c) PROVE TypeOK'
  <2>1. PICK l \in Logins, pc \in {"401", "entered"} :
          /\ api' = [api EXCEPT ![c] = Request(pc, l)]
          /\ sessions' = sessions \/ sessions' = [sessions EXCEPT ![l] = NoSession]
    BY <1>8 DEF Enter
  <2>2. Request(pc, l) \in Requests
    BY RequestType
  <2>3. api' \in [Calls -> Requests]
    BY <2>1, <2>2 DEF TypeOK
  <2>4. sessions' \in [Logins -> 0..(MaxTime + TTL)]
    BY <1>0, <2>1 DEF TypeOK
  <2> QED
    BY <1>8, <2>3, <2>4 DEF Enter, TypeOK
<1>9. ASSUME NEW c \in Calls, Act(c) PROVE TypeOK'
  <2>1. Request("acted", api[c].token) \in Requests
    BY RequestType DEF TypeOK
  <2>2. api' \in [Calls -> Requests]
    BY <1>9, <2>1 DEF Act, TypeOK
  <2> QED
    BY <1>9, <2>2 DEF Act, TypeOK
<1>10. CASE UNCHANGED vars
  BY <1>10 DEF vars, TypeOK
<1> QED
  BY <1>1, <1>2, <1>3, <1>4, <1>5, <1>6, <1>7, <1>8, <1>9, <1>10 DEF Next, SigningIn

(* Every variable keeps its type; no session outlives MaxTime + TTL.       *)
THEOREM TypeCorrect == Spec => []TypeOK
BY InitTypeOK, TypeStep, PTL DEF Spec

----------------------------------------------------------------------------
(* The limit on failures. What the next check will count, and what those   *)
(* past their check may still add.                                         *)

Slack == MaxFails - 1 + Concurrent

FailuresFit ==
  /\ IsFiniteSet(wrong)
  /\ IsFiniteSet(InFlight)
  /\ fails \subseteq wrong
  /\ RecentOf(wrong) \subseteq fails
  /\ \A f \in wrong : f.at <= clock

FewRecent == Cardinality(RecentOf(wrong)) + Cardinality(InFlight) <= Slack

FInv == FailuresFit /\ FewRecent /\ FailsSlack

LEMMA SlackType == Slack \in Nat
BY AdminSessionsConstants DEF Slack

LEMMA PartOf ==
  ASSUME NEW T, IsFiniteSet(T), NEW S \in SUBSET T
  PROVE  IsFiniteSet(S) /\ Cardinality(S) \in Nat /\ Cardinality(T) \in Nat
         /\ Cardinality(S) <= Cardinality(T)
BY FS_Subset, FS_CardinalityType

LEMMA OneMore ==
  ASSUME NEW T, IsFiniteSet(T), NEW x
  PROVE  /\ IsFiniteSet(T \cup {x}) /\ Cardinality(T) \in Nat
         /\ Cardinality(T \cup {x}) \in Nat
         /\ Cardinality(T \cup {x}) <= Cardinality(T) + 1
<1>1. Cardinality(T) \in Nat
  BY FS_CardinalityType
<1> QED
  BY <1>1, FS_AddElement

(* Windows that are over keep what they have; the present one has what is  *)
(* recent.                                                                 *)
LEMMA SlackKept ==
  ASSUME TypeOK', FInv, FailuresFit', FewRecent',
         \A f \in wrong' \ wrong : f.at = clock' /\ clock' = clock,
         clock <= clock', clock \in Nat
  PROVE  FInv'
<1> SUFFICES ASSUME NEW t \in 0..MaxTime PROVE Since(t)' <= Slack
  BY DEF FInv, FailsSlack, Slack
<1>0. clock' \in Nat /\ Window \in Nat /\ t \in Nat /\ \A f \in wrong' : f.at \in Nat
  BY AdminSessionsConstants DEF TypeOK, Failure
<1>1. CASE t < clock'
  <2>1. WrongIn(t)' \subseteq WrongIn(t)
    <3> SUFFICES ASSUME NEW f \in wrong', f.at > t - Window, f.at <= t
                 PROVE  f \in wrong
      BY DEF WrongIn
    <3> QED
      BY <1>0, <1>1
  <2>2. WrongIn(t) \subseteq wrong
    BY DEF WrongIn
  <2>3. IsFiniteSet(WrongIn(t))
    BY <2>2, FS_Subset DEF FInv, FailuresFit
  <2>4. /\ Cardinality(WrongIn(t)') \in Nat /\ Cardinality(WrongIn(t)) \in Nat
        /\ Cardinality(WrongIn(t)') <= Cardinality(WrongIn(t))
    BY <2>1, <2>3, PartOf
  <2>5. Cardinality(WrongIn(t)) <= Slack
    BY DEF FInv, FailsSlack, Since, Slack
  <2> QED
    BY <2>4, <2>5, SlackType DEF Since
<1>2. CASE ~(t < clock')
  <2>1. WrongIn(t)' \subseteq RecentOf(wrong)'
    <3> SUFFICES ASSUME NEW f \in wrong', f.at > t - Window
                 PROVE  f.at > clock' - Window
      BY DEF WrongIn, RecentOf
    <3> QED
      BY <1>0, <1>2
  <2>2. RecentOf(wrong)' \subseteq wrong'
    BY DEF RecentOf
  <2>3. IsFiniteSet(RecentOf(wrong)') /\ IsFiniteSet(InFlight')
    BY <2>2, FS_Subset DEF FailuresFit
  <2>4. /\ Cardinality(WrongIn(t)') \in Nat
        /\ Cardinality(RecentOf(wrong)') \in Nat /\ Cardinality(InFlight') \in Nat
        /\ Cardinality(WrongIn(t)') <= Cardinality(RecentOf(wrong)')
    BY <2>1, <2>3, PartOf, FS_CardinalityType
  <2>5. Cardinality(RecentOf(wrong)') + Cardinality(InFlight') <= Slack
    BY DEF FewRecent
  <2> QED
    BY <2>4, <2>5, SlackType DEF Since
<1> QED
  BY <1>1, <1>2

(* Steps after which no more is recent and nobody new is past the check.   *)
LEMMA NoMoreFailures ==
  ASSUME TypeOK, TypeOK', FInv, wrong' \subseteq wrong, fails' \subseteq wrong',
         clock <= clock', RecentOf(wrong)' \subseteq fails',
         InFlight' \subseteq InFlight
  PROVE  FInv'
<1>1. clock \in Nat /\ clock' \in Nat /\ Window \in Nat
      /\ \A f \in wrong : f.at \in Nat
  BY AdminSessionsConstants DEF TypeOK, Failure
<1>2. FailuresFit'
  <2>1. IsFiniteSet(wrong') /\ IsFiniteSet(InFlight')
    BY FS_Subset DEF FInv, FailuresFit
  <2>2. \A f \in wrong' : f.at <= clock'
    BY <1>1 DEF FInv, FailuresFit
  <2> QED
    BY <2>1, <2>2 DEF FailuresFit
<1>3. FewRecent'
  <2>1. RecentOf(wrong)' \subseteq RecentOf(wrong) /\ RecentOf(wrong) \subseteq wrong
    <3>1. \A f \in wrong' : f.at > clock' - Window => f.at > clock - Window
      BY <1>1
    <3> QED
      BY <3>1 DEF RecentOf
  <2>2. IsFiniteSet(RecentOf(wrong)) /\ IsFiniteSet(InFlight)
    BY <2>1, FS_Subset DEF FInv, FailuresFit
  <2>3. /\ Cardinality(RecentOf(wrong)') \in Nat /\ Cardinality(RecentOf(wrong)) \in Nat
        /\ Cardinality(RecentOf(wrong)') <= Cardinality(RecentOf(wrong))
    BY <2>1, <2>2, PartOf
  <2>4. /\ Cardinality(InFlight') \in Nat /\ Cardinality(InFlight) \in Nat
        /\ Cardinality(InFlight') <= Cardinality(InFlight)
    BY <2>2, PartOf
  <2> QED
    BY <2>3, <2>4, SlackType DEF FInv, FewRecent
<1> QED
  BY <1>1, <1>2, <1>3, SlackKept

----------------------------------------------------------------------------
LEMMA InitFInv == Init => FInv
<1> SUFFICES ASSUME Init PROVE FInv
  OBVIOUS
<1>1. wrong = {} /\ fails = {} /\ InFlight = {} /\ RecentOf(wrong) = {}
      /\ \A t : WrongIn(t) = {}
  BY DEF Init, InFlight, RecentOf, WrongIn
<1>2. FailuresFit
  BY <1>1, FS_EmptySet DEF FailuresFit
<1>3. FewRecent /\ FailsSlack
  BY <1>1, FS_EmptySet, SlackType DEF FewRecent, FailsSlack, Since, Slack
<1> QED
  BY <1>2, <1>3 DEF FInv

(* The check: who passes finds fewer than MaxFails recent failures.        *)
LEMMA CheckStep ==
  ASSUME TypeOK, TypeOK', FInv, NEW l \in Logins, Check(l)
  PROVE  FInv'
<1>1. /\ UNCHANGED <<clock, wrong>>
      /\ fails' = RecentOf(fails)
      /\ Cardinality(InFlight) < Concurrent
      /\ clock \in Nat
  BY DEF Check, Counted, TypeOK
<1>2. fails \subseteq wrong /\ RecentOf(wrong) \subseteq fails
      /\ IsFiniteSet(wrong) /\ IsFiniteSet(InFlight)
  BY DEF FInv, FailuresFit
<1>3. RecentOf(wrong)' = RecentOf(wrong) /\ RecentOf(wrong) = RecentOf(fails)
  BY <1>1, <1>2 DEF RecentOf
<1>4. CASE TooMany(Counted(fails))
  <2>1. InFlight' \subseteq InFlight
    BY <1>4 DEF Check, InFlight, TypeOK
  <2>2. fails' \subseteq wrong
    BY <1>1, <1>2 DEF RecentOf
  <2> QED
    BY <1>1, <1>3, <2>1, <2>2, NoMoreFailures
<1>5. CASE ~TooMany(Counted(fails))
  <2>1. InFlight' = InFlight \cup {l}
    BY <1>5 DEF Check, InFlight, TypeOK
  <2>2. /\ IsFiniteSet(InFlight') /\ Cardinality(InFlight) \in Nat
        /\ Cardinality(InFlight') \in Nat
        /\ Cardinality(InFlight') <= Cardinality(InFlight) + 1
    BY <1>2, <2>1, OneMore
  <2>3. IsFiniteSet(RecentOf(wrong)) /\ Cardinality(RecentOf(wrong)) \in Nat
    BY <1>2, PartOf DEF RecentOf
  <2>4. Cardinality(RecentOf(wrong)) < MaxFails
    BY <1>3, <1>5, <2>3, AdminSessionsConstants DEF TooMany, Counted
  <2>5. FailuresFit'
    BY <1>1, <1>2, <1>3, <2>2 DEF FailuresFit, FInv, RecentOf
  <2>6. Cardinality(RecentOf(wrong)) + Cardinality(InFlight') <= MaxFails - 1 + Concurrent
    BY <1>1, <2>2, <2>3, <2>4, AdminSessionsConstants
  <2>7. FewRecent'
    BY <1>3, <2>6 DEF FewRecent, Slack
  <2> QED
    BY <1>1, <2>5, <2>7, SlackKept
<1> QED
  BY <1>4, <1>5

(* recordFail: one failure more, and one less past its check.              *)
LEMMA FailStep ==
  ASSUME TypeOK, TypeOK', FInv, NEW l \in Logins, Fail(l)
  PROVE  FInv'
<1> DEFINE f0 == [by |-> l, at |-> clock]
<1>1. /\ clock' = clock /\ clock \in Nat
      /\ wrong' = wrong \cup {f0} /\ fails' = fails \cup {f0}
      /\ login[l] = "checked"
  BY DEF Fail, TypeOK
<1>2. f0.at = clock
  OBVIOUS
<1> HIDE DEF f0
<1>3. fails \subseteq wrong /\ RecentOf(wrong) \subseteq fails
      /\ IsFiniteSet(wrong) /\ IsFiniteSet(InFlight)
      /\ \A f \in wrong : f.at <= clock
  BY DEF FInv, FailuresFit
<1>4. RecentOf(wrong)' \subseteq RecentOf(wrong) \cup {f0}
  BY <1>1 DEF RecentOf
<1>5. InFlight' = InFlight \ {l} /\ l \in InFlight
  BY <1>1 DEF Fail, InFlight, TypeOK
<1>6. FailuresFit'
  <2>1. IsFiniteSet(wrong') /\ IsFiniteSet(InFlight')
    BY <1>1, <1>3, <1>5, FS_AddElement, FS_RemoveElement
  <2>2. fails' \subseteq wrong' /\ RecentOf(wrong)' \subseteq fails'
    BY <1>1, <1>3, <1>4
  <2>3. \A f \in wrong' : f.at <= clock'
    BY <1>1, <1>2, <1>3
  <2> QED
    BY <2>1, <2>2, <2>3 DEF FailuresFit
<1>7. FewRecent'
  <2>1. IsFiniteSet(RecentOf(wrong)) /\ Cardinality(RecentOf(wrong)) \in Nat
    BY <1>3, PartOf DEF RecentOf
  <2>2. /\ IsFiniteSet(RecentOf(wrong) \cup {f0})
        /\ Cardinality(RecentOf(wrong) \cup {f0}) \in Nat
        /\ Cardinality(RecentOf(wrong) \cup {f0}) <= Cardinality(RecentOf(wrong)) + 1
    BY <2>1, OneMore
  <2>3. /\ Cardinality(RecentOf(wrong)') \in Nat
        /\ Cardinality(RecentOf(wrong)') <= Cardinality(RecentOf(wrong) \cup {f0})
    BY <1>4, <2>2, PartOf
  <2>4. Cardinality(InFlight) \in Nat /\ Cardinality(InFlight') = Cardinality(InFlight) - 1
    BY <1>3, <1>5, FS_RemoveElement, FS_CardinalityType
  <2>5. Cardinality(RecentOf(wrong)) + Cardinality(InFlight) <= Slack
    BY DEF FInv, FewRecent
  <2> QED
    BY <2>1, <2>2, <2>3, <2>4, <2>5, SlackType DEF FewRecent
<1>8. \A f \in wrong' \ wrong : f.at = clock' /\ clock' = clock
  BY <1>1, <1>2
<1> QED
  BY <1>1, <1>6, <1>7, <1>8, SlackKept

LEMMA FailsStep ==
  ASSUME TypeOK, TypeOK', FInv, [Next]_vars
  PROVE  FInv'
<1>0. /\ clock \in Nat /\ clock <= clock
      /\ fails \subseteq wrong /\ RecentOf(wrong) \subseteq fails
  BY DEF FInv, FailuresFit, TypeOK
<1>1. CASE Pass
  <2>1. /\ clock' = clock + 1 /\ UNCHANGED <<fails, wrong, login>>
    BY <1>1 DEF Pass
  <2>2. Window \in Nat /\ \A f \in wrong : f.at \in Nat
    BY AdminSessionsConstants DEF TypeOK, Failure
  <2>3. \A f \in wrong : f.at > clock' - Window => f.at > clock - Window
    BY <1>0, <2>1, <2>2
  <2>4. RecentOf(wrong)' \subseteq RecentOf(wrong)
    BY <2>1, <2>3 DEF RecentOf
  <2>5. InFlight' \subseteq InFlight /\ clock <= clock'
    BY <1>0, <2>1 DEF InFlight
  <2> QED
    BY <1>0, <2>1, <2>4, <2>5, NoMoreFailures
<1>2. CASE Restart \/ \E l \in Logins : Succeed(l)
  <2>1. wrong' = {} /\ fails' = {} /\ clock' = clock
    BY <1>2 DEF Restart, Succeed
  <2>2. InFlight' \subseteq InFlight
    BY <1>2 DEF Restart, Succeed, InFlight, TypeOK
  <2>3. RecentOf(wrong)' \subseteq fails'
    BY <2>1 DEF RecentOf
  <2> QED
    BY <1>0, <2>1, <2>2, <2>3, NoMoreFailures
<1>3. CASE \E l \in Logins : Blunder(l) \/ Logout(l)
  <2>1. UNCHANGED <<clock, wrong, fails>>
    BY <1>3 DEF Blunder, Logout
  <2>2. InFlight' \subseteq InFlight
    BY <1>3 DEF Blunder, Logout, InFlight, TypeOK
  <2>3. RecentOf(wrong)' \subseteq fails'
    BY <1>0, <2>1 DEF RecentOf
  <2> QED
    BY <1>0, <2>1, <2>2, <2>3, NoMoreFailures
<1>4. CASE (\E c \in Calls : Enter(c) \/ Act(c)) \/ UNCHANGED vars
  <2>1. UNCHANGED <<clock, wrong, fails, login>>
    BY <1>4 DEF Enter, Act, vars
  <2>2. InFlight' \subseteq InFlight /\ RecentOf(wrong)' \subseteq fails'
    BY <1>0, <2>1 DEF InFlight, RecentOf
  <2> QED
    BY <1>0, <2>1, <2>2, NoMoreFailures
<1> QED
  BY <1>1, <1>2, <1>3, <1>4, CheckStep, FailStep DEF Next, SigningIn

THEOREM FailuresInvariance == Spec => []FInv
<1>1. (TypeOK /\ TypeOK' /\ FInv) /\ [Next]_vars => FInv'
  BY FailsStep
<1> QED
  BY <1>1, InitFInv, TypeCorrect, PTL DEF Spec

(* No window of time sees more wrong passwords than the limit and those    *)
(* that were past tooManyFails together with the last one it let through.  *)
THEOREM FailsSlackTheorem == Spec => []FailsSlack
<1>1. FInv => FailsSlack
  BY DEF FInv
<1> QED
  BY <1>1, FailuresInvariance, PTL

(* Who is refused was preceded by MaxFails wrong passwords in the window:  *)
(* tooManyFails counts nothing that was forgotten or is too old.           *)
THEOREM RefusedHadFailsTheorem == Spec => RefusedHadFails
<1> DEFINE Earned ==
      \A l \in Logins : login[l] # "refused" /\ login'[l] = "refused" => Since(clock) >= MaxFails
<1>1. ASSUME TypeOK, FInv, [Next]_vars PROVE Earned
  <2> SUFFICES ASSUME NEW l \in Logins, login[l] # "refused", login'[l] = "refused"
               PROVE  Since(clock) >= MaxFails
    OBVIOUS
  <2>1. PICK m \in Logins : Check(m)
    <3>1. login \in [Logins -> {"idle", "checked", "refused", "wrong", "in", "dead"}]
      BY <1>1 DEF TypeOK
    <3>2. ~Restart /\ \A m \in Logins : ~(Fail(m) \/ Succeed(m) \/ Blunder(m))
      BY <3>1 DEF Restart, Fail, Succeed, Blunder
    <3> QED
      BY <1>1, <3>2 DEF Next, vars, Pass, SigningIn, Logout, Enter, Act
  <2>2. TooMany(Counted(fails))
    BY <1>1, <2>1 DEF Check, TypeOK
  <2>3. Counted(fails) \subseteq WrongIn(clock)
    BY <1>1 DEF FInv, FailuresFit, Counted, RecentOf, WrongIn
  <2>4. IsFiniteSet(WrongIn(clock))
    BY <1>1, FS_Subset DEF FInv, FailuresFit, WrongIn
  <2>5. /\ Cardinality(Counted(fails)) \in Nat /\ Cardinality(WrongIn(clock)) \in Nat
        /\ Cardinality(Counted(fails)) <= Cardinality(WrongIn(clock))
    BY <2>3, <2>4, PartOf
  <2> QED
    BY <2>2, <2>5, AdminSessionsConstants DEF TooMany, Since
<1>2. TypeOK /\ FInv /\ [Next]_vars => [Earned]_vars
  BY <1>1
<1> QED
  BY <1>2, TypeCorrect, FailuresInvariance, PTL DEF Spec, RefusedHadFails
=============================================================================
