-------------------------- MODULE CliSession_proofs --------------------------
(***************************************************************************)
(* Safety of the session engine, proved for every user table, attempt      *)
(* limit, stack size, input budget and clock width, and for every set of   *)
(* configurations, commands and API calls.  The last section is about the  *)
(* clock that counts an idle period and a lockout.                         *)
(***************************************************************************)
EXTENDS CliSession, CliNav_proofs

-----------------------------------------------------------------------------
(* The inductive invariant                                                 *)

SessionOK(s) == s \in CliType /\ Len(s.nav.stack) <= MaxDepth

\* A counter at its limit means a lockout of its own kind, or the end.
CountersOK(s) ==
  s.session # "STOP" =>
    /\ s.auth # "LOCKOUT" \/ s.resume # "USERNAME" => s.attempts < MaxAttempts
    /\ s.auth # "LOCKOUT" \/ s.resume = "USERNAME" => s.enableAttempts < MaxAttempts

\* What an enable password or a lockout resumes is a state a user may be in.
LoginOK(s) ==
  /\ s.session \in {"INIT", "SHOW_BANNER"} =>
       ~s.mustLogin /\ s.auth \in {"NONE", "ENABLE_MODE_PASSWORD"}
  /\ s.auth = "ENABLE_MODE_PASSWORD" => s.resume # "USERNAME"
  /\ s.session = "RUN" /\ s.mustLogin =>
       /\ s.auth # "NONE"
       /\ s.auth \in {"ENABLE_MODE_PASSWORD", "LOCKOUT"} => s.resume # "NONE"

Authenticated(s) ==
  \/ s.auth = "AUTHENTICATED"
  \/ s.auth \in {"ENABLE_MODE_PASSWORD", "LOCKOUT"} /\ s.resume = "AUTHENTICATED"

UserOK(s) == Authenticated(s) => s.who = {s.username}

\* While a login is pending its callback's leftovers may still be on the stack;
\* the next attempt begins by clearing it.
LoginPending(s) ==
  \/ s.auth \in {"USERNAME", "PASSWORD"}
  \/ s.auth = "LOCKOUT" /\ s.resume = "USERNAME"

Below(s) == NavBelow(s.nav, s.granted)

PrivilegeOK(s) == LoginPending(s) \/ Below(s)

HistoryOK(s) ==
  /\ "other" \notin s.history
  /\ s.line = "other" => s.historyCleared

Good(s) ==
  /\ SessionOK(s) /\ CountersOK(s) /\ LoginOK(s) /\ UserOK(s)
  /\ PrivilegeOK(s) /\ HistoryOK(s)

(* A change that can disturb nothing but the navigation.                   *)
LEMMA SetNavGood ==
  ASSUME NEW s, Good(s), NEW n, NavFits(n), Below(s) => NavBelow(n, s.granted)
  PROVE  Good(SetNav(s, n)) /\ (Below(s) => Below(SetNav(s, n)))
BY DEF Good, SessionOK, CountersOK, LoginOK, UserOK, Authenticated, PrivilegeOK, LoginPending,
       Below, HistoryOK, SetNav, CliType, NavFits

LEMMA UnprivilegedNavFits ==
  ASSUME NEW n, NavFits(n)
  PROVE  /\ NavFits(UnprivilegedNav(n))
         /\ \A p \in Nat : NavBelow(UnprivilegedNav(n), p)
<1>1. NavFits(NavReset(n)) /\ PrivUser \in Privileges
  BY NavResetFits, PrivilegesAssumption
<1> QED BY <1>1, SetPrivilegeFits, UnprivilegedBelow DEF UnprivilegedNav

LEMMA EndIdentityOK ==
  ASSUME NEW s, s \in CliType
  PROVE  /\ EndIdentity(s) \in CliType
         /\ EndIdentity(s).nav = s.nav /\ EndIdentity(s).session = s.session
         /\ EndIdentity(s).granted = PrivUser /\ ~EndIdentity(s).mustLogin
<1>1. (IF s.history = {} THEN {} ELSE {"other"}) \in SUBSET {"own", "other"}
  OBVIOUS
<1>2. PrivUser \in Nat /\ {} \in SUBSET Names
  BY DEF PrivUser
<1> QED BY <1>1, <1>2 DEF EndIdentity, CliType

LEMMA ClearHistoryOK ==
  ASSUME NEW s, s \in CliType
  PROVE  ClearHistory(s) \in CliType /\ HistoryOK(ClearHistory(s))
BY DEF ClearHistory, CliType, HistoryOK

\* Everything a reset leaves, whatever state it was called in.
LEMMA SessionResetOK ==
  ASSUME NEW s, SessionOK(s)
  PROVE  /\ SessionOK(SessionReset(s)) /\ Below(SessionReset(s)) /\ HistoryOK(SessionReset(s))
         /\ SessionReset(s).auth = "NONE" /\ ~SessionReset(s).mustLogin
         /\ SessionReset(s).attempts = 0 /\ SessionReset(s).enableAttempts = 0
<1> DEFINE n == UnprivilegedNav(s.nav)
           e == EndIdentity(s)
           r == [e EXCEPT !.nav = n, !.idleArmed = FALSE, !.auth = "NONE", !.attempts = 0,
                          !.enableAttempts = 0, !.lockTs = 0, !.username = NoUser]
<1>1. NavFits(n) /\ NavBelow(n, PrivUser)
  BY UnprivilegedNavFits DEF SessionOK, CliType, NavFits, PrivUser
<1>2. e \in CliType /\ e.granted = PrivUser /\ ~e.mustLogin
  BY EndIdentityOK DEF SessionOK
<1>3. SessionReset(s) = ClearHistory(r)
  BY DEF SessionReset
<1> HIDE DEF n, e
<1>4. 0 \in Times /\ NoUser \in Names /\ "NONE" \in AuthStates /\ 0 \in Nat
  BY BoundsAssumption DEF Times, Names, AuthStates, PromptStates
<1>5. r \in CliType /\ r.nav = n /\ r.granted = PrivUser /\ ~r.mustLogin /\ r.auth = "NONE"
      /\ r.attempts = 0 /\ r.enableAttempts = 0
  BY <1>1, <1>2, <1>4 DEF CliType, NavFits
<1> HIDE DEF r
<1>6. ClearHistory(r).nav = n /\ ClearHistory(r).granted = PrivUser
      /\ ~ClearHistory(r).mustLogin /\ ClearHistory(r).auth = "NONE"
      /\ ClearHistory(r).attempts = 0 /\ ClearHistory(r).enableAttempts = 0
  BY <1>5 DEF ClearHistory, CliType
<1> QED BY <1>1, <1>3, <1>5, <1>6, ClearHistoryOK DEF SessionOK, Below, NavFits

-----------------------------------------------------------------------------
(* Every operation on the session struct keeps Good                        *)

\* What Good says does not depend on the clock, the transport or idleArmed.
LEMMA SameGood ==
  ASSUME NEW s, Good(s), NEW t \in CliType,
         t.session = s.session, t.auth = s.auth, t.resume = s.resume,
         t.attempts = s.attempts, t.enableAttempts = s.enableAttempts,
         t.username = s.username, t.nav = s.nav, t.history = s.history,
         t.historyCleared = s.historyCleared, t.granted = s.granted, t.who = s.who,
         t.mustLogin = s.mustLogin, t.line = s.line
  PROVE  Good(t) /\ (Below(s) <=> Below(t))
BY DEF Good, SessionOK, CountersOK, LoginOK, UserOK, Authenticated, PrivilegeOK, LoginPending,
       Below, HistoryOK

LEMMA IdlePeriodRestartGood ==
  ASSUME NEW s, Good(s), now \in Times
  PROVE  /\ Good(IdlePeriodRestart(s)) /\ (Below(s) <=> Below(IdlePeriodRestart(s)))
         /\ IdlePeriodRestart(s).session = s.session /\ IdlePeriodRestart(s).auth = s.auth
         /\ IdlePeriodRestart(s).resume = s.resume
<1> DEFINE t == IdlePeriodRestart(s)
<1>1. t \in CliType /\ t = [s EXCEPT !.lastAction = t.lastAction]
  BY DEF IdlePeriodRestart, Good, SessionOK, CliType
<1> HIDE DEF t
<1> QED BY <1>1, SameGood DEF Good, SessionOK, CliType, t

LEMMA TouchActivityGood ==
  ASSUME NEW s, Good(s), now \in Times
  PROVE  /\ Good(TouchActivity(s)) /\ (Below(s) <=> Below(TouchActivity(s)))
         /\ TouchActivity(s).session = s.session /\ TouchActivity(s).auth = s.auth
<1> DEFINE t == [s EXCEPT !.idleArmed = TRUE]
<1>1. t \in CliType
  BY DEF Good, SessionOK, CliType
<1>2. Good(t) /\ (Below(s) <=> Below(t)) /\ t.session = s.session /\ t.auth = s.auth
  BY <1>1, SameGood DEF Good, SessionOK, CliType
<1> QED BY <1>2, IdlePeriodRestartGood DEF TouchActivity

LEMMA OutputGood ==
  ASSUME NEW s, Good(s), NEW t \in AfterOutput(s)
  PROVE  /\ Good(t) /\ (Below(s) <=> Below(t)) /\ t.session = s.session /\ t.auth = s.auth
<1>1. CASE t = s
  BY <1>1
<1>2. CASE t = [s EXCEPT !.txError = TRUE]
  <2>1. t \in CliType
    BY <1>2 DEF Good, SessionOK, CliType
  <2> QED BY <1>2, <2>1, SameGood DEF Good, SessionOK, CliType
<1> QED BY <1>1, <1>2 DEF AfterOutput

LEMMA StoppedGood ==
  ASSUME NEW s, Good(s)
  PROVE  /\ Good(Stopped(s)) /\ (Below(s) <=> Below(Stopped(s)))
         /\ Stopped(s).session = "STOP" /\ Stopped(s).txError = s.txError
BY DEF Good, SessionOK, CountersOK, LoginOK, UserOK, Authenticated, PrivilegeOK, LoginPending,
       Below, HistoryOK, Stopped, CliType, Sessions

LEMMA RestartGood ==
  ASSUME NEW s, SessionOK(s)
  PROVE  Good(RestartSession(s)) /\ Below(RestartSession(s))
         /\ RestartSession(s).session = "SHOW_BANNER"
<1> DEFINE r == SessionReset(s)
<1>1. /\ SessionOK(r) /\ Below(r) /\ HistoryOK(r) /\ r.auth = "NONE" /\ ~r.mustLogin
      /\ r.attempts = 0 /\ r.enableAttempts = 0
  BY SessionResetOK
<1> HIDE DEF r
<1>2. SessionOK([r EXCEPT !.session = "SHOW_BANNER"])
  BY <1>1 DEF SessionOK, CliType, Sessions
<1>3. Good([r EXCEPT !.session = "SHOW_BANNER"]) /\ Below([r EXCEPT !.session = "SHOW_BANNER"])
  BY <1>1, <1>2, BoundsAssumption
     DEF Good, SessionOK, CountersOK, LoginOK, UserOK, Authenticated, PrivilegeOK,
         LoginPending, Below, HistoryOK, CliType
<1> QED BY <1>1, <1>3 DEF RestartSession, r, SessionOK, CliType

LEMMA StartGood ==
  ASSUME NEW s, SessionOK(s), now \in Times
  PROVE  Good(CliStart(s)) /\ Below(CliStart(s))
<1> DEFINE r == SessionReset(s)
           t == [r EXCEPT !.txError = FALSE, !.authRequested = FALSE, !.session = "INIT"]
<1>1. /\ SessionOK(r) /\ Below(r) /\ HistoryOK(r) /\ r.auth = "NONE" /\ ~r.mustLogin
      /\ r.attempts = 0 /\ r.enableAttempts = 0
  BY SessionResetOK
<1> HIDE DEF r
<1>2. SessionOK(t)
  BY <1>1 DEF SessionOK, CliType, Sessions
<1>3. Good(t) /\ Below(t)
  BY <1>1, <1>2, BoundsAssumption
     DEF Good, SessionOK, CountersOK, LoginOK, UserOK, Authenticated, PrivilegeOK,
         LoginPending, Below, HistoryOK, CliType
<1> HIDE DEF t
<1> QED BY <1>3, IdlePeriodRestartGood DEF CliStart, r, t

LEMMA RequestAuthGood ==
  ASSUME NEW s, Good(s)
  PROVE  /\ Good(RequestAuth(s)) /\ (Below(s) => Below(RequestAuth(s)))
         /\ RequestAuth(s).session = s.session
<1>1. CASE s.session \in {"INIT", "SHOW_BANNER"}
  <2>1. [s EXCEPT !.authRequested = TRUE] \in CliType
    BY DEF Good, SessionOK, CliType
  <2>2. RequestAuth(s) = [s EXCEPT !.authRequested = TRUE]
    BY <1>1 DEF RequestAuth
  <2> QED BY <2>1, <2>2, SameGood DEF Good, SessionOK, CliType
<1>2. CASE s.session \notin {"INIT", "SHOW_BANNER"}
  <2> DEFINE n == UnprivilegedNav(s.nav)
             e == EndIdentity(s)
             r == [e EXCEPT !.nav = n, !.attempts = 0, !.enableAttempts = 0, !.lockTs = 0,
                            !.username = NoUser, !.auth = "USERNAME", !.mustLogin = TRUE]
  <2>1. NavFits(n) /\ NavBelow(n, PrivUser)
    BY UnprivilegedNavFits DEF Good, SessionOK, CliType, NavFits, PrivUser
  <2>2. e \in CliType /\ e.granted = PrivUser /\ e.session = s.session
    BY EndIdentityOK DEF Good, SessionOK
  <2>3. RequestAuth(s) = ClearHistory(r)
    BY <1>2 DEF RequestAuth
  <2> HIDE DEF n, e
  <2>4. 0 \in Times /\ NoUser \in Names /\ "USERNAME" \in AuthStates /\ 0 \in Nat
    BY BoundsAssumption DEF Times, Names, AuthStates, AuthInputs
  <2>5. r \in CliType /\ r.nav = n /\ r.granted = PrivUser /\ r.mustLogin
        /\ r.auth = "USERNAME" /\ r.attempts = 0 /\ r.enableAttempts = 0
        /\ r.session = s.session
    BY <2>1, <2>2, <2>4 DEF CliType, NavFits
  <2> HIDE DEF r
  <2> DEFINE c == ClearHistory(r)
  <2>6. c \in CliType /\ HistoryOK(c) /\ c.nav = n /\ c.granted = PrivUser
        /\ c.mustLogin /\ c.auth = "USERNAME"
        /\ c.attempts = 0 /\ c.enableAttempts = 0 /\ c.session = s.session
    BY <2>5, ClearHistoryOK DEF ClearHistory, CliType
  <2> HIDE DEF c
  <2>7. Good(c) /\ Below(c)
    BY <1>2, <2>1, <2>6, BoundsAssumption
       DEF Good, SessionOK, CountersOK, LoginOK, UserOK, Authenticated, PrivilegeOK,
           LoginPending, Below, NavFits, CliType
  <2> QED BY <2>3, <2>6, <2>7 DEF c
<1> QED BY <1>1, <1>2

\* A limit that is reached leaves a lockout that resumes what it interrupted, or ends
\* the session.
LEMMA LimitReachedGood ==
  ASSUME NEW s, SessionOK(s), UserOK(s), HistoryOK(s), now \in Times,
         s.auth \notin {"ENABLE_MODE_PASSWORD", "LOCKOUT"}, s.session = "RUN",
         NEW res, \/ res = "USERNAME" /\ s.enableAttempts < MaxAttempts
                                     /\ s.auth \in {"USERNAME", "PASSWORD"}
                  \/ /\ res = s.auth /\ res \in PromptStates /\ s.attempts < MaxAttempts
                     /\ Below(s) /\ (s.mustLogin => res # "NONE")
  PROVE  Good(LimitReached(s, res))
<1>1. CASE CanLock(s)
  <2> DEFINE t == LimitReached(s, res)
  <2>1. t = [s EXCEPT !.auth = "LOCKOUT", !.resume = res,
                      !.lockTs = IF s.hasClock THEN now ELSE s.lockTs]
    BY <1>1 DEF LimitReached
  <2>2. (IF s.hasClock THEN now ELSE s.lockTs) \in Times /\ "LOCKOUT" \in AuthStates
        /\ res \in PromptStates \cup {"USERNAME"}
    BY DEF SessionOK, CliType, AuthStates, AuthInputs
  <2> HIDE DEF t
  <2>3. t \in CliType /\ t.auth = "LOCKOUT" /\ t.resume = res /\ t.nav = s.nav
        /\ t.session = "RUN" /\ t.attempts = s.attempts /\ t.enableAttempts = s.enableAttempts
        /\ t.granted = s.granted /\ t.who = s.who /\ t.username = s.username
        /\ t.mustLogin = s.mustLogin /\ t.history = s.history /\ t.line = s.line
        /\ t.historyCleared = s.historyCleared
    BY <2>1, <2>2 DEF SessionOK, CliType
  <2>4. Good(t)
    BY <2>3 DEF Good, SessionOK, CountersOK, LoginOK, UserOK, Authenticated, PrivilegeOK,
                LoginPending, Below, HistoryOK, PromptStates
  <2> QED BY <2>4 DEF t
<1>2. CASE ~CanLock(s)
  <2>1. LimitReached(s, res) = Stopped(s)
    BY <1>2 DEF LimitReached
  <2>2. Good(Stopped(s))
    BY DEF Good, SessionOK, CountersOK, LoginOK, UserOK, Authenticated, PrivilegeOK,
           LoginPending, Below, HistoryOK, Stopped, CliType, Sessions, PromptStates
  <2> QED BY <2>1, <2>2
<1> QED BY <1>1, <1>2

LEMMA PromptUsernameGood ==
  ASSUME NEW s \in CliType, Len(s.nav.stack) <= MaxDepth, HistoryOK(s), s.session = "RUN",
         s.attempts < MaxAttempts, s.enableAttempts < MaxAttempts
  PROVE  Good(PromptUsername(s))
<1>1. NoUser \in Names /\ "USERNAME" \in AuthStates
  BY DEF Names, AuthStates, AuthInputs
<1> QED BY <1>1 DEF Good, SessionOK, CountersOK, LoginOK, UserOK, Authenticated, PrivilegeOK,
                    LoginPending, HistoryOK, PromptUsername, CliType

LEMMA LockoutEndGood ==
  ASSUME NEW s, Good(s), now \in Times, s.auth = "LOCKOUT", s.session = "RUN"
  PROVE  Good(LockoutEnd(s)) /\ LockoutEnd(s).session = "RUN"
<1> DEFINE z == [s EXCEPT !.lockTs = 0]
           e == IdlePeriodRestart(z)
<1>1. z \in CliType
  BY BoundsAssumption DEF Good, SessionOK, CliType, Times
<1>2. Good(z) /\ (Below(s) <=> Below(z)) /\ z.session = "RUN" /\ z.auth = "LOCKOUT"
      /\ z.resume = s.resume
  BY <1>1, SameGood DEF Good, SessionOK, CliType
<1> HIDE DEF z
<1>3. Good(e) /\ (Below(s) <=> Below(e)) /\ e.session = "RUN" /\ e.auth = "LOCKOUT"
      /\ e.resume = s.resume
  BY <1>2, IdlePeriodRestartGood
<1> HIDE DEF e
<1>4. CASE s.resume = "USERNAME"
  <2> DEFINE f == [e EXCEPT !.attempts = 0]
  <2>1. f \in CliType /\ Len(f.nav.stack) <= MaxDepth /\ HistoryOK(f) /\ f.session = "RUN"
        /\ f.attempts < MaxAttempts /\ f.enableAttempts < MaxAttempts
    BY <1>3, <1>4, BoundsAssumption DEF Good, SessionOK, CliType, HistoryOK, CountersOK
  <2>2. LockoutEnd(s) = PromptUsername(f)
    BY <1>4 DEF LockoutEnd, e, z
  <2> HIDE DEF f
  <2>3. PromptUsername(f).session = "RUN"
    BY <2>1 DEF PromptUsername, CliType
  <2> QED BY <2>1, <2>2, <2>3, PromptUsernameGood
<1>5. CASE s.resume # "USERNAME"
  <2> DEFINE f == [e EXCEPT !.enableAttempts = 0, !.auth = s.resume]
  <2>1. s.resume \in PromptStates /\ s.resume \in AuthStates
    BY <1>5 DEF Good, SessionOK, CliType, AuthStates
  <2>2. f \in CliType
    BY <1>3, <2>1 DEF Good, SessionOK, CliType
  <2>3. Good(f) /\ f.session = "RUN"
    BY <1>3, <1>5, <2>1, <2>2, BoundsAssumption
       DEF Good, SessionOK, CountersOK, LoginOK, UserOK, Authenticated, PrivilegeOK,
           LoginPending, Below, HistoryOK, PromptStates, CliType
  <2>4. LockoutEnd(s) = f
    BY <1>5 DEF LockoutEnd, e, z
  <2> QED BY <2>3, <2>4
<1> QED BY <1>4, <1>5

LEMMA LoginBeginGood ==
  ASSUME NEW s, Good(s), s.auth = "PASSWORD"
  PROVE  /\ Good(LoginBegin(s)) /\ Below(LoginBegin(s))
         /\ LoginBegin(s).session = s.session /\ LoginBegin(s).auth = "PASSWORD"
         /\ LoginBegin(s).username = s.username
<1> DEFINE n == UnprivilegedNav(s.nav)
<1>1. NavFits(n) /\ NavBelow(n, PrivUser) /\ PrivUser \in Nat
  BY UnprivilegedNavFits DEF Good, SessionOK, CliType, NavFits, PrivUser
<1> HIDE DEF n
<1> DEFINE t == [s EXCEPT !.nav = n, !.granted = PrivUser]
<1>2. Good(t) /\ Below(t) /\ t.session = s.session /\ t.auth = "PASSWORD"
      /\ t.username = s.username
  BY <1>1 DEF Good, SessionOK, CountersOK, LoginOK, UserOK, Authenticated, PrivilegeOK,
              LoginPending, Below, HistoryOK, CliType, NavFits
<1> QED BY <1>2 DEF LoginBegin, n

\* The navigation may rise to a privilege that is granted with it.
LEMMA SetNavGrantGood ==
  ASSUME NEW s, Good(s), NEW n, NavFits(n), NEW p \in Nat,
         Below(s) => NavBelow(n, Larger(s.granted, p))
  PROVE  /\ Good(Grant(SetNav(s, n), p)) /\ (Below(s) => Below(Grant(SetNav(s, n), p)))
         /\ Grant(SetNav(s, n), p).session = s.session /\ Grant(SetNav(s, n), p).auth = s.auth
         /\ Grant(SetNav(s, n), p).username = s.username
<1> DEFINE g == Larger(s.granted, p)
           t == [s EXCEPT !.nav = n, !.granted = g]
<1>1. g \in Nat
  BY DEF Good, SessionOK, CliType, Larger
<1>2. Grant(SetNav(s, n), p) = t
  BY DEF Grant, SetNav, Good, SessionOK, CliType
<1> HIDE DEF g
<1>3. Good(t) /\ (Below(s) => Below(t)) /\ t.session = s.session /\ t.auth = s.auth
      /\ t.username = s.username
  <2>1. Below(s) => NavBelow(n, g)
    BY DEF g
  <2> QED BY <1>1, <2>1
       DEF Good, SessionOK, CountersOK, LoginOK, UserOK, Authenticated, PrivilegeOK,
           LoginPending, Below, HistoryOK, CliType, NavFits
<1> QED BY <1>2, <1>3

LEMMA GrantingGood ==
  ASSUME NEW s, Good(s), NEW p \in Privileges
  PROVE  /\ Good(Granting(s, p)) /\ (Below(s) => Below(Granting(s, p)))
         /\ Granting(s, p).session = s.session /\ Granting(s, p).auth = s.auth
         /\ Granting(s, p).username = s.username
<1> DEFINE n == SetPrivilege(s.nav, p)
<1>1. p \in Nat /\ s.granted \in Nat /\ NavFits(s.nav)
  BY PrivilegesAssumption DEF Good, SessionOK, CliType, NavFits
<1>2. NavFits(n) /\ (Below(s) => NavBelow(n, Larger(s.granted, p)))
  BY <1>1, SetPrivilegeFits, SetPrivilegeBelow DEF Below, Larger
<1> HIDE DEF n
<1>3. Granting(s, p) = Grant(SetNav(s, n), p)
  BY DEF Granting, n
<1> QED BY <1>1, <1>2, <1>3, SetNavGrantGood

\* Entering privileged exec grants what it raises.
LEMMA EnterPrivilegedGood ==
  ASSUME NEW s, Good(s), NEW n, n \in {EnableAtOnce(s.nav), EnableGranted(s.nav)}
  PROVE  /\ Good(EnterPrivileged(s, n)) /\ (Below(s) => Below(EnterPrivileged(s, n)))
         /\ EnterPrivileged(s, n).session = s.session /\ EnterPrivileged(s, n).auth = s.auth
<1> DEFINE g == Larger(s.granted, PrivPrivileged)
<1>1. NavFits(s.nav) /\ s.granted \in Nat /\ PrivPrivileged \in Nat
  BY DEF Good, SessionOK, CliType, NavFits, PrivPrivileged
<1>2. g \in Nat /\ g >= PrivPrivileged /\ g >= s.granted
  BY <1>1 DEF Larger
<1> HIDE DEF g
<1>3. NavFits(n)
  BY <1>1, EnableFits
<1>4. Below(s) => NavBelow(n, g)
  <2>1. Below(s) => NavBelow(s.nav, g)
    BY <1>1, <1>2, BelowMore DEF Below
  <2> QED BY <1>1, <1>2, <2>1, EnableBelow
<1> QED BY <1>1, <1>3, <1>4, SetNavGrantGood DEF EnterPrivileged, g

LEMMA LoginAcceptedGood ==
  ASSUME NEW s, Good(s), Below(s), s.session = "RUN", s.auth = "PASSWORD"
  PROVE  Good(LoginAccepted(s))
<1> DEFINE m == IF s.nav.privilege >= PrivPrivileged THEN "enable" ELSE s.nav.mode
           n == [s.nav EXCEPT !.mode = m]
           t == [s EXCEPT !.auth = "AUTHENTICATED", !.attempts = 0, !.who = {s.username},
                          !.nav = n]
<1>1. s.nav \in Navs
  BY DEF Good, SessionOK, CliType
<1>2. m \in Modes
  BY <1>1 DEF Navs, Modes
<1> HIDE DEF m
<1>3. NavFits(n) /\ n.stack = s.nav.stack /\ n.privilege = s.nav.privilege
  BY <1>1, <1>2 DEF NavFits, Navs, Good, SessionOK
<1>4. LoginAccepted(s) = t
  BY <1>1 DEF LoginAccepted, m, Good, SessionOK, CliType, Navs
<1> HIDE DEF n
<1>5. "AUTHENTICATED" \in AuthStates /\ {s.username} \in SUBSET Names
  BY DEF AuthStates, PromptStates, Good, SessionOK, CliType
<1>6. NavBelow(n, s.granted)
  BY <1>3 DEF Below, NavBelow
<1>7. Good(t)
  <2>1. t \in CliType
    BY <1>3, <1>5 DEF Good, SessionOK, CliType, NavFits
  <2>2. /\ t.session = "RUN" /\ t.auth = "AUTHENTICATED" /\ t.attempts = 0 /\ t.nav = n
        /\ t.who = {t.username} /\ t.enableAttempts = s.enableAttempts
        /\ t.granted = s.granted /\ t.history = s.history /\ t.line = s.line
        /\ t.historyCleared = s.historyCleared
    BY <1>5 DEF Good, SessionOK, CliType
  <2>3. CountersOK(t)
    BY <2>2, BoundsAssumption DEF Good, CountersOK
  <2>4. UserOK(t) /\ LoginOK(t) /\ HistoryOK(t)
    BY <2>2 DEF Good, UserOK, LoginOK, HistoryOK
  <2> QED BY <1>3, <1>6, <2>1, <2>2, <2>3, <2>4
          DEF Good, SessionOK, PrivilegeOK, Below, NavFits
<1> QED BY <1>4, <1>7

LEMMA LoginRejectedGood ==
  ASSUME NEW s, Good(s), now \in Times, s.session = "RUN", s.auth = "PASSWORD"
  PROVE  Good(LoginRejected(s))
<1> DEFINE n == [s.nav EXCEPT !.privilege = PrivUser]
           r == [s EXCEPT !.nav = n, !.attempts = s.attempts + 1, !.granted = PrivUser]
<1>1. NavFits(n)
  <2>1. PrivUser \in Privileges
    BY PrivilegesAssumption
  <2>2. s.nav \in Navs /\ Len(s.nav.stack) <= MaxDepth
    BY DEF Good, SessionOK, CliType
  <2> QED BY <2>1, <2>2 DEF NavFits, Navs
<1>2. LoginRejected(s) =
        IF r.attempts >= MaxAttempts THEN LimitReached(r, "USERNAME") ELSE PromptUsername(r)
  BY DEF LoginRejected, Good, SessionOK, CliType, Navs
<1> HIDE DEF n
<1>3. r \in CliType /\ r.nav = n /\ r.session = "RUN" /\ r.auth = "PASSWORD"
      /\ r.attempts \in Nat /\ r.enableAttempts < MaxAttempts /\ HistoryOK(r)
  <2>1. s.attempts + 1 \in Nat /\ PrivUser \in Nat /\ n \in Navs
    BY <1>1 DEF Good, SessionOK, CliType, PrivUser, NavFits
  <2>2. r \in CliType
    BY <2>1 DEF Good, SessionOK, CliType
  <2>3. r.nav = n /\ r.session = "RUN" /\ r.auth = "PASSWORD" /\ r.attempts = s.attempts + 1
        /\ r.enableAttempts = s.enableAttempts /\ r.history = s.history /\ r.line = s.line
        /\ r.historyCleared = s.historyCleared
    BY DEF Good, SessionOK, CliType
  <2>4. s.enableAttempts < MaxAttempts
    BY DEF Good, CountersOK
  <2> QED BY <2>1, <2>2, <2>3, <2>4 DEF Good, HistoryOK
<1> HIDE DEF r
<1>4. SessionOK(r) /\ UserOK(r)
  BY <1>1, <1>3 DEF SessionOK, NavFits, UserOK, Authenticated
<1>5. Good(LimitReached(r, "USERNAME"))
  BY <1>3, <1>4, LimitReachedGood
<1>6. ~(r.attempts >= MaxAttempts) => Good(PromptUsername(r))
  BY <1>3, <1>4, PromptUsernameGood, BoundsAssumption DEF SessionOK
<1> QED BY <1>2, <1>5, <1>6

LEMMA LoginVerdictGood ==
  ASSUME NEW s, Good(s), Below(s), now \in Times, NEW ok
  PROVE  Good(LoginVerdict(s, ok))
BY LoginAcceptedGood, LoginRejectedGood DEF LoginVerdict

LEMMA TableVerdictGood ==
  ASSUME NEW s, Good(s), Below(s), now \in Times, NEW ok
  PROVE  Good(TableVerdict(s, ok))
<1>1. CASE ok /\ s.username \in Users
  <2>1. UserPriv[s.username] \in Privileges
    BY <1>1, UsersAssumption
  <2> QED BY <1>1, <2>1, GrantingGood, LoginVerdictGood DEF TableVerdict
<1>2. CASE ~(ok /\ s.username \in Users)
  BY <1>2, LoginVerdictGood DEF TableVerdict
<1> QED BY <1>1, <1>2

LEMMA EnableVerdictGood ==
  ASSUME NEW s, Good(s), now \in Times, NEW ok
  PROVE  Good(EnableVerdict(s, ok))
<1>1. CASE s.session # "RUN" \/ s.auth # "ENABLE_MODE_PASSWORD"
  BY <1>1 DEF EnableVerdict
<1>2. CASE s.session = "RUN" /\ s.auth = "ENABLE_MODE_PASSWORD"
  <2> DEFINE t == [s EXCEPT !.auth = s.resume]
             z == [t EXCEPT !.enableAttempts = 0]
             r == [t EXCEPT !.enableAttempts = t.enableAttempts + 1]
  <2>1. s.resume \in PromptStates /\ s.resume \in AuthStates
    BY <1>2 DEF Good, SessionOK, CliType, LoginOK, AuthStates
  <2>2. t \in CliType /\ t.session = "RUN" /\ t.auth = s.resume /\ t.resume = s.resume
        /\ t.nav = s.nav
    BY <1>2, <2>1 DEF Good, SessionOK, CliType
  <2>3. Good(t) /\ Below(t) /\ (t.mustLogin => t.auth # "NONE")
    BY <1>2, <2>1, <2>2
       DEF Good, SessionOK, CountersOK, LoginOK, UserOK, Authenticated, PrivilegeOK,
           LoginPending, Below, HistoryOK, PromptStates, CliType
  <2>4. EnableVerdict(s, ok) = EnableResult(t, ok)
    BY <1>2 DEF EnableVerdict
  <2>5. t.auth \in PromptStates
    BY <2>1, <2>2
  <2> HIDE DEF t
  <2>6. Good(z) /\ z.nav = t.nav
    BY <2>2, <2>3, BoundsAssumption
       DEF Good, SessionOK, CountersOK, LoginOK, UserOK, Authenticated, PrivilegeOK,
           LoginPending, Below, HistoryOK, CliType
  <2>7. Good(EnterPrivileged(z, EnableGranted(t.nav)))
    BY <2>6, EnterPrivilegedGood
  <2>8. r \in CliType /\ r.session = "RUN" /\ r.auth = t.auth /\ r.resume = t.resume
        /\ r.nav = t.nav /\ r.granted = t.granted /\ r.attempts < MaxAttempts
        /\ r.mustLogin = t.mustLogin /\ UserOK(r) /\ HistoryOK(r) /\ SessionOK(r)
        /\ r.enableAttempts \in Nat
    BY <2>2, <2>3, <2>5
       DEF Good, SessionOK, CountersOK, UserOK, Authenticated, HistoryOK, CliType, PromptStates
  <2> HIDE DEF r, z
  <2>9. Below(r) /\ r.auth \notin {"ENABLE_MODE_PASSWORD", "LOCKOUT"}
        /\ t.resume = r.auth
    BY <2>2, <2>3, <2>5, <2>8 DEF Below, PromptStates
  <2>10. Good(LimitReached(r, t.resume))
    BY <2>3, <2>5, <2>8, <2>9, LimitReachedGood
  <2>11. ~(r.enableAttempts >= MaxAttempts) => Good(r)
    BY <2>3, <2>5, <2>8, <2>9, BoundsAssumption
       DEF Good, CountersOK, LoginOK, PrivilegeOK, PromptStates
  <2> QED BY <2>4, <2>7, <2>10, <2>11 DEF EnableResult, r, z
<1> QED BY <1>1, <1>2

-----------------------------------------------------------------------------
(* Built-in commands, lines and the banner                                 *)

LEMMA EndingGood ==
  ASSUME NEW s, Good(s), NEW policy \in {"close", "reset", "ignore"}
  PROVE  Good(Ending(s, policy)) /\ (Below(s) => Below(Ending(s, policy)))
<1>1. Good(RestartSession(s)) /\ Below(RestartSession(s))
  BY RestartGood DEF Good
<1> QED BY <1>1, StoppedGood DEF Ending

LEMMA SetModeGood ==
  ASSUME NEW s, Good(s), NEW m \in Modes
  PROVE  /\ Good(SetNav(s, SetMode(s.nav, m)))
         /\ Below(s) => Below(SetNav(s, SetMode(s.nav, m)))
<1>1. NavFits(s.nav) /\ s.granted \in Nat
  BY DEF Good, SessionOK, CliType, NavFits
<1>2. NavFits(SetMode(s.nav, m)) /\ (Below(s) => NavBelow(SetMode(s.nav, m), s.granted))
  BY <1>1, SetModeFits, SetModeBelow DEF Below
<1> QED BY <1>2, SetNavGood

LEMMA ExitGood ==
  ASSUME NEW s, Good(s), config \in ConfigType
  PROVE  Good(CmdExit(s)) /\ (Below(s) => Below(CmdExit(s)))
<1>1. CASE AtFloor(s.nav)
  <2>1. config.exitPolicy \in {"close", "reset", "ignore"}
    BY DEF ConfigType
  <2> QED BY <1>1, <2>1, EndingGood DEF CmdExit
<1>2. CASE ~AtFloor(s.nav)
  <2>1. NavFits(s.nav) /\ s.granted \in Nat /\ s.nav.stack \in Seq(Frames)
    BY DEF Good, SessionOK, CliType, NavFits, Navs
  <2>2. Len(s.nav.stack) \in 1 .. Len(s.nav.stack)
    BY <1>2, <2>1 DEF AtFloor
  <2>3. NavFits(LeaveLevel(s.nav)) /\ (Below(s) => NavBelow(LeaveLevel(s.nav), s.granted))
    BY <2>1, <2>2, NavReturnFits, NavReturnBelow DEF LeaveLevel, Below
  <2> QED BY <1>2, <2>3, SetNavGood DEF CmdExit
<1> QED BY <1>1, <1>2

LEMMA EnableGood ==
  ASSUME NEW s, Good(s)
  PROVE  Good(CmdEnable(s)) /\ (Below(s) => Below(CmdEnable(s)))
<1>1. CASE IsAuthInput(s)
  BY <1>1 DEF CmdEnable
<1>2. CASE ~IsAuthInput(s) /\ (s.nav.privilege >= PrivPrivileged \/ ~config.secret)
  BY <1>2, EnterPrivilegedGood DEF CmdEnable
<1>3. CASE ~IsAuthInput(s) /\ ~(s.nav.privilege >= PrivPrivileged \/ ~config.secret)
  <2> DEFINE t == [s EXCEPT !.resume = s.auth, !.auth = "ENABLE_MODE_PASSWORD"]
  <2>1. s.auth \in PromptStates
    BY <1>3 DEF IsAuthInput, Good, SessionOK, CliType, AuthStates
  <2>2. "ENABLE_MODE_PASSWORD" \in AuthStates
    BY DEF AuthStates, AuthInputs
  <2>3. t \in CliType /\ t.auth = "ENABLE_MODE_PASSWORD" /\ t.resume = s.auth
    BY <2>1, <2>2 DEF Good, SessionOK, CliType
  <2>4. Good(t) /\ (Below(s) => Below(t))
    BY <2>1, <2>3
       DEF Good, SessionOK, CountersOK, LoginOK, UserOK, Authenticated, PrivilegeOK,
           LoginPending, Below, HistoryOK, PromptStates, CliType
  <2>5. CmdEnable(s) = t
    BY <1>3 DEF CmdEnable
  <2> QED BY <2>4, <2>5
<1> QED BY <1>1, <1>2, <1>3

LEMMA DisableGood ==
  ASSUME NEW s, Good(s)
  PROVE  Good(CmdDisable(s)) /\ Below(CmdDisable(s))
<1> DEFINE n == UnprivilegedNav(s.nav)
<1>1. NavFits(n) /\ NavBelow(n, PrivUser) /\ PrivUser \in Nat
  BY UnprivilegedNavFits DEF Good, SessionOK, CliType, NavFits, PrivUser
<1> HIDE DEF n
<1> DEFINE t == [s EXCEPT !.nav = n, !.granted = PrivUser]
<1>2. Good(t) /\ Below(t)
  BY <1>1 DEF Good, SessionOK, CountersOK, LoginOK, UserOK, Authenticated, PrivilegeOK,
              LoginPending, Below, HistoryOK, CliType, NavFits
<1> QED BY <1>2 DEF CmdDisable, n

LEMMA BuiltinGood ==
  ASSUME NEW s, Good(s), config \in ConfigType, NEW c \in Builtins
  PROVE  Good(Builtin(s, c)) /\ (Below(s) => Below(Builtin(s, c)))
<1>1. CASE c = "exit"
  BY <1>1, ExitGood DEF Builtin
<1>2. CASE c = "quit"
  <2>1. config.quitPolicy \in {"close", "reset", "ignore"}
    BY DEF ConfigType
  <2> QED BY <1>2, <2>1, EndingGood DEF Builtin, CmdQuit
<1>3. CASE c = "enable"
  BY <1>3, EnableGood DEF Builtin
<1>4. CASE c = "disable"
  BY <1>4, DisableGood DEF Builtin
<1>5. CASE c = "end"
  BY <1>5, SetModeGood DEF Builtin, CmdEnd, Modes
<1>6. CASE c = "configure"
  BY <1>6, SetModeGood DEF Builtin, CmdConfigure, Modes
<1> QED BY <1>1, <1>2, <1>3, <1>4, <1>5, <1>6 DEF Builtins

LEMMA SubmittedGood ==
  ASSUME NEW s, Good(s)
  PROVE  /\ Good(Submitted(s)) /\ (Below(s) => Below(Submitted(s)))
         /\ Submitted(s).session = s.session
BY DEF Good, SessionOK, CountersOK, LoginOK, UserOK, Authenticated, PrivilegeOK, LoginPending,
       Below, HistoryOK, Submitted, CliType

LEMMA ExecutedGood ==
  ASSUME NEW s, Good(s)
  PROVE  Good(Executed(s)) /\ (Below(s) => Below(Executed(s)))
BY DEF Good, SessionOK, CountersOK, LoginOK, UserOK, Authenticated, PrivilegeOK, LoginPending,
       Below, HistoryOK, Executed, CliType

LEMMA ClearHistoryGood ==
  ASSUME NEW s, Good(s)
  PROVE  Good(ClearHistory(s)) /\ (Below(s) => Below(ClearHistory(s)))
BY DEF Good, SessionOK, CountersOK, LoginOK, UserOK, Authenticated, PrivilegeOK, LoginPending,
       Below, HistoryOK, ClearHistory, CliType

LEMMA BannerGood ==
  ASSUME NEW s, Good(s), s.session = "SHOW_BANNER"
  PROVE  Good(Banner(s)) /\ Banner(s).session = "RUN"
<1>1. CASE config.requireAuth \/ s.authRequested
  <2> DEFINE t == [s EXCEPT !.authRequested = FALSE, !.attempts = 0, !.lockTs = 0,
                            !.session = "RUN", !.mustLogin = TRUE]
  <2>1. 0 \in Times
    BY BoundsAssumption DEF Times
  <2>2. t \in CliType /\ t.session = "RUN" /\ t.attempts = 0 /\ HistoryOK(t)
        /\ t.enableAttempts = s.enableAttempts /\ t.nav = s.nav
    BY <2>1 DEF Good, SessionOK, CliType, Sessions, HistoryOK
  <2>3. s.enableAttempts < MaxAttempts
    BY DEF Good, CountersOK, LoginOK
  <2> HIDE DEF t
  <2>4. Len(t.nav.stack) <= MaxDepth /\ t.attempts < MaxAttempts
        /\ t.enableAttempts < MaxAttempts
    BY <2>2, <2>3, BoundsAssumption DEF Good, SessionOK
  <2>5. Good(PromptUsername(t))
    BY <2>2, <2>4, PromptUsernameGood
  <2>6. PromptUsername(t).session = "RUN"
    BY <2>2 DEF PromptUsername, CliType
  <2> QED BY <1>1, <2>5, <2>6 DEF Banner, t
<1>2. CASE ~(config.requireAuth \/ s.authRequested)
  <2> DEFINE t == [s EXCEPT !.auth = "NONE", !.session = "RUN"]
  <2>1. t \in CliType /\ t.session = "RUN" /\ t.auth = "NONE"
    BY DEF Good, SessionOK, CliType, Sessions, AuthStates, PromptStates
  <2>2. ~s.mustLogin /\ s.attempts < MaxAttempts /\ s.enableAttempts < MaxAttempts
    BY DEF Good, CountersOK, LoginOK
  <2>3. Below(s)
    BY DEF Good, LoginOK, LoginPending, PrivilegeOK
  <2>4. Good(t)
    BY <2>1, <2>2, <2>3
       DEF Good, SessionOK, CountersOK, LoginOK, UserOK, Authenticated, PrivilegeOK, Below,
           HistoryOK, CliType
  <2> QED BY <1>2, <2>1, <2>4 DEF Banner
<1> QED BY <1>1, <1>2

-----------------------------------------------------------------------------
(* The steps                                                               *)

DataOK ==
  /\ Good(cli)
  /\ config \in Configs
  /\ now \in Times
  /\ age \in [idle : 0 .. AgeCap, lock : 0 .. AgeCap]

\* Input is read in a running session only; what a tick is about to report agrees
\* with the state it leaves; a login callback starts from a cleared navigation.
RunOK ==
  /\ run \in RunType
  /\ run.at \in {"lockout", "rx"} => cli.session = "RUN"
  /\ run.at \notin {"loop", "end"} => run.result = "OK"
  /\ run.at = "end" =>
       /\ run.result # "OK" => cli.session = "STOP"
       /\ cli.session = "STOP" /\ ~cli.txError => run.result # "OK"
  /\ run.at = "authCb" => Below(cli)

IInv == DataOK /\ RunOK

LEMMA DataFacts ==
  ASSUME DataOK
  PROVE  /\ Good(cli) /\ cli \in CliType /\ now \in Times /\ config \in ConfigType
         /\ SessionOK(cli)
BY ConfigsAssumption DEF DataOK, Good, SessionOK

LEMMA AgedOK ==
  ASSUME age \in [idle : 0 .. AgeCap, lock : 0 .. AgeCap], NEW s, NEW b, Aged(s, b)
  PROVE  age' \in [idle : 0 .. AgeCap, lock : 0 .. AgeCap]
BY AgeCapAssumption DEF Aged

LEMMA BecomesData ==
  ASSUME DataOK, NEW s, Good(s), Becomes(s) \/ BecomesActive(s)
  PROVE  DataOK' /\ cli' = s
BY AgedOK DEF DataOK, Becomes, BecomesActive

LEMMA SameData ==
  ASSUME DataOK, UNCHANGED <<cli, config, now, age>>
  PROVE  DataOK'
BY DEF DataOK

LEMMA ReadsFacts ==
  ASSUME IInv, Reads
  PROVE  /\ BudgetLeft \in 0 .. MaxRx /\ run.at = "rx" /\ cli.session = "RUN"
         /\ run.result = "OK"
<1>1. run.budget \in 0 .. MaxRx /\ run.at = "rx" /\ run.budget > 0
  BY DEF IInv, RunOK, RunType, Reads, At
<1> QED BY <1>1, BoundsAssumption DEF BudgetLeft, IInv, RunOK

\* The end of every round of the input loop.
LEMMA RoundDoneKeeps ==
  ASSUME IInv, run.at \notin {"loop", "end"}, NEW s, Good(s), NEW rc \in Results,
         NEW left \in 0 .. MaxRx, RoundDone(s, rc, left)
  PROVE  IInv'
<1>1. PICK w \in AfterOutput(s) :
        LET e == IF rc = "OK" THEN w ELSE Stopped(w)
        IN  /\ cli' = e /\ UNCHANGED <<config, now>>
            /\ run' = [run EXCEPT
                 !.budget = left, !.node = ROOT, !.depth = 0, !.command = "none",
                 !.at = IF rc = "OK" /\ ~e.txError /\ e.session = "RUN" THEN "rx" ELSE "end",
                 !.result = IF rc # "OK" THEN rc
                            ELSE IF ~e.txError /\ e.session = "STOP" THEN "QUIT" ELSE @]
            /\ Aged(e, At("rx"))
  BY DEF RoundDone
<1> DEFINE e == IF rc = "OK" THEN w ELSE Stopped(w)
<1>2. Good(e) /\ (rc # "OK" => e.session = "STOP")
  BY <1>1, OutputGood, StoppedGood
<1>3. /\ cli' = e /\ UNCHANGED <<config, now>>
      /\ run' = [run EXCEPT
                 !.budget = left, !.node = ROOT, !.depth = 0, !.command = "none",
                 !.at = IF rc = "OK" /\ ~e.txError /\ e.session = "RUN" THEN "rx" ELSE "end",
                 !.result = IF rc # "OK" THEN rc
                            ELSE IF ~e.txError /\ e.session = "STOP" THEN "QUIT" ELSE @]
      /\ Aged(e, At("rx"))
  BY <1>1
<1> HIDE DEF e
<1>4. DataOK'
  BY <1>2, <1>3, AgedOK DEF IInv, DataOK
<1>5. run.result = "OK" /\ run \in RunType
  BY DEF IInv, RunOK
<1>6. run' \in RunType
  BY <1>3, <1>5, ContextsAssumption DEF RunType, Results, AppPlaces, EnginePlaces
<1>7. RunOK'
  BY <1>2, <1>3, <1>5, <1>6 DEF RunOK, RunType
<1> QED BY <1>4, <1>7 DEF IInv

LEMMA EnterCallbackKeeps ==
  ASSUME IInv, run.at = "rx", NEW s, Good(s), NEW place \in {"authCb", "enableCb", "handler"},
         NEW node \in Contexts, NEW left \in 0 .. MaxRx, EnterCallback(s, place, node, left),
         place = "authCb" => Below(s)
  PROVE  IInv'
<1>1. DataOK' /\ cli' = s
  BY BecomesData DEF IInv, EnterCallback
<1>2. Len(s.nav.stack) \in Nat
  BY DEF Good, SessionOK, CliType, Navs
<1>3. run \in RunType /\ run.result = "OK"
  BY DEF IInv, RunOK
<1>4. run' \in RunType /\ run'.result = "OK" /\ run'.at = place
  BY <1>2, <1>3 DEF EnterCallback, RunType, AppPlaces
<1> QED BY <1>1, <1>4 DEF IInv, RunOK

LEMMA AskHookKeeps ==
  ASSUME IInv, Reads, NEW s, Good(s), NEW c \in {"exit", "quit", "key"}, AskHook(s, c)
  PROVE  IInv'
<1>1. DataOK' /\ cli' = s
  BY BecomesData DEF IInv, AskHook
<1>2. run \in RunType /\ run.result = "OK" /\ BudgetLeft \in 0 .. MaxRx
  BY ReadsFacts DEF IInv, RunOK
<1>3. run' \in RunType /\ run'.result = "OK" /\ run'.at = "hook"
  BY <1>2 DEF AskHook, RunType, AppPlaces
<1> QED BY <1>1, <1>3 DEF IInv, RunOK

\* A step that only ends the tick.
LEMMA FinishKeeps ==
  ASSUME run \in RunType, DataOK', NEW rc \in Results, Finish(rc),
         rc # "OK" => cli'.session = "STOP",
         cli'.session = "STOP" /\ ~cli'.txError => rc # "OK"
  PROVE  IInv'
<1>1. run' \in RunType /\ run'.at = "end" /\ run'.result = rc
  BY DEF Finish, RunType, EnginePlaces
<1> QED BY <1>1 DEF IInv, RunOK

LEMMA GoToKeeps ==
  ASSUME IInv, run.at \notin {"loop", "end"}, DataOK',
         NEW place \in {"idle", "idleCb", "lockout", "rx"}, GoTo(place),
         place \in {"lockout", "rx"} => cli'.session = "RUN"
  PROVE  IInv'
<1>1. run' \in RunType /\ run'.at = place /\ run'.result = "OK"
  BY DEF GoTo, RunType, AppPlaces, EnginePlaces, IInv, RunOK
<1> QED BY <1>1 DEF IInv, RunOK

LEMMA TickKeeps ==
  ASSUME IInv, TickStopped \/ TickInit \/ TickBanner \/ TickRun \/ TickEnd
  PROVE  IInv'
<1> USE DataFacts DEF IInv
<1>1. CASE TickStopped
  <2>1. cli.session = "STOP" /\ cli' = cli /\ Finish("QUIT") /\ DataOK' /\ "QUIT" \in Results
    BY <1>1, SameData DEF TickStopped, Results
  <2> QED BY <2>1, FinishKeeps DEF RunOK
<1>2. CASE TickInit
  <2> DEFINE s == [cli EXCEPT !.session = "SHOW_BANNER"]
  <2>1. Good(s) /\ s.session = "SHOW_BANNER"
    BY <1>2 DEF TickInit, Good, SessionOK, CountersOK, LoginOK, UserOK, Authenticated,
                PrivilegeOK, LoginPending, Below, HistoryOK, CliType, Sessions
  <2> HIDE DEF s
  <2>2. DataOK' /\ cli' = s /\ Finish("OK") /\ "OK" \in Results
    BY <1>2, <2>1, BecomesData DEF TickInit, Results, s
  <2> QED BY <2>1, <2>2, FinishKeeps DEF RunOK
<1>3. CASE TickBanner
  <2>1. PICK s \in AfterOutput(Banner(cli)) : Becomes(s)
    BY <1>3 DEF TickBanner
  <2>2. Good(s) /\ s.session = "RUN"
    BY <1>3, BannerGood, OutputGood DEF TickBanner
  <2>3. DataOK' /\ cli' = s /\ Finish("OK") /\ "OK" \in Results
    BY <1>3, <2>1, <2>2, BecomesData DEF TickBanner, Results
  <2> QED BY <2>2, <2>3, FinishKeeps DEF RunOK
<1>4. CASE TickRun
  <2>1. DataOK' /\ cli' = cli
    BY <1>4, SameData DEF TickRun
  <2>2. PICK place \in {"periodic", "idle"} :
          run' = [run EXCEPT !.at = place, !.result = "OK", !.budget = MaxRx]
    BY <1>4 DEF TickRun
  <2>3. MaxRx \in 0 .. MaxRx /\ run \in RunType /\ "OK" \in Results
    BY BoundsAssumption DEF RunOK, Results
  <2>4. run' \in RunType /\ run'.at = place /\ run'.result = "OK"
    BY <2>2, <2>3 DEF RunType, AppPlaces, EnginePlaces
  <2> QED BY <2>1, <2>4 DEF RunOK
<1>5. CASE TickEnd
  <2> DEFINE lost == cli.txError /\ cli.session # "STOP"
             s == IF lost THEN Stopped(cli) ELSE cli
  <2>1. Good(s)
    BY StoppedGood
  <2>2. DataOK'
    BY <1>5, <2>1, BecomesData DEF TickEnd
  <2>3. run' \in RunType /\ run'.at = "loop"
    BY <1>5 DEF TickEnd, RunOK, RunType, AppPlaces, Results
  <2> QED BY <2>2, <2>3 DEF RunOK
<1> QED BY <1>1, <1>2, <1>3, <1>4, <1>5

LEMMA InputIfKeeps ==
  ASSUME IInv, run.at \notin {"loop", "end"}, DataOK', NEW s, cli' = s, s \in CliType, InputIf(s)
  PROVE  IInv'
<1>1. CASE s.session = "RUN"
  <2>1. GoTo("lockout")
    BY <1>1 DEF InputIf
  <2> QED BY <1>1, <2>1, GoToKeeps
<1>2. CASE s.session # "RUN"
  <2>1. run \in RunType
    BY DEF IInv, RunOK
  <2>2. CASE s.session = "STOP"
    <3>1. Finish("QUIT") /\ "QUIT" \in Results
      BY <1>2, <2>2 DEF InputIf, Results
    <3> QED BY <2>1, <2>2, <3>1, FinishKeeps
  <2>3. CASE s.session # "STOP"
    <3>1. Finish("OK") /\ "OK" \in Results
      BY <1>2, <2>3 DEF InputIf, Results
    <3> QED BY <2>1, <2>3, <3>1, FinishKeeps
  <2> QED BY <2>2, <2>3
<1> QED BY <1>1, <1>2

LEMMA ChecksKeep ==
  ASSUME IInv, IdleCheck \/ LockoutCheck \/ InputDone \/ TransportFails
  PROVE  IInv'
<1> USE DataFacts DEF IInv
<1>0. run \in RunType
  BY DEF RunOK
<1>1. CASE IdleCheck
  <2>0. run.at = "idle"
    BY <1>1 DEF IdleCheck, At
  <2>1. CASE ~IdleDue(cli)
    BY <1>1, <2>0, <2>1, SameData, InputIfKeeps DEF IdleCheck
  <2>2. CASE IdleDue(cli) /\ config.idle = "callback"
    <3>1. GoTo("idleCb") /\ DataOK'
      BY <1>1, <2>2, SameData DEF IdleCheck
    <3> QED BY <2>0, <3>1, GoToKeeps
  <2>3. CASE IdleDue(cli) /\ config.idle # "callback"
    <3>1. PICK s \in AfterOutput(IdleOutcome(cli)) : InputIf(s) /\ Becomes(s)
      BY <1>1, <2>3 DEF IdleCheck
    <3>2. Good(IdleOutcome(cli))
      BY RestartGood, StoppedGood DEF IdleOutcome
    <3>3. Good(s) /\ s \in CliType
      BY <3>1, <3>2, OutputGood DEF Good, SessionOK
    <3>4. DataOK' /\ cli' = s
      BY <3>1, <3>3, BecomesData
    <3> QED BY <2>0, <3>1, <3>3, <3>4, InputIfKeeps
  <2> QED BY <2>1, <2>2, <2>3
<1>2. CASE LockoutCheck
  <2>0. run.at = "lockout" /\ cli.session = "RUN"
    BY <1>2 DEF LockoutCheck, At, RunOK
  <2>1. CASE cli.auth # "LOCKOUT"
    <3>1. GoTo("rx") /\ DataOK' /\ cli' = cli
      BY <1>2, <2>1, SameData DEF LockoutCheck
    <3> QED BY <2>0, <3>1, GoToKeeps
  <2>2. CASE cli.auth = "LOCKOUT" /\ LockoutUnending(cli)
    <3>1. PICK s \in AfterOutput(Stopped(cli)) : Becomes(s)
      BY <1>2, <2>2 DEF LockoutCheck
    <3>2. Good(s) /\ s.session = "STOP"
      BY <3>1, StoppedGood, OutputGood
    <3>3. Finish("AUTH") /\ "AUTH" \in Results /\ DataOK' /\ cli' = s
      BY <1>2, <2>2, <3>1, <3>2, BecomesData DEF LockoutCheck, Results
    <3> QED BY <1>0, <3>2, <3>3, FinishKeeps
  <2>3. CASE cli.auth = "LOCKOUT" /\ ~LockoutUnending(cli) /\ LockoutExpired(cli)
    <3>1. PICK s \in AfterOutput(LockoutEnd(cli)) : BecomesActive(s)
      BY <1>2, <2>3 DEF LockoutCheck
    <3>2. Good(s) /\ s.session = "RUN"
      BY <2>0, <2>3, <3>1, LockoutEndGood, OutputGood
    <3>3. GoTo("rx") /\ DataOK' /\ cli' = s
      BY <1>2, <2>3, <3>1, <3>2, BecomesData DEF LockoutCheck
    <3> QED BY <2>0, <3>2, <3>3, GoToKeeps
  <2>4. CASE cli.auth = "LOCKOUT" /\ ~LockoutUnending(cli) /\ ~LockoutExpired(cli)
    <3>1. GoTo("rx") /\ DataOK' /\ cli' = cli
      BY <1>2, <2>4, SameData DEF LockoutCheck
    <3> QED BY <2>0, <3>1, GoToKeeps
  <2> QED BY <2>1, <2>2, <2>3, <2>4
<1>3. CASE InputDone
  <2>1. cli.session = "RUN" /\ run.result = "OK" /\ DataOK' /\ cli' = cli
    BY <1>3, SameData DEF InputDone, RunOK, At
  <2>2. run' \in RunType /\ run'.at = "end" /\ run'.result = "OK"
    BY <1>0, <1>3, <2>1 DEF InputDone, GoTo, RunType, EnginePlaces
  <2> QED BY <2>1, <2>2 DEF RunOK
<1>4. CASE TransportFails
  <2>1. Good(Stopped(cli)) /\ Stopped(cli).session = "STOP"
    BY StoppedGood
  <2>2. Finish("ERR") /\ "ERR" \in Results /\ DataOK' /\ cli' = Stopped(cli)
    BY <1>4, <2>1, BecomesData DEF TransportFails, Results
  <2> QED BY <1>0, <2>1, <2>2, FinishKeeps
<1> QED BY <1>1, <1>2, <1>3, <1>4

LEMMA InputKeeps ==
  ASSUME IInv, ByteDiscarded \/ KeyTyped \/ UsernameEntered
  PROVE  IInv'
<1> USE DataFacts
<1>1. CASE ByteDiscarded
  <2>1. Reads /\ BudgetLeft \in 0 .. MaxRx /\ run.at = "rx" /\ cli.session = "RUN"
        /\ run.result = "OK" /\ run \in RunType
    BY <1>1, ReadsFacts DEF ByteDiscarded, IInv, RunOK
  <2>2. DataOK' /\ cli' = cli
    BY <1>1, SameData DEF ByteDiscarded, IInv
  <2>3. run' = [run EXCEPT !.budget = BudgetLeft, !.at = IF cli.txError THEN "end" ELSE "rx"]
    BY <1>1 DEF ByteDiscarded
  <2>4. run' \in RunType /\ run'.at \in {"end", "rx"} /\ run'.result = "OK"
    BY <2>1, <2>3 DEF RunType, EnginePlaces
  <2> QED BY <2>1, <2>2, <2>4 DEF IInv, RunOK
<1>2. CASE KeyTyped
  <2>1. Reads /\ BudgetLeft \in 0 .. MaxRx /\ run.at = "rx" /\ Good(TouchActivity(cli))
    BY <1>2, ReadsFacts, TouchActivityGood DEF KeyTyped, IInv
  <2>2. RoundDone(TouchActivity(cli), "OK", BudgetLeft) /\ "OK" \in Results
    BY <1>2 DEF KeyTyped, Results
  <2> QED BY <2>1, <2>2, RoundDoneKeeps
<1>3. CASE UsernameEntered
  <2> DEFINE s == TouchActivity(cli)
  <2>1. Reads /\ BudgetLeft \in 0 .. MaxRx /\ run.at = "rx" /\ Good(s) /\ s.auth = "USERNAME"
    BY <1>3, ReadsFacts, TouchActivityGood DEF UsernameEntered, ReadsWhen, IInv
  <2>2. PICK u \in Names :
          RoundDone([s EXCEPT !.username = u, !.auth = "PASSWORD"], "OK", BudgetLeft)
    BY <1>3 DEF UsernameEntered
  <2> HIDE DEF s
  <2> DEFINE t == [s EXCEPT !.username = u, !.auth = "PASSWORD"]
  <2>3. "PASSWORD" \in AuthStates /\ "OK" \in Results
    BY DEF AuthStates, AuthInputs, Results
  <2>4. Good(t)
    BY <2>1, <2>3 DEF Good, SessionOK, CountersOK, LoginOK, UserOK, Authenticated,
                      PrivilegeOK, LoginPending, Below, HistoryOK, CliType
  <2> QED BY <2>1, <2>2, <2>3, <2>4, RoundDoneKeeps
<1> QED BY <1>1, <1>2, <1>3

LEMMA PasswordsKeep ==
  ASSUME IInv, PasswordEntered \/ EnablePasswordEntered
  PROVE  IInv'
<1> USE DataFacts
<1>0. \A a, b : AuthRc(a, b) \in Results
  BY DEF AuthRc, Results
<1>1. CASE PasswordEntered
  <2> DEFINE s == LoginBegin(TouchActivity(cli))
  <2>1. Reads /\ BudgetLeft \in 0 .. MaxRx /\ run.at = "rx"
    BY <1>1, ReadsFacts DEF PasswordEntered, ReadsWhen
  <2>2. Good(s) /\ Below(s)
    <3>1. Good(TouchActivity(cli)) /\ TouchActivity(cli).auth = "PASSWORD"
      BY <1>1, TouchActivityGood DEF PasswordEntered, ReadsWhen, IInv
    <3> QED BY <3>1, LoginBeginGood
  <2>3. \/ EnterCallback(s, "authCb", ROOT, BudgetLeft)
        \/ \E ok \in BOOLEAN :
             RoundDone(TableVerdict(s, ok), AuthRc(s, TableVerdict(s, ok)), BudgetLeft)
    BY <1>1 DEF PasswordEntered
  <2> HIDE DEF s
  <2>4. CASE EnterCallback(s, "authCb", ROOT, BudgetLeft)
    BY <2>1, <2>2, <2>4, EnterCallbackKeeps, ContextsAssumption
  <2>5. CASE \E ok \in BOOLEAN :
               RoundDone(TableVerdict(s, ok), AuthRc(s, TableVerdict(s, ok)), BudgetLeft)
    <3>1. PICK ok \in BOOLEAN :
            RoundDone(TableVerdict(s, ok), AuthRc(s, TableVerdict(s, ok)), BudgetLeft)
      BY <2>5
    <3>2. Good(TableVerdict(s, ok))
      BY <2>2, TableVerdictGood DEF IInv
    <3> QED BY <1>0, <2>1, <3>1, <3>2, RoundDoneKeeps
  <2> QED BY <2>3, <2>4, <2>5
<1>2. CASE EnablePasswordEntered
  <2> DEFINE s == TouchActivity(cli)
  <2>1. Reads /\ BudgetLeft \in 0 .. MaxRx /\ run.at = "rx"
    BY <1>2, ReadsFacts DEF EnablePasswordEntered, ReadsWhen
  <2>2. Good(s)
    BY TouchActivityGood DEF IInv
  <2>3. \/ EnterCallback(s, "enableCb", ROOT, BudgetLeft)
        \/ \E ok \in BOOLEAN :
             RoundDone(EnableVerdict(s, ok), AuthRc(s, EnableVerdict(s, ok)), BudgetLeft)
    BY <1>2 DEF EnablePasswordEntered
  <2> HIDE DEF s
  <2>4. CASE EnterCallback(s, "enableCb", ROOT, BudgetLeft)
    BY <2>1, <2>2, <2>4, EnterCallbackKeeps, ContextsAssumption
  <2>5. CASE \E ok \in BOOLEAN :
               RoundDone(EnableVerdict(s, ok), AuthRc(s, EnableVerdict(s, ok)), BudgetLeft)
    <3>1. PICK ok \in BOOLEAN :
            RoundDone(EnableVerdict(s, ok), AuthRc(s, EnableVerdict(s, ok)), BudgetLeft)
      BY <2>5
    <3>2. Good(EnableVerdict(s, ok))
      BY <2>2, EnableVerdictGood DEF IInv
    <3> QED BY <1>0, <2>1, <3>1, <3>2, RoundDoneKeeps
  <2> QED BY <2>3, <2>4, <2>5
<1> QED BY <1>1, <1>2

LEMMA BuiltinRcResult == \A s, c : BuiltinRc(s, c) \in Results
BY DEF BuiltinRc, Results

LEMMA CommandsKeep ==
  ASSUME IInv, NEW c \in Builtins, NEW node \in Contexts,
         BuiltinTyped(c) \/ QuitKey \/ CommandTyped(node)
  PROVE  IInv'
<1> USE DataFacts
<1> DEFINE k == TouchActivity(cli)
           s == Submitted(k)
<1>0. ReadsCommand
  BY DEF BuiltinTyped, QuitKey, CommandTyped
<1>1. Reads /\ BudgetLeft \in 0 .. MaxRx /\ run.at = "rx" /\ Good(k) /\ Good(s)
  BY <1>0, ReadsFacts, TouchActivityGood, SubmittedGood DEF ReadsCommand, IInv
<1> HIDE DEF k
<1>2. CASE BuiltinTyped(c)
  <2>1. CASE HasHook(c)
    <3>1. AskHook(s, c) /\ c \in {"exit", "quit", "key"}
      BY <1>2, <2>1 DEF BuiltinTyped, HasHook, k
    <3> QED BY <1>1, <3>1, AskHookKeeps
  <2>2. CASE ~HasHook(c)
    <3>1. RoundDone(Executed(Builtin(s, c)), BuiltinRc(s, c), BudgetLeft)
      BY <1>2, <2>2 DEF BuiltinTyped, k
    <3> HIDE DEF s
    <3>2. Good(Executed(Builtin(s, c)))
      BY <1>1, BuiltinGood, ExecutedGood DEF IInv
    <3> QED BY <1>1, <3>1, <3>2, BuiltinRcResult, RoundDoneKeeps
  <2> QED BY <2>1, <2>2
<1>3. CASE QuitKey
  <2>1. CASE HasHook("quit")
    <3>1. AskHook(k, "key")
      BY <1>3, <2>1 DEF QuitKey, k
    <3> QED BY <1>1, <3>1, AskHookKeeps
  <2>2. CASE ~HasHook("quit")
    <3>1. RoundDone(CmdQuit(k), BuiltinRc(k, "quit"), BudgetLeft)
      BY <1>3, <2>2 DEF QuitKey, k
    <3>2. config.quitPolicy \in {"close", "reset", "ignore"}
      BY DEF ConfigType, IInv
    <3>3. Good(CmdQuit(k))
      BY <1>1, <3>2, EndingGood DEF CmdQuit
    <3> QED BY <1>1, <3>1, <3>3, BuiltinRcResult, RoundDoneKeeps
  <2> QED BY <2>1, <2>2
<1>4. CASE CommandTyped(node)
  <2>1. EnterCallback(s, "handler", node, BudgetLeft)
    BY <1>4 DEF CommandTyped, k
  <2> QED BY <1>1, <2>1, EnterCallbackKeeps
<1> QED BY <1>2, <1>3, <1>4

LEMMA CallbacksKeep ==
  ASSUME IInv, CallbackReturns
  PROVE  IInv'
<1> USE DataFacts
<1>0. run \in RunType /\ run.budget \in 0 .. MaxRx
  BY DEF IInv, RunOK, RunType
<1>1. CASE PeriodicReturns
  <2>0. run.at = "periodic"
    BY <1>1 DEF PeriodicReturns, At
  <2>1. CASE GoTo("idle") /\ UNCHANGED <<cli, config, now, age>>
    BY <2>0, <2>1, SameData, GoToKeeps DEF IInv
  <2>2. CASE Finish("ERR") /\ Becomes(Stopped(cli))
    <3>1. Good(Stopped(cli)) /\ Stopped(cli).session = "STOP" /\ "ERR" \in Results
      BY StoppedGood DEF IInv, Results
    <3>2. DataOK' /\ cli' = Stopped(cli)
      BY <2>2, <3>1, BecomesData DEF IInv
    <3> QED BY <1>0, <2>2, <3>1, <3>2, FinishKeeps
  <2> QED BY <1>1, <2>1, <2>2 DEF PeriodicReturns
<1>2. CASE IdleCallbackReturns
  <2>0. run.at = "idleCb"
    BY <1>2 DEF IdleCallbackReturns, At
  <2>1. CASE InputIf(cli) /\ BecomesActive(IdlePeriodRestart(cli))
    <3> DEFINE s == IdlePeriodRestart(cli)
    <3>1. Good(s) /\ s.session = cli.session /\ s \in CliType
      BY IdlePeriodRestartGood DEF IInv, Good, SessionOK
    <3> HIDE DEF s
    <3>2. DataOK' /\ cli' = s
      BY <2>1, <3>1, BecomesData DEF IInv, s
    <3>3. InputIf(s)
      BY <2>1, <3>1 DEF InputIf
    <3> QED BY <2>0, <3>1, <3>2, <3>3, InputIfKeeps
  <2>2. CASE Finish("ERR") /\ Becomes(Stopped(cli))
    <3>1. Good(Stopped(cli)) /\ Stopped(cli).session = "STOP" /\ "ERR" \in Results
      BY StoppedGood DEF IInv, Results
    <3>2. DataOK' /\ cli' = Stopped(cli)
      BY <2>2, <3>1, BecomesData DEF IInv
    <3> QED BY <1>0, <2>2, <3>1, <3>2, FinishKeeps
  <2> QED BY <1>2, <2>1, <2>2 DEF IdleCallbackReturns
<1>3. CASE AuthCallbackReturns
  <2>1. run.at = "authCb" /\ Below(cli)
    BY <1>3 DEF AuthCallbackReturns, At, IInv, RunOK
  <2>2. PICK ok \in BOOLEAN :
          RoundDone(LoginVerdict(cli, ok), AuthRc(cli, LoginVerdict(cli, ok)), run.budget)
    BY <1>3 DEF AuthCallbackReturns
  <2>3. Good(LoginVerdict(cli, ok)) /\ AuthRc(cli, LoginVerdict(cli, ok)) \in Results
    BY <2>1, LoginVerdictGood DEF IInv, AuthRc, Results
  <2> QED BY <1>0, <2>1, <2>2, <2>3, RoundDoneKeeps
<1>4. CASE EnableCallbackReturns
  <2>1. run.at = "enableCb"
    BY <1>4 DEF EnableCallbackReturns, At
  <2>2. PICK ok \in BOOLEAN :
          RoundDone(EnableVerdict(cli, ok), AuthRc(cli, EnableVerdict(cli, ok)), run.budget)
    BY <1>4 DEF EnableCallbackReturns
  <2>3. Good(EnableVerdict(cli, ok)) /\ AuthRc(cli, EnableVerdict(cli, ok)) \in Results
    BY EnableVerdictGood DEF IInv, AuthRc, Results
  <2> QED BY <1>0, <2>1, <2>2, <2>3, RoundDoneKeeps
<1>5. CASE HandlerReturns
  <2>1. run.at = "handler" /\ run.node \in Contexts
    BY <1>5 DEF HandlerReturns, At, IInv, RunOK, RunType
  <2>2. PICK rc \in HandlerResults, children \in BOOLEAN :
          LET enters == rc = "OK" /\ run.node # ROOT /\ cli.session = "RUN" /\ children
              s == IF enters THEN SetNav(cli, EnterContext(cli.nav, run.node, run.depth)) ELSE cli
          IN  RoundDone(Executed(s), CommandRc(rc), run.budget)
    BY <1>5 DEF HandlerReturns
  <2> DEFINE n == EnterContext(cli.nav, run.node, run.depth)
  <2>3. Good(SetNav(cli, n))
    <3>1. NavFits(cli.nav) /\ cli.granted \in Nat
      BY DEF IInv, Good, SessionOK, CliType, NavFits
    <3>2. NavFits(n) /\ (Below(cli) => NavBelow(n, cli.granted))
      BY <2>1, <3>1, EnterContextFits, EnterContextBelow DEF Below
    <3> QED BY <3>2, SetNavGood DEF IInv
  <2>4. Good(Executed(SetNav(cli, n))) /\ Good(Executed(cli))
    BY <2>3, ExecutedGood DEF IInv
  <2>5. CommandRc(rc) \in Results
    BY HandlerResultsAssumption DEF CommandRc, Results
  <2>6. \/ RoundDone(Executed(SetNav(cli, n)), CommandRc(rc), run.budget)
        \/ RoundDone(Executed(cli), CommandRc(rc), run.budget)
    BY <2>2
  <2> QED BY <1>0, <2>1, <2>4, <2>5, <2>6, RoundDoneKeeps
<1>6. CASE HookReturns
  <2>1. run.at = "hook"
    BY <1>6 DEF HookReturns, At
  <2> DEFINE c == IF run.command = "exit" THEN "exit" ELSE "quit"
  <2>2. PICK rc \in HandlerResults :
          LET s == IF rc = "OK" THEN Builtin(cli, c) ELSE cli
          IN  RoundDone(IF run.command = "key" THEN s ELSE Executed(s),
                        IF rc = "OK" THEN BuiltinRc(cli, c) ELSE CommandRc(rc), run.budget)
    BY <1>6 DEF HookReturns
  <2>3. c \in Builtins
    BY DEF Builtins
  <2> HIDE DEF c
  <2> DEFINE s == IF rc = "OK" THEN Builtin(cli, c) ELSE cli
             t == IF run.command = "key" THEN s ELSE Executed(s)
             r == IF rc = "OK" THEN BuiltinRc(cli, c) ELSE CommandRc(rc)
  <2>4. Good(s)
    BY <2>3, BuiltinGood DEF IInv
  <2>5. Good(t)
    BY <2>4, ExecutedGood
  <2>6. r \in Results
    BY HandlerResultsAssumption, BuiltinRcResult DEF CommandRc, Results
  <2>7. RoundDone(t, r, run.budget)
    BY <2>2
  <2> HIDE DEF t, r
  <2> QED BY <1>0, <2>1, <2>5, <2>6, <2>7, RoundDoneKeeps
<1> QED BY <1>1, <1>2, <1>3, <1>4, <1>5, <1>6 DEF CallbackReturns

LEMMA AppKeeps ==
  ASSUME IInv, InApp, UNCHANGED run, DataOK', Below(cli) => Below(cli')
  PROVE  IInv'
BY DEF IInv, RunOK, InApp, AppPlaces

LEMMA WrappedTime ==
  ASSUME NEW x \in Int
  PROVE  x % ClockMod \in Times
BY BoundsAssumption DEF Times

LEMMA WithClockGood ==
  ASSUME NEW s, Good(s), now \in Times, NEW b \in BOOLEAN, NEW t \in Times
  PROVE  Good(WithClock(s, b, t)) /\ (Below(s) => Below(WithClock(s, b, t)))
<1>1. \A x \in Times : Rebased(s, x, t) \in Times
  <2>1. ASSUME NEW x \in Times PROVE (t - (now - x)) % ClockMod \in Times
    <3>1. t - (now - x) \in Int
      BY DEF Times
    <3> QED BY <3>1, WrappedTime
  <2> QED BY <2>1 DEF Rebased
<1>2. s.lastAction \in Times /\ s.lockTs \in Times /\ s \in CliType
  BY DEF Good, SessionOK, CliType
<1> DEFINE a == Rebased(s, s.lastAction, t)
           l == IF s.auth = "LOCKOUT" THEN Rebased(s, s.lockTs, t) ELSE s.lockTs
           w == [s EXCEPT !.hasClock = b, !.lastAction = a, !.lockTs = l]
<1>3. a \in Times /\ l \in Times
  BY <1>1, <1>2
<1>4. WithClock(s, b, t) = w
  BY <1>2 DEF WithClock, CliType
<1> HIDE DEF a, l
<1>5. w \in CliType
  BY <1>2, <1>3 DEF CliType
<1>6. Good(w) /\ (Below(s) <=> Below(w))
  BY <1>2, <1>5, SameGood DEF CliType
<1> QED BY <1>4, <1>6

LEMMA AppStepKeeps ==
  ASSUME IInv, AppStep
  PROVE  IInv'
<1> USE DataFacts
<1>0. InApp /\ UNCHANGED run
  BY DEF AppStep, AppStart, AppRestart, AppRequestAuth, AppExec, AppSetPrivilege, AppSetMode,
         AppClearHistory, AppConfigure, AppSetClock, AppRemoveClock, Calls, InApp, At, AppPlaces
<1>1. CASE AppStart
  <2>1. Good(CliStart(cli)) /\ Below(CliStart(cli))
    BY StartGood DEF IInv
  <2>2. DataOK' /\ cli' = CliStart(cli)
    BY <1>1, <2>1, BecomesData DEF AppStart, IInv
  <2> QED BY <1>0, <2>1, <2>2, AppKeeps
<1>2. CASE AppRestart
  <2>1. Good(RestartSession(cli)) /\ Below(RestartSession(cli))
    BY RestartGood DEF IInv
  <2>2. DataOK' /\ cli' = RestartSession(cli)
    BY <1>2, <2>1, BecomesData DEF AppRestart, IInv
  <2> QED BY <1>0, <2>1, <2>2, AppKeeps
<1>3. CASE AppRequestAuth
  <2>1. Good(RequestAuth(cli)) /\ (Below(cli) => Below(RequestAuth(cli)))
    BY RequestAuthGood DEF IInv
  <2>2. DataOK' /\ cli' = RequestAuth(cli)
    BY <1>3, <2>1, BecomesData DEF AppRequestAuth, IInv
  <2> QED BY <1>0, <2>1, <2>2, AppKeeps
<1>4. CASE AppExec
  <2>1. PICK c \in Builtins : Becomes(Builtin(cli, c))
    BY <1>4 DEF AppExec
  <2>2. Good(Builtin(cli, c)) /\ (Below(cli) => Below(Builtin(cli, c)))
    BY BuiltinGood DEF IInv
  <2>3. DataOK' /\ cli' = Builtin(cli, c)
    BY <2>1, <2>2, BecomesData DEF IInv
  <2> QED BY <1>0, <2>2, <2>3, AppKeeps
<1>5. CASE AppSetPrivilege
  <2>1. PICK p \in Privileges : Becomes(Granting(cli, p))
    BY <1>5 DEF AppSetPrivilege
  <2>2. Good(Granting(cli, p)) /\ (Below(cli) => Below(Granting(cli, p)))
    BY GrantingGood DEF IInv
  <2>3. DataOK' /\ cli' = Granting(cli, p)
    BY <2>1, <2>2, BecomesData DEF IInv
  <2> QED BY <1>0, <2>2, <2>3, AppKeeps
<1>6. CASE AppSetMode
  <2>1. PICK m \in Modes : Becomes(SetNav(cli, SetMode(cli.nav, m)))
    BY <1>6 DEF AppSetMode
  <2> DEFINE s == SetNav(cli, SetMode(cli.nav, m))
  <2>2. Good(s) /\ (Below(cli) => Below(s))
    BY SetModeGood DEF IInv
  <2>3. DataOK' /\ cli' = s
    BY <2>1, <2>2, BecomesData DEF IInv
  <2> QED BY <1>0, <2>2, <2>3, AppKeeps
<1>7. CASE AppClearHistory
  <2>1. Good(ClearHistory(cli)) /\ (Below(cli) => Below(ClearHistory(cli)))
    BY ClearHistoryGood DEF IInv
  <2>2. DataOK' /\ cli' = ClearHistory(cli)
    BY <1>7, <2>1, BecomesData DEF AppClearHistory, IInv
  <2> QED BY <1>0, <2>1, <2>2, AppKeeps
<1>8. CASE AppConfigure
  <2> DEFINE restarts == config'.idleTimeout # config.idleTimeout \/ config'.idle # config.idle
             s == IF restarts THEN IdlePeriodRestart(cli) ELSE cli
  <2>1. Good(s) /\ (Below(cli) => Below(s))
    BY IdlePeriodRestartGood DEF IInv
  <2>2. cli' = s /\ Aged(s, restarts) /\ config' \in Configs /\ UNCHANGED now
    BY <1>8 DEF AppConfigure
  <2> HIDE DEF s, restarts
  <2>3. DataOK'
    BY <2>1, <2>2, AgedOK DEF IInv, DataOK
  <2> QED BY <1>0, <2>1, <2>2, <2>3, AppKeeps
<1>9. CASE AppSetClock
  <2>1. PICK t \in Times : cli' = WithClock(cli, TRUE, t) /\ now' = t
    BY <1>9 DEF AppSetClock
  <2>2. Good(cli') /\ (Below(cli) => Below(cli'))
    BY <2>1, WithClockGood DEF IInv
  <2>3. DataOK'
    BY <1>9, <2>1, <2>2 DEF IInv, DataOK, AppSetClock
  <2> QED BY <1>0, <2>2, <2>3, AppKeeps
<1>10. CASE AppRemoveClock
  <2>0. 0 \in Times
    BY BoundsAssumption DEF Times
  <2>1. cli' = WithClock(cli, FALSE, 0) /\ now' = 0
    BY <1>10 DEF AppRemoveClock
  <2>2. Good(cli') /\ (Below(cli) => Below(cli'))
    BY <2>0, <2>1, WithClockGood DEF IInv
  <2>3. DataOK'
    BY <1>10, <2>0, <2>1, <2>2 DEF IInv, DataOK, AppRemoveClock
  <2> QED BY <1>0, <2>2, <2>3, AppKeeps
<1> QED BY <1>1, <1>2, <1>3, <1>4, <1>5, <1>6, <1>7, <1>8, <1>9, <1>10 DEF AppStep

LEMMA ClockTickKeeps ==
  ASSUME IInv, ClockTick
  PROVE  IInv'
<1>1. now' \in Times
  <2>1. now + 1 \in Int
    BY DEF IInv, DataOK, Times
  <2> QED BY <2>1, WrappedTime DEF ClockTick, IInv, DataOK
<1>2. age' \in [idle : 0 .. AgeCap, lock : 0 .. AgeCap]
  <2>1. \A a \in 0 .. AgeCap : (IF a < AgeCap THEN a + 1 ELSE AgeCap) \in 0 .. AgeCap
    BY AgeCapAssumption
  <2>2. age.idle \in 0 .. AgeCap /\ age.lock \in 0 .. AgeCap
    BY DEF IInv, DataOK
  <2> QED BY <2>1, <2>2 DEF ClockTick
<1>3. DataOK' /\ cli' = cli
  BY <1>1, <1>2 DEF ClockTick, IInv, DataOK
<1>4. run' = [run EXCEPT !.polled = ~SlowClock] /\ run \in RunType /\ (~SlowClock) \in BOOLEAN
  BY DEF ClockTick, IInv, RunOK
<1>5. run' \in RunType /\ run'.at = run.at /\ run'.result = run.result
  BY <1>4 DEF RunType
<1> QED BY <1>3, <1>5 DEF IInv, RunOK

LEMMA NextKeeps == IInv /\ [Next]_vars => IInv'
<1> SUFFICES ASSUME IInv, [Next]_vars PROVE IInv'
  OBVIOUS
<1>1. CASE EngineStep
  <2>1. CASE TickStopped \/ TickInit \/ TickBanner \/ TickRun \/ TickEnd
    BY <2>1, TickKeeps
  <2>2. CASE IdleCheck \/ LockoutCheck \/ InputDone \/ TransportFails
    BY <2>2, ChecksKeep
  <2>3. CASE ByteDiscarded \/ KeyTyped \/ UsernameEntered
    BY <2>3, InputKeeps
  <2>4. CASE PasswordEntered \/ EnablePasswordEntered
    BY <2>4, PasswordsKeep
  <2>5. CASE QuitKey \/ (\E c \in Builtins \cap Commands : BuiltinTyped(c))
             \/ \E node \in Contexts : CommandTyped(node)
    <3>1. "exit" \in Builtins
      BY DEF Builtins
    <3> QED BY <2>5, <3>1, ContextsAssumption, CommandsKeep
  <2> QED BY <1>1, <2>1, <2>2, <2>3, <2>4, <2>5 DEF EngineStep
<1>2. CASE CallbackReturns
  BY <1>2, CallbacksKeep
<1>3. CASE AppStep
  BY <1>3, AppStepKeeps
<1>4. CASE ClockTick
  BY <1>4, ClockTickKeeps
<1>5. CASE UNCHANGED vars
  BY <1>5 DEF vars, IInv, DataOK, RunOK
<1> QED BY <1>1, <1>2, <1>3, <1>4, <1>5 DEF Next

LEMMA InitOK == Init => IInv
<1> SUFFICES ASSUME Init PROVE IInv
  OBVIOUS
<1>1. PICK clock \in BOOLEAN : cli = CliInit(clock)
  BY DEF Init
<1>2. NavFits(NavInit) /\ NavBelow(NavInit, PrivUser)
  <2>1. NavInit.privilege = 0 /\ NavInit.stack = <<>> /\ Len(<<>>) = 0
    BY DEF NavInit, PrivUser
  <2> QED BY <2>1, NavInitFits DEF NavBelow, PrivUser
<1>3. 0 \in Times /\ NoUser \in Names /\ PrivUser \in Nat
  BY BoundsAssumption DEF Times, Names, PrivUser
<1>4. cli \in CliType
  BY <1>1, <1>2, <1>3
     DEF CliInit, CliType, Sessions, AuthStates, PromptStates, NavFits
<1>5. Good(cli)
  BY <1>1, <1>2, <1>4
     DEF CliInit, Good, SessionOK, CountersOK, LoginOK, UserOK, Authenticated, PrivilegeOK,
         LoginPending, Below, HistoryOK, NavFits
<1>6. DataOK
  BY <1>3, <1>5, AgeCapAssumption DEF Init, DataOK
<1>7. run \in RunType /\ run.at = "loop"
  BY BoundsAssumption, ContextsAssumption DEF Init, RunType, AppPlaces, Results
<1> QED BY <1>6, <1>7 DEF IInv, RunOK

LEMMA Invariance == Spec => []IInv
BY InitOK, NextKeeps, PTL DEF Spec

-----------------------------------------------------------------------------
(* The theorems                                                            *)

\* Every variable keeps its type and the navigation stack fits its array,
\* whatever callbacks and commands push (cli_nav_push, cli_set_mode, cli_context_enter).
THEOREM Typing == Spec => []TypeOK
<1>1. IInv => TypeOK
  BY DEF IInv, DataOK, RunOK, Good, SessionOK, TypeOK
<1> QED BY <1>1, Invariance, PTL

\* Nobody is asked for a password with the attempts used up (cli_auth_limit_reached).
THEOREM Attempts == Spec => []NoExtraAttempt
<1>1. IInv => NoExtraAttempt
  BY DEF IInv, DataOK, Good, CountersOK, NoExtraAttempt
<1> QED BY <1>1, Invariance, PTL

\* No way leads from a login prompt to a command prompt but a login.
THEOREM Login == Spec => []LoginRequired
<1>1. IInv => LoginRequired
  BY DEF IInv, DataOK, Good, LoginOK, LoginRequired
<1> QED BY <1>1, Invariance, PTL

\* The authenticated user is the one whose login was accepted.
THEOREM Identity == Spec => []SameUser
<1>1. IInv => SameUser
  BY DEF IInv, DataOK, Good, UserOK, Authenticated, SameUser
<1> QED BY <1>1, Invariance, PTL

\* At a prompt no level, current or saved, has a privilege that was not granted to
\* the present identity.
THEOREM Privilege == Spec => []NothingUngranted
<1>1. IInv => NothingUngranted
  BY DEF IInv, DataOK, Good, PrivilegeOK, LoginPending, Below, NavBelow, PromptStates,
         NothingUngranted
<1> QED BY <1>1, Invariance, PTL

\* Nobody finds another user's lines in the history.
THEOREM History == Spec => []HistoryIsOwn
<1>1. IInv => HistoryIsOwn
  BY DEF IInv, DataOK, Good, HistoryOK, HistoryIsOwn
<1> QED BY <1>1, Invariance, PTL

\* Input is read only while the session runs.
THEOREM InputWaits == Spec => []InputOnlyWhileRunning
<1>1. IInv => InputOnlyWhileRunning
  BY DEF IInv, RunOK, InputOnlyWhileRunning, At
<1> QED BY <1>1, Invariance, PTL

\* A tick reports an error exactly when it leaves the session stopped, a vanished
\* peer aside (cli_session_engine).
THEOREM Reports == Spec => EndIsReported
<1>1. IInv /\ [Next]_vars =>
        (At("end") /\ run'.at = "loop" =>
           /\ run'.result # "OK" => cli'.session = "STOP"
           /\ cli'.session = "STOP" /\ ~cli.txError => run'.result # "OK")
  <2> SUFFICES ASSUME IInv, [Next]_vars, At("end"), run'.at = "loop"
               PROVE  /\ run'.result # "OK" => cli'.session = "STOP"
                      /\ cli'.session = "STOP" /\ ~cli.txError => run'.result # "OK"
    OBVIOUS
  <2>1. run.at = "end" /\ run \in RunType
    BY DEF At, IInv, RunOK
  <2>2. ~EngineStep \/ TickEnd
    BY <2>1 DEF EngineStep, TickStopped, TickInit, TickBanner, TickRun, IdleCheck, LockoutCheck,
         InputDone, TransportFails, ByteDiscarded, KeyTyped, UsernameEntered, PasswordEntered,
         EnablePasswordEntered, QuitKey, BuiltinTyped, CommandTyped, ReadsCommand, ReadsWhen,
         Reads, At
  <2>3. ~CallbackReturns
    BY <2>1 DEF CallbackReturns, PeriodicReturns, IdleCallbackReturns, AuthCallbackReturns,
         EnableCallbackReturns, HandlerReturns, HookReturns, At
  <2>4. ~AppStep
    BY <2>1 DEF AppStep, AppStart, AppRestart, AppRequestAuth, AppExec, AppSetPrivilege,
         AppSetMode, AppClearHistory, AppConfigure, AppSetClock, AppRemoveClock, Calls, InApp,
         At, AppPlaces
  <2>5. ~ClockTick /\ ~UNCHANGED vars
    BY <2>1 DEF ClockTick, RunType, vars
  <2>6. TickEnd
    BY <2>2, <2>3, <2>4, <2>5 DEF Next
  <2> QED BY <2>6, StoppedGood DEF TickEnd, Becomes, IInv, DataOK, RunOK, RunType, At
<1> QED BY <1>1, Invariance, PTL DEF Spec, EndIsReported

-----------------------------------------------------------------------------
(* The clock: an idle period and a lockout are counted by the session's    *)
(* clock, which wraps and may be set, replaced or taken away.              *)

FieldNames ==
  {"session", "auth", "resume", "attempts", "enableAttempts", "authRequested", "username",
   "nav", "history", "historyCleared", "idleArmed", "lastAction", "lockTs", "hasClock",
   "txError", "granted", "who", "mustLogin", "line"}

(* A session struct, whatever its fields hold.                             *)
Fields(s) == DOMAIN s = FieldNames

(* What the session's clock shows of a period never exceeds its age.       *)
Shows(ts, a) == Elapsed(ts) <= a \/ a = AgeCap

ClockOK ==
  cli.hasClock =>
    /\ Shows(cli.lastAction, age.idle)
    /\ cli.auth = "LOCKOUT" => Shows(cli.lockTs, age.lock)

(* From s to t a period goes on or begins now.                             *)
Steady(s, t) ==
  /\ Fields(t)
  /\ t.hasClock = s.hasClock
  /\ t.lastAction = s.lastAction \/ (t.hasClock /\ t.lastAction = now)
  /\ t.auth = "LOCKOUT" =>
       \/ s.auth = "LOCKOUT" /\ t.lockTs = s.lockTs
       \/ t.hasClock => t.lockTs = now

(* The idle period begins now.                                             *)
Fresh(s) == s.hasClock => s.lastAction = now

LEMMA SteadyTransitive ==
  ASSUME NEW s, NEW t, NEW u, Steady(s, t), Steady(t, u)
  PROVE  Steady(s, u) /\ (Fresh(t) => Fresh(u))
BY DEF Steady, Fresh

LEMMA TypeHasFields ==
  ASSUME NEW s \in CliType PROVE Fields(s) /\ Steady(s, s)
BY DEF CliType, FieldNames, Fields, Steady

(* Every operation on the session struct is steady.                        *)
LEMMA RestartSteady ==
  ASSUME NEW s, Fields(s)
  PROVE  Steady(s, IdlePeriodRestart(s)) /\ Fresh(IdlePeriodRestart(s))
BY DEF FieldNames, Fields, Steady, Fresh, IdlePeriodRestart

LEMMA TouchSteady ==
  ASSUME NEW s, Fields(s)
  PROVE  Steady(s, TouchActivity(s)) /\ Fresh(TouchActivity(s))
BY DEF FieldNames, Fields, Steady, Fresh, IdlePeriodRestart, TouchActivity

LEMMA ResetSteady ==
  ASSUME NEW s, Fields(s)
  PROVE  Steady(s, SessionReset(s)) /\ Steady(s, RestartSession(s)) /\ Steady(s, RequestAuth(s))
BY DEF FieldNames, Fields, Steady, SessionReset, RestartSession, RequestAuth, ClearHistory,
       EndIdentity

LEMMA StartSteady ==
  ASSUME NEW s, Fields(s)
  PROVE  Steady(s, CliStart(s)) /\ Fresh(CliStart(s))
BY DEF FieldNames, Fields, Steady, Fresh, CliStart, IdlePeriodRestart, SessionReset,
       ClearHistory, EndIdentity

LEMMA SmallSteady ==
  ASSUME NEW s, Fields(s)
  PROVE  /\ Steady(s, Stopped(s)) /\ Steady(s, ClearHistory(s)) /\ Steady(s, Submitted(s))
         /\ Steady(s, Executed(s)) /\ Steady(s, LoginBegin(s))
         /\ \A n : Steady(s, SetNav(s, n))
         /\ \A p : Steady(s, Granting(s, p))
BY DEF FieldNames, Fields, Steady, Stopped, ClearHistory, Submitted, Executed, LoginBegin,
       SetNav, Granting, Grant

LEMMA OutputSteady ==
  ASSUME NEW s, Fields(s), NEW t \in AfterOutput(s)
  PROVE  Steady(s, t)
BY DEF FieldNames, Fields, Steady, AfterOutput

LEMMA BannerSteady ==
  ASSUME NEW s, Fields(s)
  PROVE  Steady(s, Banner(s))
BY DEF FieldNames, Fields, Steady, Banner, PromptUsername

LEMMA LimitSteady ==
  ASSUME NEW s, Fields(s), NEW r
  PROVE  Steady(s, LimitReached(s, r))
BY DEF FieldNames, Fields, Steady, LimitReached, Stopped

LEMMA LoginSteady ==
  ASSUME NEW s, Fields(s), NEW ok \in BOOLEAN
  PROVE  Steady(s, LoginVerdict(s, ok)) /\ Steady(s, TableVerdict(s, ok))
<1>1. ASSUME NEW t, Fields(t), NEW o \in BOOLEAN
      PROVE  Steady(t, LoginVerdict(t, o))
  <2>1. Steady(t, t)
    BY <1>1 DEF Steady
  <2>2. Steady(t, LoginAccepted(t))
    BY <1>1 DEF FieldNames, Fields, Steady, LoginAccepted
  <2>3. Steady(t, LoginRejected(t))
    <3> DEFINE r == [t EXCEPT !.nav.privilege = PrivUser, !.attempts = t.attempts + 1,
                              !.granted = PrivUser]
    <3>1. Fields(r) /\ Steady(t, r)
      BY <1>1 DEF FieldNames, Fields, Steady
    <3>2. LoginRejected(t) = IF r.attempts >= MaxAttempts THEN LimitReached(r, "USERNAME")
                             ELSE PromptUsername(r)
      BY DEF LoginRejected
    <3> HIDE DEF r
    <3>3. Steady(r, PromptUsername(r)) /\ Steady(r, LimitReached(r, "USERNAME"))
      BY <3>1, LimitSteady DEF FieldNames, Fields, Steady, PromptUsername
    <3> QED BY <3>1, <3>2, <3>3, SteadyTransitive
  <2> QED BY <2>1, <2>2, <2>3 DEF LoginVerdict
<1> DEFINE g == Granting(s, UserPriv[s.username])
<1>2. Steady(s, g) /\ Fields(g)
  BY SmallSteady DEF Steady
<1>3. TableVerdict(s, ok) \in {LoginVerdict(g, TRUE), LoginVerdict(s, FALSE)}
  BY DEF TableVerdict
<1> HIDE DEF g
<1>4. Steady(g, LoginVerdict(g, TRUE)) /\ Steady(s, LoginVerdict(s, FALSE))
  BY <1>1, <1>2
<1> QED BY <1>1, <1>2, <1>3, <1>4, SteadyTransitive

LEMMA EnableSteady ==
  ASSUME NEW s, Fields(s), s.resume # "LOCKOUT", NEW ok \in BOOLEAN
  PROVE  Steady(s, EnableVerdict(s, ok))
<1> DEFINE t == [s EXCEPT !.auth = s.resume]
<1>1. Fields(t) /\ Steady(s, t)
  BY DEF FieldNames, Fields, Steady
<1>2. EnableVerdict(s, ok) \in {s, EnableResult(t, ok)} /\ Steady(s, s)
  BY DEF EnableVerdict, Steady
<1> HIDE DEF t
<1>3. Steady(t, EnableResult(t, TRUE))
  BY <1>1 DEF FieldNames, Fields, Steady, EnableResult, EnterPrivileged, SetNav, Grant
<1>4. Steady(t, EnableResult(t, FALSE))
  <2> DEFINE r == [t EXCEPT !.enableAttempts = t.enableAttempts + 1]
  <2>1. Fields(r) /\ Steady(t, r)
    BY <1>1 DEF FieldNames, Fields, Steady
  <2>2. EnableResult(t, FALSE) \in {r, LimitReached(r, t.resume)}
    BY DEF EnableResult
  <2> HIDE DEF r
  <2> QED BY <2>1, <2>2, LimitSteady, SteadyTransitive
<1> QED BY <1>1, <1>2, <1>3, <1>4, SteadyTransitive

LEMMA BuiltinSteady ==
  ASSUME NEW s, Fields(s), NEW c \in Builtins, config \in ConfigType
  PROVE  Steady(s, Builtin(s, c)) /\ Steady(s, CmdQuit(s))
<1>1. ASSUME NEW policy \in {"close", "reset", "ignore"}
      PROVE  Steady(s, Ending(s, policy))
  <2>1. Steady(s, s)
    BY DEF Fields, FieldNames, Steady
  <2> QED BY <2>1, ResetSteady, SmallSteady DEF Ending
<1>2. {config.exitPolicy, config.quitPolicy} \subseteq {"close", "reset", "ignore"}
  BY DEF ConfigType
<1>3. Steady(s, CmdExit(s)) /\ Steady(s, CmdQuit(s))
  BY <1>1, <1>2, SmallSteady DEF CmdExit, CmdQuit
<1>4. Steady(s, CmdEnable(s))
  BY DEF Fields, FieldNames, Steady, CmdEnable, EnterPrivileged, SetNav, Grant
<1>5. Steady(s, CmdDisable(s))
  BY DEF Fields, FieldNames, Steady, CmdDisable
<1>6. Steady(s, CmdEnd(s)) /\ Steady(s, CmdConfigure(s))
  BY SmallSteady DEF CmdEnd, CmdConfigure
<1> QED BY <1>3, <1>4, <1>5, <1>6 DEF Builtin, Builtins

LEMMA LockoutEndSteady ==
  ASSUME NEW s, Fields(s), s.resume # "LOCKOUT"
  PROVE  Steady(s, LockoutEnd(s)) /\ Fresh(LockoutEnd(s))
BY DEF Fields, FieldNames, Steady, Fresh, LockoutEnd, IdlePeriodRestart, PromptUsername

(* What the clock shows                                                    *)

\* A clock that is read when a period begins shows no time of it.
LEMMA ElapsedNone == now \in Times => Elapsed(now) = 0
BY BoundsAssumption DEF Times, Elapsed

\* A second shows as at most one.
LEMMA ElapsedSecond ==
  ASSUME now \in Times, NEW ts \in Times, now' = (now + 1) % ClockMod
  PROVE  Elapsed(ts)' <= Elapsed(ts) + 1 /\ Elapsed(ts) \in Nat /\ Elapsed(ts)' \in Nat
BY BoundsAssumption DEF Times, Elapsed

\* A clock that replaces another shows what the other did.
LEMMA ElapsedRebased ==
  ASSUME NEW s, s.hasClock, now \in Times, NEW ts \in Times, NEW t \in Times
  PROVE  (t - Rebased(s, ts, t)) % ClockMod = Elapsed(ts)
BY BoundsAssumption DEF Times, Elapsed, Rebased

\* Every step but the clock's own: a period goes on, or begins with its age at 0.
LEMMA AgesOK ==
  ASSUME DataOK, ClockOK, NEW s \in CliType, Steady(cli, s), cli' = s, now' = now,
         NEW b \in BOOLEAN, Aged(s, b), b => Fresh(s)
  PROVE  ClockOK'
<1>1. Elapsed(now) = 0 /\ age.idle \in Nat /\ age.lock \in Nat
  BY ElapsedNone, AgeCapAssumption DEF DataOK
<1>2. \A ts : Elapsed(ts)' = Elapsed(ts)
  BY DEF Elapsed
<1>3. ASSUME cli'.hasClock PROVE Shows(cli'.lastAction, age'.idle)
  BY <1>1, <1>2, <1>3 DEF Shows, Aged, ClockOK, Steady, Fresh, DataOK
<1>4. ASSUME cli'.hasClock, cli'.auth = "LOCKOUT" PROVE Shows(cli'.lockTs, age'.lock)
  BY <1>1, <1>2, <1>4 DEF Shows, Aged, ClockOK, Steady, Fresh, DataOK
<1> QED BY <1>3, <1>4 DEF ClockOK, Shows, Elapsed

LEMMA BecomesClock ==
  ASSUME DataOK, DataOK', ClockOK, NEW s, Steady(cli, s),
         Becomes(s) \/ (BecomesActive(s) /\ Fresh(s))
  PROVE  ClockOK'
<1>1. s \in CliType /\ cli' = s /\ now' = now
  BY DEF Becomes, BecomesActive, DataOK, Good, SessionOK
<1> QED BY <1>1, AgesOK DEF Becomes, BecomesActive

LEMMA RoundDoneClock ==
  ASSUME DataOK, DataOK', ClockOK, NEW s, Steady(cli, s), At("rx") => Fresh(s),
         NEW rc, NEW left, RoundDone(s, rc, left)
  PROVE  ClockOK'
<1>1. PICK w \in AfterOutput(s) :
        LET e == IF rc = "OK" THEN w ELSE Stopped(w)
        IN  cli' = e /\ UNCHANGED <<config, now>> /\ Aged(e, At("rx"))
  BY DEF RoundDone
<1> DEFINE e == IF rc = "OK" THEN w ELSE Stopped(w)
<1>2. cli' = e /\ now' = now /\ Aged(e, At("rx"))
  BY <1>1
<1>3. Steady(s, w) /\ Fields(w)
  BY OutputSteady DEF Steady
<1>4. Steady(w, e)
  BY <1>3, SmallSteady DEF Steady
<1>5. e \in CliType
  BY <1>2 DEF DataOK, Good, SessionOK
<1> HIDE DEF e
<1>6. Steady(cli, e) /\ (Fresh(s) => Fresh(e))
  BY <1>3, <1>4, SteadyTransitive
<1> QED BY <1>2, <1>5, <1>6, AgesOK DEF At

LEMMA SameClock ==
  ASSUME ClockOK, UNCHANGED <<cli, config, now, age>>
  PROVE  ClockOK'
BY DEF ClockOK, Shows, Elapsed

LEMMA ClockFacts ==
  ASSUME IInv
  PROVE  /\ DataOK /\ config \in ConfigType /\ Fields(cli) /\ Steady(cli, cli)
         /\ cli.resume # "LOCKOUT"
         /\ Steady(cli, TouchActivity(cli)) /\ Fresh(TouchActivity(cli))
         /\ Fields(TouchActivity(cli)) /\ TouchActivity(cli).resume = cli.resume
<1>1. DataOK /\ config \in ConfigType /\ cli \in CliType
  BY DataFacts DEF IInv
<1>2. TouchActivity(cli).resume = cli.resume
  BY <1>1 DEF TouchActivity, IdlePeriodRestart, CliType
<1> QED BY <1>1, <1>2, TypeHasFields, TouchSteady DEF Steady, CliType, PromptStates

LEMMA TickClock ==
  ASSUME IInv, DataOK', ClockOK,
         \/ TickStopped \/ TickInit \/ TickBanner \/ TickRun \/ TickEnd
         \/ IdleCheck \/ LockoutCheck \/ InputDone \/ TransportFails
  PROVE  ClockOK'
<1> USE ClockFacts
<1>0. Steady(cli, Stopped(cli)) /\ Fields(Stopped(cli))
  BY SmallSteady DEF Steady
<1>1. CASE TickStopped \/ TickRun \/ InputDone
  BY <1>1, SameClock DEF TickStopped, TickRun, InputDone
<1>2. CASE TickInit
  <2> DEFINE s == [cli EXCEPT !.session = "SHOW_BANNER"]
  <2>1. Steady(cli, s)
    BY DEF Fields, FieldNames, Steady
  <2> QED BY <1>2, <2>1, BecomesClock DEF TickInit
<1>3. CASE TickBanner
  <2>1. PICK s \in AfterOutput(Banner(cli)) : Becomes(s)
    BY <1>3 DEF TickBanner
  <2>2. Steady(cli, Banner(cli)) /\ Fields(Banner(cli))
    BY BannerSteady DEF Steady
  <2>3. Steady(cli, s)
    BY <2>1, <2>2, OutputSteady, SteadyTransitive
  <2> QED BY <2>1, <2>3, BecomesClock
<1>4. CASE TickEnd \/ TransportFails
  <2>1. Becomes(Stopped(cli)) \/ Becomes(cli)
    BY <1>4 DEF TickEnd, TransportFails
  <2> QED BY <1>0, <2>1, BecomesClock
<1>5. CASE IdleCheck
  <2>1. CASE UNCHANGED <<cli, config, now, age>>
    BY <2>1, SameClock
  <2>2. CASE \E s \in AfterOutput(IdleOutcome(cli)) : Becomes(s)
    <3>1. PICK s \in AfterOutput(IdleOutcome(cli)) : Becomes(s)
      BY <2>2
    <3>2. Steady(cli, IdleOutcome(cli)) /\ Fields(IdleOutcome(cli))
      BY <1>0, ResetSteady DEF IdleOutcome, Steady
    <3>3. Steady(cli, s)
      BY <3>1, <3>2, OutputSteady, SteadyTransitive
    <3> QED BY <3>1, <3>3, BecomesClock
  <2> QED BY <1>5, <2>1, <2>2 DEF IdleCheck
<1>6. CASE LockoutCheck
  <2>1. CASE UNCHANGED <<cli, config, now, age>>
    BY <2>1, SameClock
  <2>2. CASE \E s \in AfterOutput(Stopped(cli)) : Becomes(s)
    BY <1>0, <2>2, OutputSteady, SteadyTransitive, BecomesClock
  <2>3. CASE \E s \in AfterOutput(LockoutEnd(cli)) : BecomesActive(s)
    <3>1. PICK s \in AfterOutput(LockoutEnd(cli)) : BecomesActive(s)
      BY <2>3
    <3>2. Steady(cli, LockoutEnd(cli)) /\ Fresh(LockoutEnd(cli)) /\ Fields(LockoutEnd(cli))
      BY LockoutEndSteady DEF Steady
    <3>3. Steady(cli, s) /\ Fresh(s)
      BY <3>1, <3>2, OutputSteady, SteadyTransitive
    <3> QED BY <3>1, <3>3, BecomesClock
  <2> QED BY <1>6, <2>1, <2>2, <2>3 DEF LockoutCheck
<1> QED BY <1>1, <1>2, <1>3, <1>4, <1>5, <1>6

LEMMA InputClock ==
  ASSUME IInv, DataOK', ClockOK,
         \/ ByteDiscarded \/ KeyTyped \/ UsernameEntered \/ PasswordEntered
         \/ EnablePasswordEntered \/ QuitKey
         \/ \E c \in Builtins : BuiltinTyped(c)
         \/ \E node \in Contexts : CommandTyped(node)
  PROVE  ClockOK'
<1> USE ClockFacts
<1> DEFINE k == TouchActivity(cli)
<1>1. CASE ByteDiscarded
  BY <1>1, SameClock DEF ByteDiscarded
<1>2. CASE KeyTyped
  BY <1>2, RoundDoneClock DEF KeyTyped
<1>3. CASE UsernameEntered
  <2>1. PICK u \in Names :
          RoundDone([k EXCEPT !.username = u, !.auth = "PASSWORD"], "OK", BudgetLeft)
    BY <1>3 DEF UsernameEntered
  <2> DEFINE s == [k EXCEPT !.username = u, !.auth = "PASSWORD"]
  <2>2. Steady(k, s)
    BY DEF Fields, FieldNames, Steady
  <2> HIDE DEF k
  <2>3. Steady(cli, s) /\ Fresh(s)
    BY <2>2, SteadyTransitive DEF k
  <2> QED BY <2>1, <2>3, RoundDoneClock
<1>4. CASE PasswordEntered
  <2> DEFINE s == LoginBegin(k)
  <2>1. Steady(cli, s) /\ Fresh(s) /\ Fields(s)
    BY SmallSteady, SteadyTransitive DEF Steady
  <2>2. \/ EnterCallback(s, "authCb", ROOT, BudgetLeft)
        \/ \E ok \in BOOLEAN :
             RoundDone(TableVerdict(s, ok), AuthRc(s, TableVerdict(s, ok)), BudgetLeft)
    BY <1>4 DEF PasswordEntered
  <2> HIDE DEF s
  <2>3. CASE EnterCallback(s, "authCb", ROOT, BudgetLeft)
    BY <2>1, <2>3, BecomesClock DEF EnterCallback
  <2>4. CASE \E ok \in BOOLEAN :
               RoundDone(TableVerdict(s, ok), AuthRc(s, TableVerdict(s, ok)), BudgetLeft)
    <3>1. PICK ok \in BOOLEAN :
            RoundDone(TableVerdict(s, ok), AuthRc(s, TableVerdict(s, ok)), BudgetLeft)
      BY <2>4
    <3>2. Steady(cli, TableVerdict(s, ok)) /\ Fresh(TableVerdict(s, ok))
      BY <2>1, LoginSteady, SteadyTransitive
    <3> QED BY <3>1, <3>2, RoundDoneClock
  <2> QED BY <2>2, <2>3, <2>4
<1>5. CASE EnablePasswordEntered
  <2>1. \/ EnterCallback(k, "enableCb", ROOT, BudgetLeft)
        \/ \E ok \in BOOLEAN :
             RoundDone(EnableVerdict(k, ok), AuthRc(k, EnableVerdict(k, ok)), BudgetLeft)
    BY <1>5 DEF EnablePasswordEntered
  <2>2. CASE EnterCallback(k, "enableCb", ROOT, BudgetLeft)
    BY <2>2, BecomesClock DEF EnterCallback
  <2>3. CASE \E ok \in BOOLEAN :
               RoundDone(EnableVerdict(k, ok), AuthRc(k, EnableVerdict(k, ok)), BudgetLeft)
    <3>1. PICK ok \in BOOLEAN :
            RoundDone(EnableVerdict(k, ok), AuthRc(k, EnableVerdict(k, ok)), BudgetLeft)
      BY <2>3
    <3>2. Steady(cli, EnableVerdict(k, ok)) /\ Fresh(EnableVerdict(k, ok))
      BY EnableSteady, SteadyTransitive
    <3> QED BY <3>1, <3>2, RoundDoneClock
  <2> QED BY <2>1, <2>2, <2>3
<1>6. CASE QuitKey
  <2>1. \/ AskHook(k, "key")
        \/ RoundDone(CmdQuit(k), BuiltinRc(k, "quit"), BudgetLeft)
    BY <1>6 DEF QuitKey
  <2>2. "quit" \in Builtins
    BY DEF Builtins
  <2>3. Steady(cli, CmdQuit(k)) /\ Fresh(CmdQuit(k))
    BY <2>2, BuiltinSteady, SteadyTransitive
  <2> QED BY <2>1, <2>3, BecomesClock, RoundDoneClock DEF AskHook
<1>7. CASE \E c \in Builtins : BuiltinTyped(c)
  <2>1. PICK c \in Builtins : BuiltinTyped(c)
    BY <1>7
  <2> DEFINE s == Submitted(k)
  <2>2. Steady(cli, s) /\ Fresh(s) /\ Fields(s)
    BY SmallSteady, SteadyTransitive DEF Steady
  <2>3. AskHook(s, c) \/ RoundDone(Executed(Builtin(s, c)), BuiltinRc(s, c), BudgetLeft)
    BY <2>1 DEF BuiltinTyped
  <2> HIDE DEF s
  <2>4. Steady(s, Builtin(s, c)) /\ Fields(Builtin(s, c))
    BY <2>2, BuiltinSteady DEF Steady
  <2>5. Steady(cli, Executed(Builtin(s, c))) /\ Fresh(Executed(Builtin(s, c)))
    BY <2>2, <2>4, SmallSteady, SteadyTransitive
  <2> QED BY <2>2, <2>3, <2>5, BecomesClock, RoundDoneClock DEF AskHook
<1>8. CASE \E node \in Contexts : CommandTyped(node)
  <2>1. Steady(cli, Submitted(k)) /\ Fresh(Submitted(k))
    BY SmallSteady, SteadyTransitive
  <2> QED BY <1>8, <2>1, BecomesClock DEF CommandTyped, EnterCallback
<1> QED BY <1>1, <1>2, <1>3, <1>4, <1>5, <1>6, <1>7, <1>8

LEMMA CallbackClock ==
  ASSUME IInv, DataOK', ClockOK, CallbackReturns
  PROVE  ClockOK'
<1> USE ClockFacts
<1>0. Steady(cli, Stopped(cli))
  BY SmallSteady
<1>1. CASE PeriodicReturns
  BY <1>0, <1>1, BecomesClock, SameClock DEF PeriodicReturns
<1>2. CASE IdleCallbackReturns
  BY <1>0, <1>2, BecomesClock, RestartSteady DEF IdleCallbackReturns
<1>3. CASE AuthCallbackReturns
  <2>1. PICK ok \in BOOLEAN :
          RoundDone(LoginVerdict(cli, ok), AuthRc(cli, LoginVerdict(cli, ok)), run.budget)
    BY <1>3 DEF AuthCallbackReturns
  <2>2. Steady(cli, LoginVerdict(cli, ok)) /\ ~At("rx")
    BY <1>3, LoginSteady DEF AuthCallbackReturns, At
  <2> QED BY <2>1, <2>2, RoundDoneClock
<1>4. CASE EnableCallbackReturns
  <2>1. PICK ok \in BOOLEAN :
          RoundDone(EnableVerdict(cli, ok), AuthRc(cli, EnableVerdict(cli, ok)), run.budget)
    BY <1>4 DEF EnableCallbackReturns
  <2>2. Steady(cli, EnableVerdict(cli, ok)) /\ ~At("rx")
    BY <1>4, EnableSteady DEF EnableCallbackReturns, At
  <2> QED BY <2>1, <2>2, RoundDoneClock
<1>5. CASE HandlerReturns
  <2> DEFINE n == EnterContext(cli.nav, run.node, run.depth)
  <2>1. PICK rc \in HandlerResults :
          \/ RoundDone(Executed(SetNav(cli, n)), CommandRc(rc), run.budget)
          \/ RoundDone(Executed(cli), CommandRc(rc), run.budget)
    BY <1>5 DEF HandlerReturns
  <2> HIDE DEF n
  <2>2. Steady(cli, SetNav(cli, n)) /\ Fields(SetNav(cli, n)) /\ ~At("rx")
    BY <1>5, SmallSteady DEF HandlerReturns, At, Steady
  <2>3. Steady(cli, Executed(SetNav(cli, n))) /\ Steady(cli, Executed(cli))
    BY <2>2, SmallSteady, SteadyTransitive
  <2> QED BY <2>1, <2>2, <2>3, RoundDoneClock
<1>6. CASE HookReturns
  <2> DEFINE c == IF run.command = "exit" THEN "exit" ELSE "quit"
             b == Builtin(cli, c)
  <2>1. PICK rc \in HandlerResults :
          \E s \in {b, cli, Executed(b), Executed(cli)} :
            RoundDone(s, IF rc = "OK" THEN BuiltinRc(cli, c) ELSE CommandRc(rc), run.budget)
    <3>1. PICK rc \in HandlerResults :
            LET s == IF rc = "OK" THEN b ELSE cli
            IN  RoundDone(IF run.command = "key" THEN s ELSE Executed(s),
                          IF rc = "OK" THEN BuiltinRc(cli, c) ELSE CommandRc(rc), run.budget)
      BY <1>6 DEF HookReturns
    <3> QED BY <3>1
  <2>2. c \in Builtins /\ ~At("rx")
    BY <1>6 DEF Builtins, HookReturns, At
  <2>3. Steady(cli, b) /\ Fields(b)
    BY <2>2, BuiltinSteady DEF Steady
  <2> HIDE DEF b
  <2>4. Steady(cli, Executed(b)) /\ Steady(cli, Executed(cli))
    BY <2>3, SmallSteady, SteadyTransitive
  <2> QED BY <2>1, <2>2, <2>3, <2>4, RoundDoneClock
<1> QED BY <1>1, <1>2, <1>3, <1>4, <1>5, <1>6 DEF CallbackReturns

\* A period that runs when the clock is replaced has run as long by the new clock.
LEMMA NewClock ==
  ASSUME IInv, ClockOK, AppSetClock
  PROVE  ClockOK'
<1>1. PICK t \in Times : cli' = WithClock(cli, TRUE, t) /\ now' = t
  BY DEF AppSetClock
<1>2. cli \in CliType /\ age' = age /\ age.idle \in Nat /\ age.lock \in Nat /\ now \in Times
  BY AgeCapAssumption, DataFacts DEF AppSetClock, IInv, DataOK
<1>3. cli'.lastAction = Rebased(cli, cli.lastAction, t)
      /\ cli'.auth = cli.auth
      /\ (cli.auth = "LOCKOUT" => cli'.lockTs = Rebased(cli, cli.lockTs, t))
  BY <1>1, <1>2 DEF WithClock, CliType
<1>4. ASSUME NEW ts \in Times, NEW a \in Nat, cli.hasClock => Shows(ts, a)
      PROVE  (now' - Rebased(cli, ts, t)) % ClockMod <= a \/ a = AgeCap
  <2>1. CASE cli.hasClock
    BY <1>1, <1>2, <1>4, <2>1, ElapsedRebased DEF Shows
  <2>2. CASE ~cli.hasClock
    BY <1>1, <1>4, <2>2, BoundsAssumption DEF Rebased, Times
  <2> QED BY <2>1, <2>2
<1>5. cli.lastAction \in Times /\ cli.lockTs \in Times
  BY <1>2 DEF CliType
<1>6. (now' - cli'.lastAction) % ClockMod <= age'.idle \/ age'.idle = AgeCap
  BY <1>2, <1>3, <1>4, <1>5 DEF ClockOK
<1>7. cli'.auth = "LOCKOUT" =>
        (now' - cli'.lockTs) % ClockMod <= age'.lock \/ age'.lock = AgeCap
  BY <1>2, <1>3, <1>4, <1>5 DEF ClockOK
<1> QED BY <1>6, <1>7 DEF ClockOK, Shows, Elapsed

LEMMA AppClock ==
  ASSUME IInv, DataOK', ClockOK, AppStep
  PROVE  ClockOK'
<1> USE ClockFacts
<1>1. CASE AppStart
  BY <1>1, StartSteady, BecomesClock DEF AppStart
<1>2. CASE AppRestart \/ AppRequestAuth
  BY <1>2, ResetSteady, BecomesClock DEF AppRestart, AppRequestAuth
<1>3. CASE AppExec
  BY <1>3, BuiltinSteady, BecomesClock DEF AppExec
<1>4. CASE AppSetPrivilege \/ AppSetMode \/ AppClearHistory
  BY <1>4, SmallSteady, BecomesClock DEF AppSetPrivilege, AppSetMode, AppClearHistory
<1>5. CASE AppConfigure
  <2> DEFINE restarts == config'.idleTimeout # config.idleTimeout \/ config'.idle # config.idle
             s == IF restarts THEN IdlePeriodRestart(cli) ELSE cli
  <2>1. Steady(cli, s) /\ (restarts => Fresh(s)) /\ restarts \in BOOLEAN
    BY RestartSteady
  <2>2. cli' = s /\ Aged(s, restarts) /\ now' = now
    BY <1>5 DEF AppConfigure
  <2> HIDE DEF s, restarts
  <2>3. s \in CliType
    BY <2>2 DEF DataOK, Good, SessionOK
  <2> QED BY <2>1, <2>2, <2>3, AgesOK
<1>6. CASE AppSetClock
  BY <1>6, NewClock
<1>7. CASE AppRemoveClock
  <2>1. cli' = WithClock(cli, FALSE, 0)
    BY <1>7 DEF AppRemoveClock
  <2>2. ~cli'.hasClock
    BY <2>1 DEF WithClock, Fields, FieldNames
  <2> QED BY <2>2 DEF ClockOK
<1> QED BY <1>1, <1>2, <1>3, <1>4, <1>5, <1>6, <1>7 DEF AppStep

LEMMA SecondClock ==
  ASSUME IInv, ClockOK, ClockTick
  PROVE  ClockOK'
<1>1. cli' = cli /\ cli \in CliType /\ now \in Times
      /\ age.idle \in 0 .. AgeCap /\ age.lock \in 0 .. AgeCap
  BY DataFacts DEF ClockTick, IInv, DataOK
<1>2. /\ age'.idle = IF age.idle < AgeCap THEN age.idle + 1 ELSE AgeCap
      /\ age'.lock = IF age.lock < AgeCap THEN age.lock + 1 ELSE AgeCap
  BY DEF ClockTick
<1>3. CASE cli.hasClock
  <2>1. \A ts \in Times : Elapsed(ts)' <= Elapsed(ts) + 1 /\ Elapsed(ts) \in Nat
                          /\ Elapsed(ts)' \in Nat
    BY <1>1, <1>3, ElapsedSecond DEF ClockTick
  <2>2. cli.lastAction \in Times /\ cli.lockTs \in Times
    BY <1>1 DEF CliType
  <2>3. Elapsed(cli.lastAction)' <= age'.idle \/ age'.idle = AgeCap
    BY <1>1, <1>2, <1>3, <2>1, <2>2, AgeCapAssumption DEF ClockOK, Shows
  <2>4. cli.auth = "LOCKOUT" => Elapsed(cli.lockTs)' <= age'.lock \/ age'.lock = AgeCap
    BY <1>1, <1>2, <1>3, <2>1, <2>2, AgeCapAssumption DEF ClockOK, Shows
  <2> QED BY <1>1, <2>3, <2>4 DEF ClockOK, Shows
<1>4. CASE ~cli.hasClock
  BY <1>1, <1>4 DEF ClockOK
<1> QED BY <1>3, <1>4

LEMMA ClockKeeps == IInv /\ ClockOK /\ [Next]_vars => ClockOK'
<1> SUFFICES ASSUME IInv, ClockOK, [Next]_vars PROVE ClockOK'
  OBVIOUS
<1>0. DataOK'
  BY NextKeeps DEF IInv
<1>1. CASE EngineStep
  BY <1>0, <1>1, TickClock, InputClock DEF EngineStep
<1>2. CASE CallbackReturns
  BY <1>0, <1>2, CallbackClock
<1>3. CASE AppStep
  BY <1>0, <1>3, AppClock
<1>4. CASE ClockTick
  BY <1>4, SecondClock
<1>5. CASE UNCHANGED vars
  BY <1>5, SameClock DEF vars
<1> QED BY <1>1, <1>2, <1>3, <1>4, <1>5 DEF Next

LEMMA ClockInit == Init => ClockOK
<1> SUFFICES ASSUME Init PROVE ClockOK
  OBVIOUS
<1>1. cli.lastAction = 0 /\ cli.auth = "NONE" /\ now = 0 /\ age.idle = 0
  BY DEF Init, CliInit
<1> QED BY <1>1, BoundsAssumption DEF ClockOK, Shows, Elapsed

LEMMA ClockInvariance == Spec => [](IInv /\ ClockOK)
<1>1. Init => IInv /\ ClockOK
  BY InitOK, ClockInit
<1>2. (IInv /\ ClockOK) /\ [Next]_vars => (IInv /\ ClockOK)'
  BY NextKeeps, ClockKeeps
<1> QED BY <1>1, <1>2, PTL DEF Spec

\* A lockout is not shortened by input, by the idle policy, by a clock that wraps or by
\* one that is replaced (cli_auth_lockout_check, cli_set_time_source).
THEOREM LockoutServed == Spec => LockoutHeld
<1>1. IInv /\ ClockOK /\ [Next]_vars =>
        (cli.session = "RUN" /\ cli.auth = "LOCKOUT" /\ ~InApp =>
           \/ cli'.auth = "LOCKOUT" \/ cli'.session = "STOP"
           \/ age.lock >= config.lockSecs)
  <2> SUFFICES ASSUME IInv, ClockOK, [Next]_vars, cli.session = "RUN", cli.auth = "LOCKOUT",
                      ~InApp
               PROVE  \/ cli'.auth = "LOCKOUT" \/ cli'.session = "STOP"
                      \/ age.lock >= config.lockSecs
    OBVIOUS
  <2> USE ClockFacts
  <2>0. cli \in CliType /\ config \in Configs /\ config.lockSecs \in Nat
        /\ config.lockSecs <= AgeCap /\ AgeCap \in Nat /\ age.lock \in 0 .. AgeCap
        /\ Elapsed(cli.lockTs) \in Int /\ now \in Times
    BY DataFacts, AgeCapAssumption, BoundsAssumption
       DEF IInv, DataOK, ConfigType, Times, Elapsed, CliType
  <2>1. Stopped(cli).session = "STOP"
    BY <2>0 DEF Stopped, CliType
  <2>2. \A s : \A w \in AfterOutput(s) : Fields(s) => w.session = s.session
    BY DEF AfterOutput, Fields, FieldNames
  <2>3. Fields(Stopped(cli))
    BY SmallSteady DEF Steady
  <2>4. CASE EngineStep
    <3>1. ~At("loop") /\ ~ReadsCommand /\ \A a \in AuthInputs \ {"LOCKOUT"} : ~ReadsWhen(a)
      BY DEF At, InApp, AppPlaces, ReadsCommand, ReadsWhen, PromptStates
    <3>2. CASE IdleCheck
      BY <3>2 DEF IdleCheck, IdleDue
    <3>3. CASE LockoutCheck
      <4>1. CASE LockoutUnending(cli)
        BY <2>1, <2>2, <2>3, <3>3, <4>1 DEF LockoutCheck, Becomes
      <4>2. CASE ~LockoutUnending(cli) /\ LockoutExpired(cli)
        BY <2>0, <4>2 DEF LockoutUnending, LockoutExpired, ClockOK, Shows, CliType
      <4>3. CASE ~LockoutUnending(cli) /\ ~LockoutExpired(cli)
        BY <3>3, <4>3 DEF LockoutCheck
      <4> QED BY <4>1, <4>2, <4>3
    <3>4. CASE InputDone \/ ByteDiscarded
      BY <3>4 DEF InputDone, ByteDiscarded
    <3>5. CASE TransportFails \/ TickEnd
      BY <2>1, <3>5 DEF TransportFails, TickEnd, Becomes
    <3> QED
      BY <2>4, <3>1, <3>2, <3>3, <3>4, <3>5
         DEF EngineStep, TickStopped, TickInit, TickBanner, TickRun, KeyTyped, UsernameEntered,
             PasswordEntered, EnablePasswordEntered, QuitKey, BuiltinTyped, CommandTyped,
             AuthInputs
  <2>5. ~CallbackReturns
    BY DEF CallbackReturns, PeriodicReturns, IdleCallbackReturns, AuthCallbackReturns,
           EnableCallbackReturns, HandlerReturns, HookReturns, At, InApp, AppPlaces
  <2>6. ~AppStep
    BY DEF AppStep, AppStart, AppRestart, AppRequestAuth, AppExec, AppSetPrivilege,
           AppSetMode, AppClearHistory, AppConfigure, AppSetClock, AppRemoveClock, Calls,
           At, InApp, AppPlaces
  <2>7. CASE ClockTick \/ UNCHANGED vars
    BY <2>7 DEF ClockTick, vars
  <2> QED BY <2>4, <2>5, <2>6, <2>7 DEF Next
<1> QED BY <1>1, ClockInvariance, PTL DEF Spec, LockoutHeld

\* The idle timeout does not fire early, whatever clock counts it, and restarts no
\* session in which nobody has typed (cli_handle_idle_timeout).
THEOREM IdleWaits == Spec => IdleNotEarly
<1>1. IInv /\ ClockOK /\ [Next]_vars =>
        (At("idle") =>
           /\ run'.at = "idleCb" \/ cli' # cli => age.idle >= config.idleTimeout
           /\ cli'.session = "SHOW_BANNER" /\ cli.session # "SHOW_BANNER" => cli.idleArmed)
  <2> SUFFICES ASSUME IInv, ClockOK, [Next]_vars, At("idle")
               PROVE  /\ run'.at = "idleCb" \/ cli' # cli => age.idle >= config.idleTimeout
                      /\ cli'.session = "SHOW_BANNER" /\ cli.session # "SHOW_BANNER" =>
                           cli.idleArmed
    OBVIOUS
  <2> USE ClockFacts
  <2>0. run.at = "idle" /\ run \in RunType
    BY DEF At, IInv, RunOK
  <2>1. cli \in CliType /\ config \in Configs /\ config.idleTimeout \in Nat
        /\ config.idleTimeout <= AgeCap /\ AgeCap \in Nat /\ age.idle \in 0 .. AgeCap
        /\ Elapsed(cli.lastAction) \in Int /\ now \in Times
    BY DataFacts, AgeCapAssumption, BoundsAssumption
       DEF IInv, DataOK, ConfigType, Times, Elapsed, CliType
  <2>2. IdleDue(cli) => age.idle >= config.idleTimeout
    BY <2>1 DEF IdleDue, ClockOK, Shows
  <2>3. ~EngineStep \/ IdleCheck
    BY <2>0 DEF EngineStep, TickStopped, TickInit, TickBanner, TickRun, TickEnd, LockoutCheck,
         InputDone, TransportFails, ByteDiscarded, KeyTyped, UsernameEntered, PasswordEntered,
         EnablePasswordEntered, QuitKey, BuiltinTyped, CommandTyped, ReadsCommand, ReadsWhen,
         Reads, At
  <2>4. CASE IdleCheck
    <3>1. CASE ~IdleDue(cli)
      <4>1. cli' = cli /\ InputIf(cli)
        BY <2>4, <3>1 DEF IdleCheck
      <4>2. run'.at # "idleCb"
        BY <2>0, <4>1 DEF InputIf, GoTo, Finish, RunType
      <4> QED BY <4>1, <4>2
    <3>2. CASE IdleDue(cli)
      <4>1. CASE config.idle = "callback"
        BY <2>2, <2>4, <3>2, <4>1 DEF IdleCheck
      <4>2. CASE config.idle # "callback"
        <5>1. PICK s \in AfterOutput(IdleOutcome(cli)) : Becomes(s)
          BY <2>4, <3>2, <4>2 DEF IdleCheck
        <5>2. CASE config.idle = "reset"
          BY <2>2, <3>2, <5>2 DEF IdleDue
        <5>3. CASE config.idle # "reset"
          <6>1. IdleOutcome(cli) = Stopped(cli)
            BY <5>3 DEF IdleOutcome
          <6>2. Good(Stopped(cli)) /\ Stopped(cli).session = "STOP"
            BY StoppedGood DEF DataOK
          <6>3. cli'.session = "STOP"
            BY <5>1, <6>1, <6>2, OutputGood DEF Becomes
          <6> QED BY <2>2, <3>2, <6>3
        <5> QED BY <5>2, <5>3
      <4> QED BY <4>1, <4>2
    <3> QED BY <3>1, <3>2
  <2>5. ~CallbackReturns
    BY <2>0 DEF CallbackReturns, PeriodicReturns, IdleCallbackReturns, AuthCallbackReturns,
         EnableCallbackReturns, HandlerReturns, HookReturns, At
  <2>6. ~AppStep
    BY <2>0 DEF AppStep, AppStart, AppRestart, AppRequestAuth, AppExec, AppSetPrivilege,
         AppSetMode, AppClearHistory, AppConfigure, AppSetClock, AppRemoveClock, Calls, InApp,
         At, AppPlaces
  <2>7. CASE ClockTick \/ UNCHANGED vars
    <3>1. cli' = cli /\ run'.at = run.at
      BY <2>0, <2>7 DEF ClockTick, vars, RunType
    <3> QED BY <2>0, <3>1
  <2> QED BY <2>3, <2>4, <2>5, <2>6, <2>7 DEF Next
<1> QED BY <1>1, ClockInvariance, PTL DEF Spec, IdleNotEarly

=============================================================================
