----------------------------- MODULE UserSession -----------------------------
(***************************************************************************)
(* A user's session: one browser tab, the server (SessionGuard and the     *)
(* middlewares before it) and the identity provider.  cookie-session keeps *)
(* the session in the browser: every request works on a copy of its own,   *)
(* and writes the cookie back only when its copy has changed.  What the    *)
(* server keeps is MSAL's cache with the account's latest id token, in     *)
(* memory.                                                                 *)
(*                                                                         *)
(* Time is discrete and relative: what is left of a token and of the       *)
(* cookie counts down, what has passed counts up to its bound.             *)
(***************************************************************************)
EXTENDS Naturals

CONSTANTS
  Ids,              \* names of id tokens
  Requests,         \* slots for requests under way (bound)
  Life,             \* what is left of an id token when it is issued
  RefreshWindow,    \* FIVE_MINUTES_MS
  SessionTimeout,   \* SESSION_TIMEOUT_MS, the maxAge of the cookie
  RefreshInterval,  \* SESSION_REFRESH_INTERVAL_MS
  MaxDuration,      \* a request is answered within this time (bound)
  MaxIdle,          \* a user is active who sends a request this often (bound)
  None

ASSUME TimesAssumption ==
  /\ {Life, RefreshWindow, SessionTimeout, RefreshInterval} \subseteq Nat
  /\ {MaxDuration, MaxIdle} \subseteq Nat
  /\ None \notin [id : Ids, left : Nat]

VARIABLES
  account,    \* the id token of the account in MSAL's cache
  cookie,     \* the session cookie in the browser
  request,    \* what the server does for each request
  screen,     \* what the tab shows
  idle,       \* time since the tab sent a request
  excused     \* since login: refresh failed, server restarted or user idle (auxiliary)

vars == <<account, cookie, request, screen, idle, excused>>

Token   == [id : Ids, left : 0..Life]
Session == [token : Token \cup {None}, last : 0..(RefreshInterval + 1)]
NoSession == [token |-> None, last |-> 0]
NoCookie  == [session |-> NoSession, ttl |-> 0]

\* Mutant: maxAge in another unit.
SetCookieForLonger(s) ==
  IF s.token = None THEN NoCookie ELSE [session |-> s, ttl |-> 60 * SessionTimeout]

\* A cookie that holds nothing but a stamp stands for none: no request is served
\* with it.
SetCookie(s) == IF s.token = None THEN NoCookie ELSE [session |-> s, ttl |-> SessionTimeout]

Free == [phase |-> "free", kind |-> "dropped", session |-> NoSession,
         changed |-> FALSE, age |-> 0]

TokensInUse ==
  ({account, cookie.session.token} \cup {request[r].session.token : r \in Requests}) \ {None}

\* An id token that is issued now, or a while ago.
Issued(ago) ==
  {[id |-> i, left |-> l] :
     i \in Ids \ {t.id : t \in TokensInUse}, l \in (Life - ago)..Life}

-----------------------------------------------------------------------------
(* The server.                                                             *)

\* Mutant: the stamp is only set once.
NeverStampedAgain(s) == s

\* SessionRefreshMiddleware: the stamp makes the session differ, so that its cookie
\* is written again and lives for another SESSION_TIMEOUT_MS.
Stamped(s) == IF s.last > RefreshInterval THEN [s EXCEPT !.last = 0] ELSE s

\* UserAccessTokenExpirationMiddleware, after the former.
AfterMiddleware(s) ==
  IF s.token # None /\ s.token.left = 0 THEN NoSession ELSE Stamped(s)

\* SessionGuard.canActivate for a route that is not public.
GuardDecision(s) ==
  IF s.token = None THEN "refused"
  ELSE IF s.token.left < RefreshWindow THEN "refreshing" ELSE "admitted"

\* Whether the middlewares change the session.  One without a token gets a stamp
\* like any other; when it had its last one is not kept here, so it may be due.
Changes(received) ==
  IF received.token = None THEN BOOLEAN ELSE {AfterMiddleware(received) # received}

\* A request arrives with the cookie of this moment.
Arrive(r, kind) ==
  LET received == cookie.session
      s == AfterMiddleware(received)
  IN  /\ request[r] = Free
      /\ \E changed \in Changes(received) :
           request' = [request EXCEPT ![r] =
             [phase |-> GuardDecision(s), kind |-> kind, session |-> s,
              changed |-> changed, age |-> 0]]
      /\ idle' = 0
      /\ UNCHANGED <<account, cookie, screen, excused>>

\* Mutant: a token that was refreshed elsewhere is not adopted.
CacheReadOnlyAcquires(r) ==
  /\ request[r].phase = "refreshing"
  /\ request' = [request EXCEPT ![r].phase =
       IF account = request[r].session.token THEN "acquiring" ELSE "admitted"]
  /\ UNCHANGED <<account, cookie, screen, idle, excused>>

\* refreshUserAccessToken up to acquireTokenSilent: without an account nothing is
\* done, another id token than the session's is adopted, otherwise one is acquired.
CacheRead(r) ==
  /\ request[r].phase = "refreshing"
  /\ \/ /\ account = None
        /\ request' = [request EXCEPT ![r].phase = "admitted"]
     \/ /\ account # None /\ account # request[r].session.token
        /\ request' = [request EXCEPT ![r].phase = "admitted",
                                      ![r].session.token = account,
                                      ![r].changed = TRUE]
     \/ /\ account # None /\ account = request[r].session.token
        /\ request' = [request EXCEPT ![r].phase = "acquiring"]
  /\ UNCHANGED <<account, cookie, screen, idle, excused>>

\* acquireTokenSilent: the cache takes the new token when its answer arrives, so
\* that two of them may be cached in either order.
Acquired(r) ==
  /\ request[r].phase = "acquiring"
  /\ \E t \in Issued(request[r].age) :
       /\ account' = t
       /\ request' = [request EXCEPT ![r].phase = "admitted",
                                     ![r].session.token = t,
                                     ![r].changed = TRUE]
  /\ UNCHANGED <<cookie, screen, idle, excused>>

\* The error is logged; the request goes on with the token it has.
NotAcquired(r) ==
  /\ request[r].phase = "acquiring"
  /\ request' = [request EXCEPT ![r].phase = "admitted"]
  /\ excused' = TRUE
  /\ UNCHANGED <<account, cookie, screen, idle>>

\* The process is restarted: MSAL's cache and the requests under way are lost.
Restart ==
  /\ account' = None
  /\ request' = [r \in Requests |-> Free]
  /\ screen' = IF screen \in {"loading", "booting"} THEN "failed" ELSE screen
  /\ excused' = TRUE
  /\ UNCHANGED <<cookie, idle>>

-----------------------------------------------------------------------------
(* The answers, as the browser receives them.                              *)

\* cookie-session writes the cookie with the answer, if the session has changed; the
\* answer to a request of a page that was left is ignored.
CookieAfter(q) ==
  IF q.changed /\ q.kind # "dropped" THEN SetCookie(q.session) ELSE cookie

\* The handler has done its work.  An api call may still be answered with the 401 or
\* 403 of the engine, /api/auth with the 403 for a user of no engine, or an error.
Answered(r) ==
  /\ request[r].phase = "admitted"
  /\ request' = [request EXCEPT ![r] = Free]
  /\ cookie' = CookieAfter(request[r])
  /\ \/ request[r].kind \in {"api", "dropped"} /\ UNCHANGED screen
     \/ request[r].kind = "api" /\ screen' = "expired"
     \/ request[r].kind = "page" /\ screen' = "booting"
     \/ request[r].kind = "auth" /\ screen' \in {"app", "login", "failed"}
  /\ UNCHANGED <<account, idle, excused>>

\* A page is sent to the identity provider (ssoLogin, unless that fails), anything
\* else gets a 401: the first one shows the session-expired dialog and starts the
\* timer of the reload (AuthInterceptor.handleError, by which /api/auth passes).
Refused(r) ==
  /\ request[r].phase = "refused"
  /\ request' = [request EXCEPT ![r] = Free]
  /\ cookie' = CookieAfter(request[r])
  /\ \/ request[r].kind = "page" /\ screen' \in {"sso", "failed"}
     \/ request[r].kind = "auth" /\ screen' = "failed"
     \/ request[r].kind = "api" /\ screen' = "expired"
     \/ request[r].kind = "dropped" /\ UNCHANGED screen
  /\ UNCHANGED <<account, idle, excused>>

-----------------------------------------------------------------------------
(* The browser.                                                            *)

\* One page and one boot request at a time.
Alone == \A r \in Requests : request[r].kind \notin {"page", "auth"}

LoadPage(r) == screen = "loading" /\ Alone /\ Arrive(r, "page")

\* AuthService.init
Boot(r) == screen = "booting" /\ Alone /\ Arrive(r, "auth")

CallApi(r) == screen \in {"app", "expired"} /\ Arrive(r, "api")

\* Navigating away drops the requests of the page.
Dropped == [r \in Requests |-> [request[r] EXCEPT !.kind = "dropped"]]

\* Mutant: the reload waits for the requests under way.
ReloadWhenQuiet ==
  /\ screen \in {"expired", "failed"}
  /\ \A r \in Requests : request[r] = Free
  /\ screen' = "loading"
  /\ UNCHANGED <<account, cookie, request, idle, excused>>

\* The timer of the session-expired dialog, or the user in front of a failed start.
Reload ==
  /\ screen \in {"expired", "failed"}
  /\ screen' = "loading"
  /\ request' = Dropped
  /\ UNCHANGED <<account, cookie, idle, excused>>

LogoutClicked ==
  /\ screen = "app"
  /\ screen' = "login"
  /\ request' = Dropped
  /\ cookie' = NoCookie
  /\ UNCHANGED <<account, idle, excused>>

SsoClicked ==
  /\ screen = "login"
  /\ screen' = "sso"
  /\ cookie' = NoCookie
  /\ UNCHANGED <<account, request, idle, excused>>

LoggedIn(last) ==
  \E t \in Issued(0) :
    /\ account' = t
    /\ cookie' = SetCookie([token |-> t, last |-> last])
    /\ screen' = "loading"
    /\ excused' = FALSE
    /\ idle' = 0
    /\ UNCHANGED request

\* handleCallback keeps the session it finds, with its stamp.
CallbackAccepted == screen = "sso" /\ \E last \in 0..RefreshInterval : LoggedIn(last)

CallbackFailed ==
  /\ screen = "sso"
  /\ screen' = "login"
  /\ UNCHANGED <<account, cookie, request, idle, excused>>

\* The login form makes a new session, without a stamp.
PasswordAccepted == screen = "login" /\ LoggedIn(RefreshInterval + 1)

PasswordRejected ==
  /\ screen = "login"
  /\ cookie' = NoCookie
  /\ UNCHANGED <<account, request, screen, idle, excused>>

-----------------------------------------------------------------------------
(* Time.                                                                   *)

Less(n) == IF n = 0 THEN 0 ELSE n - 1
UpTo(n, max) == IF n < max THEN n + 1 ELSE max
Aged(t) == IF t = None THEN None ELSE [t EXCEPT !.left = Less(t.left)]
Older(s) ==
  IF s.token = None THEN s
  ELSE [token |-> Aged(s.token), last |-> UpTo(s.last, RefreshInterval + 1)]

Tick ==
  /\ \A r \in Requests : request[r] # Free => request[r].age < MaxDuration
  /\ account' = Aged(account)
  /\ cookie' = IF cookie.ttl <= 1 THEN NoCookie
               ELSE [session |-> Older(cookie.session), ttl |-> cookie.ttl - 1]
  /\ request' = [r \in Requests |->
       IF request[r] = Free THEN Free
       ELSE [request[r] EXCEPT !.session = Older(request[r].session), !.age = @ + 1]]
  /\ idle' = UpTo(idle, MaxIdle + 1)
  /\ excused' = (excused \/ idle' > MaxIdle)
  /\ UNCHANGED screen

-----------------------------------------------------------------------------
Init ==
  /\ account = None
  /\ cookie = NoCookie
  /\ request = [r \in Requests |-> Free]
  /\ screen = "loading"
  /\ idle = 0
  /\ excused = FALSE

Server(r) == CacheRead(r) \/ Acquired(r) \/ NotAcquired(r) \/ Answered(r) \/ Refused(r)

Next ==
  \/ \E r \in Requests : Server(r) \/ LoadPage(r) \/ Boot(r) \/ CallApi(r)
  \/ Restart
  \/ Reload
  \/ LogoutClicked
  \/ SsoClicked
  \/ CallbackAccepted
  \/ CallbackFailed
  \/ PasswordAccepted
  \/ PasswordRejected
  \/ Tick

\* The server and the network answer what the tab waits for, timers run.
Fairness ==
  /\ \A r \in Requests : WF_vars(Server(r))
  /\ WF_vars(\E r \in Requests : LoadPage(r))
  /\ WF_vars(\E r \in Requests : Boot(r))
  /\ WF_vars(screen = "expired" /\ Reload)

Spec == Init /\ [][Next]_vars /\ Fairness

-----------------------------------------------------------------------------
(* Properties.                                                             *)

TypeOK ==
  /\ account \in Token \cup {None}
  /\ cookie \in [session : Session, ttl : 0..SessionTimeout]
  /\ request \in [Requests ->
       [phase : {"free", "refused", "refreshing", "acquiring", "admitted"},
        kind : {"page", "auth", "api", "dropped"},
        session : Session, changed : BOOLEAN, age : 0..MaxDuration]]
  /\ screen \in {"loading", "booting", "app", "expired", "failed", "login", "sso"}
  /\ idle \in 0..(MaxIdle + 1)
  /\ excused \in BOOLEAN

\* A user who keeps working is never thrown out: unless refreshing failed or the
\* server was restarted, no call of the app is refused, although the answers to
\* concurrent requests write the cookie in any order and may put an older token back,
\* and the token found in the cache may be older than the one it replaces
\* (SessionGuard with refreshUserAccessToken, SessionRefreshMiddleware).
ActiveUserStays ==
  \A r \in Requests :
    request[r].kind = "api" /\ request[r].phase = "refused" => excused \/ screen # "app"

\* The engine is called with an id token that has not expired, unless refreshing it
\* failed or the user was idle: also when it was adopted from the cache or acquired
\* slowly (refreshUserAccessToken).
ForwardedTokenIsValid ==
  [][\A r \in Requests :
       request[r].phase # "admitted" /\ request'[r].phase = "admitted"
         => request'[r].session.token.left > 0 \/ excused']_vars

\* From the session-expired dialog the tab comes to the identity provider, the login
\* page, the app or an error page without anything done by the user: it does not go
\* round between the reload, the guard and the start of the app.
ExpiredLeadsToLogin == screen = "expired" ~> screen \in {"sso", "app", "login", "failed"}
==============================================================================
