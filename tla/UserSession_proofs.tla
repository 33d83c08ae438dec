-------------------------- MODULE UserSession_proofs --------------------------
(***************************************************************************)
(* What is proved of the session: for any number of requests under way and *)
(* any times that leave enough of the refresh window (TimesFit), a user    *)
(* who keeps working stays logged in, and the engine never gets a token    *)
(* that has expired.                                                       *)
(*                                                                         *)
(* The cookie is written by whichever answer comes last, so nothing is     *)
(* known of its token but what every possible writer guarantees.           *)
(* CookieFits bounds the age of a token that may be found in the cookie:   *)
(* it was good when it was read, or it is the account's token (the next    *)
(* request acquires a new one), or the account has got a new one (the next *)
(* request adopts it).  WriteFits and RefreshFits say the same of the      *)
(* tokens of the requests that will write the cookie, by the time they     *)
(* have taken; and the cookie has either been looked at a short while ago  *)
(* or some request is under way that writes it (CookieInv).                *)
(***************************************************************************)
EXTENDS UserSession, Integers, TLAPS

\* A token is refreshed in the cookie in time, in spite of the answers that
\* write older ones back, of a page that is left meanwhile, and of tokens
\* that are cached late; and a cookie that is used lives.
TimesFit ==
  /\ RefreshWindow > 5 * MaxDuration + 3 * MaxIdle
  /\ Life >= RefreshWindow + 3 * MaxDuration + 2 * MaxIdle
  /\ SessionTimeout > RefreshInterval + MaxIdle + MaxDuration

Kinds == {"page", "auth", "api", "dropped"}
Phases == {"free", "refused", "refreshing", "acquiring", "admitted"}
RequestStates == [phase : Phases, kind : Kinds, session : Session, changed : BOOLEAN,
                  age : 0..MaxDuration]

\* What is left of the token that a request adopts from the cache
Adopted == RefreshWindow - 3 * MaxDuration - 2 * MaxIdle

\* A token in the cookie, which was all right so long ago
CookieFits(c, acc, ago) ==
  \/ c.left + ago >= RefreshWindow - MaxDuration
  \/ /\ c = acc \/ acc.left + ago >= Life - 2 * MaxDuration
     /\ c.left + ago >= Adopted - MaxDuration

\* A token that is being refreshed, and one that will be written
RefreshFits(x, acc, age) ==
  \/ x.left + age >= Adopted + MaxDuration
  \/ x = acc
  \/ acc.left + age >= RefreshWindow
WriteFits(x, acc, age) ==
  \/ x.left + age >= RefreshWindow
  \/ /\ x = acc \/ acc.left + age >= Life - MaxDuration
     /\ x.left + age >= Adopted

-----------------------------------------------------------------------------
\* What is all right stays so when it was longer ago.
LEMMA FitsLonger ==
  ASSUME NEW c \in Token, NEW acc \in Token, NEW m \in Nat, NEW n \in Nat, m <= n,
         CookieFits(c, acc, m)
  PROVE  CookieFits(c, acc, n)
<1>1. c.left \in Nat /\ acc.left \in Nat
  BY DEF Token
<1> QED BY <1>1, TimesAssumption DEF CookieFits, Adopted

\* A minute passes.
LEMMA AgedFacts ==
  ASSUME NEW t \in Token
  PROVE  /\ Aged(t) \in Token /\ Aged(t) # None
         /\ Aged(t).left + 1 >= t.left /\ Aged(t).left <= t.left
         /\ t.left > 0 => Aged(t).left + 1 = t.left
         /\ t.left = 0 => Aged(t).left = 0
<1>1. t # None /\ t.left \in 0..Life
  BY TimesAssumption DEF Token
<1>2. Aged(t) = [t EXCEPT !.left = Less(t.left)]
  BY <1>1 DEF Aged
<1>3. Less(t.left) \in 0..Life /\ Less(t.left) + 1 >= t.left /\ Less(t.left) <= t.left
  BY <1>1, TimesAssumption DEF Less
<1>4. Aged(t) \in Token /\ Aged(t).left = Less(t.left)
  BY <1>2, <1>3 DEF Token
<1>5. Aged(t) # None
  BY <1>4, TimesAssumption DEF Token
<1> QED BY <1>1, <1>3, <1>4, <1>5 DEF Less

LEMMA FitsAged ==
  ASSUME NEW c \in Token, NEW acc \in Token, NEW n \in Nat
  PROVE  /\ CookieFits(c, acc, n) => CookieFits(Aged(c), Aged(acc), n + 1)
         /\ RefreshFits(c, acc, n) => RefreshFits(Aged(c), Aged(acc), n + 1)
         /\ WriteFits(c, acc, n) => WriteFits(Aged(c), Aged(acc), n + 1)
<1>1. /\ c.left \in Nat /\ acc.left \in Nat /\ Aged(c).left \in Nat /\ Aged(acc).left \in Nat
      /\ Aged(c).left + 1 >= c.left /\ Aged(acc).left + 1 >= acc.left
  BY AgedFacts DEF Token
<1>2. Aged(c).left + (n + 1) >= c.left + n /\ Aged(acc).left + (n + 1) >= acc.left + n
  BY <1>1
<1>3. CookieFits(c, acc, n) => CookieFits(Aged(c), Aged(acc), n + 1)
  BY <1>1, <1>2, TimesAssumption DEF CookieFits, Adopted
<1>4. RefreshFits(c, acc, n) => RefreshFits(Aged(c), Aged(acc), n + 1)
  BY <1>1, <1>2, TimesAssumption DEF RefreshFits, Adopted
<1>5. WriteFits(c, acc, n) => WriteFits(Aged(c), Aged(acc), n + 1)
  BY <1>1, <1>2, TimesAssumption DEF WriteFits, Adopted
<1> QED BY <1>3, <1>4, <1>5

\* The account gets a new token.
LEMMA FitsRenewed ==
  ASSUME TimesFit, NEW c \in Token, NEW acc \in Token, NEW new \in Token, NEW n \in Nat,
         new.left >= Life - MaxDuration
  PROVE  /\ CookieFits(c, acc, n) => CookieFits(c, new, n)
         /\ RefreshFits(c, new, n)
         /\ WriteFits(c, acc, n) => WriteFits(c, new, n)
<1>1. c.left \in Nat /\ acc.left \in Nat /\ new.left \in Nat
  BY DEF Token
<1>2. new.left + n >= Life - MaxDuration
  BY <1>1, TimesAssumption
<1>3. CookieFits(c, acc, n) => CookieFits(c, new, n)
  BY <1>1, <1>2, TimesAssumption DEF CookieFits, Adopted
<1>4. RefreshFits(c, new, n)
  BY <1>1, <1>2, TimesAssumption DEF RefreshFits, TimesFit
<1>5. WriteFits(c, acc, n) => WriteFits(c, new, n)
  BY <1>1, <1>2, TimesAssumption DEF WriteFits, Adopted
<1> QED BY <1>3, <1>4, <1>5

\* An answer writes the cookie.
LEMMA WrittenFits ==
  ASSUME NEW x \in Token, NEW acc \in Token, NEW age \in 0..MaxDuration, WriteFits(x, acc, age)
  PROVE  CookieFits(x, acc, 0)
<1>1. x.left \in Nat /\ acc.left \in Nat /\ age \in Nat /\ age <= MaxDuration
  BY TimesAssumption DEF Token
<1> QED BY <1>1, TimesAssumption DEF WriteFits, CookieFits, Adopted

\* A request that finds the cookie in use is not refused, and when it has to
\* refresh the token it finds a good one or acquires one.
LEMMA FoundFits ==
  ASSUME TimesFit, NEW c \in Token, NEW acc \in Token, NEW n \in Nat, CookieFits(c, acc, n)
  PROVE  /\ n <= MaxIdle + MaxDuration => c.left > 0
         /\ n <= 2 * MaxIdle + MaxDuration => RefreshFits(c, acc, 0)
<1>1. c.left \in Nat /\ acc.left \in Nat
  BY DEF Token
<1>2. n <= MaxIdle + MaxDuration => c.left > 0
  BY <1>1, TimesAssumption DEF CookieFits, Adopted, TimesFit
<1>3. n <= 2 * MaxIdle + MaxDuration => RefreshFits(c, acc, 0)
  BY <1>1, TimesAssumption DEF CookieFits, RefreshFits, Adopted, TimesFit
<1> QED BY <1>2, <1>3

\* The token in the cache is adopted.
LEMMA AdoptedFits ==
  ASSUME TimesFit, NEW x \in Token, NEW acc \in Token, NEW age \in 0..MaxDuration,
         RefreshFits(x, acc, age), x # acc, x.left <= acc.left + MaxDuration
  PROVE  WriteFits(acc, acc, age) /\ acc.left > 0
<1>1. x.left \in Nat /\ acc.left \in Nat /\ age \in Nat /\ age <= MaxDuration
  BY TimesAssumption DEF Token
<1> QED BY <1>1, TimesAssumption DEF WriteFits, RefreshFits, Adopted, TimesFit

-----------------------------------------------------------------------------
Cookie == cookie.session.token
Held(r) == request[r].session.token
Elapsed == SessionTimeout - cookie.ttl

\* Who is under way: the page's requests wait for one another, and none of
\* an app that was left is answered.
KindInv ==
  /\ \A r \in Requests :
       /\ request[r].phase = "free" => request[r] = Free
       /\ request[r].phase \in {"free", "refused"} <=> Held(r) = None
       /\ request[r].kind = "api" => screen \in {"app", "expired"}
       /\ request[r].kind = "page" => screen = "loading"
       /\ request[r].kind = "auth" => screen = "booting"
  /\ \A r, p \in Requests : request[r].kind \in {"page", "auth"} /\ request[p].kind \in {"page", "auth"}
                              => r = p

\* The account's token may be older than others, by what an answer takes
Near(x) == x # None /\ account # None => x.left <= account.left + MaxDuration
NearInv == Near(Cookie) /\ \A r \in Requests : Near(Held(r))

\* Only a restart loses the account
AccountInv == ~excused /\ account = None => Cookie = None /\ \A r \in Requests : Held(r) = None

\* The stamp is as old as the cookie, or old enough
StampInv == Cookie # None => \/ Elapsed <= cookie.session.last
                             \/ cookie.session.last = RefreshInterval + 1
IdleInv == ~excused => idle <= MaxIdle

SessionInv == TypeOK /\ KindInv /\ NearInv /\ AccountInv /\ StampInv /\ IdleInv

\* What a request makes of the cookie it finds (AfterMiddleware, GuardDecision).
LEMMA ArriveFacts ==
  ASSUME TypeOK, NEW r \in Requests, NEW kind \in Kinds, Arrive(r, kind)
  PROVE  /\ request[r] = Free /\ idle' = 0 /\ UNCHANGED <<account, cookie, screen, excused>>
         /\ request'[r] \in RequestStates /\ \A p \in Requests : p # r => request'[p] = request[p]
         /\ request' \in [Requests -> RequestStates]
         /\ request'[r].kind = kind /\ request'[r].age = 0
         /\ request'[r].phase \in {"refused", "refreshing", "admitted"}
         /\ request'[r].phase = "refused" <=> Held(r)' = None
         /\ Held(r)' = IF Cookie # None /\ Cookie.left > 0 THEN Cookie ELSE None
         /\ request'[r].phase = "refused" /\ ~request'[r].changed => Cookie = None
         /\ request'[r].phase = "admitted" <=> Held(r)' # None /\ Cookie.left >= RefreshWindow
         /\ request'[r].phase = "admitted" /\ ~request'[r].changed
              => cookie.session.last <= RefreshInterval
<1> DEFINE received == cookie.session
           s == AfterMiddleware(received)
<1>a. PICK changed \in Changes(received) :
        request' = [request EXCEPT ![r] =
          [phase |-> GuardDecision(s), kind |-> kind, session |-> s,
           changed |-> changed, age |-> 0]]
  BY DEF Arrive
<1> DEFINE q == [phase |-> GuardDecision(s), kind |-> kind, session |-> s,
                 changed |-> changed, age |-> 0]
<1>1. /\ request[r] = Free /\ idle' = 0 /\ UNCHANGED <<account, cookie, screen, excused>>
      /\ request' = [request EXCEPT ![r] = q]
  BY <1>a DEF Arrive
<1>b. changed \in BOOLEAN /\ (received.token # None => changed = (s # received))
  BY DEF Changes
<1>2. /\ received \in Session /\ received.token \in Token \union {None} /\ received.last \in Nat
      /\ \A t \in Token : t.left \in Nat
  BY TimesAssumption DEF TypeOK, Session, Token
<1>3. NoSession \in Session /\ NoSession.token = None
  BY TimesAssumption DEF NoSession, Session
<1>4. /\ Stamped(received) \in Session /\ Stamped(received).token = received.token
      /\ Stamped(received) = received => received.last <= RefreshInterval
  <2>1. CASE received.last > RefreshInterval
    <3>1. Stamped(received) = [received EXCEPT !.last = 0]
      BY <2>1 DEF Stamped
    <3>2. Stamped(received).last = 0 /\ received.last # 0
      BY <1>2, <2>1, <3>1, TimesAssumption DEF Session
    <3> QED BY <1>2, <3>1, <3>2, TimesAssumption DEF Session
  <2>2. CASE ~(received.last > RefreshInterval)
    BY <1>2, <2>2, TimesAssumption DEF Stamped
  <2> QED BY <2>1, <2>2
<1>5. s \in Session
  BY <1>3, <1>4 DEF AfterMiddleware
<1>6. s.token = IF received.token # None /\ received.token.left > 0 THEN received.token ELSE None
  BY <1>2, <1>3, <1>4 DEF AfterMiddleware
<1>7. s.token # None => s = Stamped(received)
  BY <1>3 DEF AfterMiddleware
<1>8. s = received /\ s.token = None => received.token = None
  OBVIOUS
<1> HIDE DEF s
<1>9. /\ GuardDecision(s) \in {"refused", "refreshing", "admitted"}
      /\ GuardDecision(s) = "refused" <=> s.token = None
      /\ GuardDecision(s) = "admitted" <=> s.token # None /\ ~(s.token.left < RefreshWindow)
  BY DEF GuardDecision
<1>10. q \in RequestStates
  BY <1>5, <1>9, <1>b, TimesAssumption DEF RequestStates, Phases
<1>11. request \in [Requests -> RequestStates]
  BY DEF TypeOK, RequestStates, Phases, Kinds
<1>12. /\ request'[r] = q /\ \A p \in Requests : p # r => request'[p] = request[p]
       /\ request' \in [Requests -> RequestStates]
  BY <1>1, <1>10, <1>11
<1>13. /\ q.phase = GuardDecision(s) /\ q.kind = kind /\ q.session = s /\ q.age = 0
       /\ q.changed = changed
  OBVIOUS
<1> HIDE DEF q
<1>14. s.token # None => (~(s.token.left < RefreshWindow) <=> Cookie.left >= RefreshWindow)
  BY <1>2, <1>6, TimesAssumption DEF Cookie
<1> QED BY <1>1, <1>4, <1>6, <1>7, <1>8, <1>9, <1>10, <1>12, <1>13, <1>14, <1>b DEF Cookie, Held

\* What an answer leaves in the browser (CookieAfter).
LEMMA AnswerFacts ==
  ASSUME TypeOK, NEW r \in Requests, cookie' = CookieAfter(request[r])
  PROVE  /\ cookie' \in [session : Session, ttl : 0..SessionTimeout]
         /\ \/ cookie' = cookie /\ ~(request[r].changed /\ request[r].kind # "dropped")
            \/ /\ request[r].changed /\ request[r].kind # "dropped" /\ Held(r) # None
               /\ Cookie' = Held(r) /\ Elapsed' = 0
            \/ /\ request[r].changed /\ request[r].kind # "dropped" /\ Held(r) = None
               /\ Cookie' = None
<1>1. request[r].session \in Session
  BY DEF TypeOK
<1>2. CASE ~(request[r].changed /\ request[r].kind # "dropped")
  BY <1>2 DEF CookieAfter, TypeOK
<1>3. CASE request[r].changed /\ request[r].kind # "dropped"
  <2>1. cookie' = SetCookie(request[r].session)
    BY <1>3 DEF CookieAfter
  <2>2. CASE Held(r) = None
    <3>1. cookie' = [session |-> [token |-> None, last |-> 0], ttl |-> 0]
      BY <2>1, <2>2 DEF SetCookie, NoCookie, NoSession, Held
    <3>2. [token |-> None, last |-> 0] \in Session
      BY TimesAssumption DEF Session
    <3> QED BY <1>3, <2>2, <3>1, <3>2, TimesAssumption DEF Cookie
  <2>3. CASE Held(r) # None
    <3>1. cookie' = [session |-> request[r].session, ttl |-> SessionTimeout]
      BY <2>1, <2>3 DEF SetCookie, Held
    <3> QED BY <1>1, <1>3, <2>3, <3>1, TimesAssumption DEF Cookie, Held, Elapsed
  <2> QED BY <2>2, <2>3
<1> QED BY <1>2, <1>3

\* A token that is issued now, or a while ago, is as good as new.
LEMMA IssuedFacts ==
  ASSUME NEW ago \in 0..MaxDuration, NEW t \in Issued(ago)
  PROVE  t.left >= Life - ago /\ t.left <= Life /\ (ago <= Life => t \in Token)
<1>1. PICK i \in Ids, l \in (Life - ago)..Life : t = [id |-> i, left |-> l]
  BY DEF Issued
<1> QED BY <1>1, TimesAssumption DEF Token

-----------------------------------------------------------------------------
\* What holds whatever the times are: a request arrives.
LEMMA ArriveKeeps ==
  ASSUME SessionInv, NEW r \in Requests, NEW kind \in Kinds, Arrive(r, kind),
         kind = "api" => screen \in {"app", "expired"},
         kind = "page" => screen = "loading" /\ Alone, kind = "auth" => screen = "booting" /\ Alone,
         kind # "dropped"
  PROVE  SessionInv'
<1> USE DEF SessionInv
<1>1. /\ request[r] = Free /\ idle' = 0 /\ UNCHANGED <<account, cookie, screen, excused>>
      /\ \A p \in Requests : p # r => request'[p] = request[p]
      /\ request' \in [Requests -> RequestStates]
      /\ request'[r].kind = kind
      /\ request'[r].phase \in {"refused", "refreshing", "admitted"}
      /\ request'[r].phase = "refused" <=> Held(r)' = None
      /\ Held(r)' = IF Cookie # None /\ Cookie.left > 0 THEN Cookie ELSE None
  BY ArriveFacts
<1>2. TypeOK'
  BY <1>1, TimesAssumption DEF TypeOK, RequestStates, Phases, Kinds
<1>3. KindInv'
  <2>1. \A p \in Requests : p # r => Held(p)' = Held(p)
    BY <1>1 DEF Held
  <2>2. \A p \in Requests : p # r /\ request'[p].kind \in {"page", "auth"} => kind = "api"
    BY <1>1 DEF Alone, Kinds
  <2> QED BY <1>1, <2>1, <2>2 DEF KindInv
<1>4. NearInv' /\ AccountInv'
  <2>1. \A p \in Requests : p # r => Held(p)' = Held(p)
    BY <1>1 DEF Held
  <2>2. Cookie' = Cookie
    BY <1>1 DEF Cookie
  <2> QED BY <1>1, <2>1, <2>2 DEF NearInv, Near, AccountInv
<1>5. StampInv' /\ IdleInv'
  BY <1>1, TimesAssumption DEF StampInv, Cookie, Elapsed, IdleInv
<1> QED BY <1>2, <1>3, <1>4, <1>5

\* A request moves on, with a token that is none older than the account's by
\* more than an answer takes.
LEMMA RequestKeeps ==
  ASSUME SessionInv, NEW r \in Requests, NEW q \in RequestStates, request' = [request EXCEPT ![r] = q],
         request[r].phase \notin {"free", "refused"}, q.phase \notin {"free", "refused"},
         q.kind = request[r].kind, q.session.token # None,
         account' # None => q.session.token.left <= account'.left + MaxDuration,
         account' = account \/ /\ account' \in Token
                               /\ \A t \in Token : t.left <= account'.left + MaxDuration,
         UNCHANGED <<cookie, screen, idle>>, excused' = excused \/ excused' = TRUE
  PROVE  SessionInv'
<1> USE DEF SessionInv
<1>1. /\ request \in [Requests -> RequestStates] /\ request' \in [Requests -> RequestStates]
      /\ request'[r] = q /\ \A p \in Requests : p # r => request'[p] = request[p]
  BY DEF TypeOK, RequestStates, Phases, Kinds
<1>2. /\ Held(r)' = q.session.token /\ \A p \in Requests : p # r => Held(p)' = Held(p)
      /\ Cookie' = Cookie
  BY <1>1 DEF Held, Cookie
<1>3. Held(r) # None /\ (~excused => account # None)
  BY DEF KindInv, AccountInv
<1>4. /\ Cookie \in Token \union {None} /\ \A p \in Requests : Held(p) \in Token \union {None}
  BY <1>1 DEF TypeOK, Cookie, Held, Session, RequestStates
<1>5. TypeOK'
  BY <1>1 DEF TypeOK, RequestStates, Phases, Kinds
<1>6. KindInv'
  BY <1>1, <1>2 DEF KindInv
<1>7. NearInv'
  BY <1>1, <1>2, <1>4 DEF NearInv, Near
<1>8. AccountInv'
  <2>1. account' = None => account = None
    BY TimesAssumption DEF Token
  <2> QED BY <1>3, <2>1 DEF AccountInv
<1>9. StampInv' /\ IdleInv'
  BY DEF StampInv, Cookie, Elapsed, IdleInv
<1> QED BY <1>5, <1>6, <1>7, <1>8, <1>9

\* A request is answered, and the cookie written, or not.
LEMMA AnswerKeeps ==
  ASSUME SessionInv, NEW r \in Requests, request[r] # Free, request' = [request EXCEPT ![r] = Free],
         cookie' = CookieAfter(request[r]), UNCHANGED <<account, idle, excused>>,
         screen' \in {"loading", "booting", "app", "expired", "failed", "login", "sso"},
         \/ UNCHANGED screen
         \/ request[r].kind = "api" /\ screen' = "expired"
         \/ request[r].kind \in {"page", "auth"}
  PROVE  SessionInv'
<1> USE DEF SessionInv
<1>1. Free \in RequestStates /\ Free.phase = "free" /\ Free.kind = "dropped" /\ Free.session.token = None
  BY TimesAssumption DEF Free, RequestStates, Phases, Kinds, NoSession, Session
<1>2. /\ request \in [Requests -> RequestStates] /\ request' \in [Requests -> RequestStates]
      /\ request'[r] = Free /\ \A p \in Requests : p # r => request'[p] = request[p]
  BY <1>1 DEF TypeOK, RequestStates, Phases, Kinds
<1>3. /\ cookie' \in [session : Session, ttl : 0..SessionTimeout]
      /\ \/ cookie' = cookie
         \/ Held(r) # None /\ Cookie' = Held(r) /\ Elapsed' = 0
         \/ Cookie' = None
  BY AnswerFacts
<1>4. Held(r)' = None /\ \A p \in Requests : p # r => Held(p)' = Held(p)
  BY <1>1, <1>2 DEF Held
<1>5. TypeOK'
  BY <1>2, <1>3 DEF TypeOK, RequestStates, Phases, Kinds
<1>6. KindInv'
  <2>1. request[r].kind \in {"page", "auth"} =>
          \A p \in Requests : p # r => request[p].kind = "dropped"
    BY <1>2 DEF KindInv, RequestStates, Kinds
  <2> QED BY <1>1, <1>2, <1>4, <2>1 DEF KindInv
<1>7. NearInv' /\ AccountInv'
  <2>1. Cookie' \in {Cookie, Held(r), None}
    BY <1>3 DEF Cookie
  <2> QED BY <1>4, <2>1 DEF NearInv, Near, AccountInv
<1>8. StampInv'
  <2>1. CASE cookie' = cookie
    BY <2>1 DEF StampInv, Cookie, Elapsed
  <2>2. CASE Elapsed' = 0
    <3>1. cookie'.session.last \in Nat
      BY <1>3, TimesAssumption DEF Session
    <3> QED BY <2>2, <3>1 DEF StampInv
  <2> QED BY <1>3, <2>1, <2>2 DEF StampInv
<1>9. IdleInv'
  BY DEF IdleInv
<1> QED BY <1>5, <1>6, <1>7, <1>8, <1>9

\* A minute passes.
LEMMA TickKeeps ==
  ASSUME SessionInv, Tick
  PROVE  /\ SessionInv'
         /\ \A r \in Requests :
              /\ request'[r].phase = request[r].phase /\ request'[r].kind = request[r].kind
              /\ request'[r].changed = request[r].changed
              /\ Held(r)' = Aged(Held(r))
              /\ request[r].phase # "free" => /\ request[r].age < MaxDuration
                                              /\ request'[r].age = request[r].age + 1
         /\ account' = Aged(account)
         /\ cookie.ttl > 1 => Cookie' = Aged(Cookie) /\ Elapsed' = Elapsed + 1
         /\ Cookie' # None => Cookie' = Aged(Cookie)
         /\ idle <= MaxIdle => idle' = idle + 1
<1> USE DEF SessionInv
<1>1. /\ \A r \in Requests : request[r] # Free => request[r].age < MaxDuration
      /\ account' = Aged(account)
      /\ cookie' = IF cookie.ttl <= 1 THEN NoCookie
                   ELSE [session |-> Older(cookie.session), ttl |-> cookie.ttl - 1]
      /\ idle' = UpTo(idle, MaxIdle + 1) /\ excused' = (excused \/ idle' > MaxIdle)
      /\ screen' = screen
  BY DEF Tick
<1>a. request' = [r \in Requests |->
        IF request[r] = Free THEN Free
        ELSE [request[r] EXCEPT !.session = Older(request[r].session), !.age = @ + 1]]
  BY DEF Tick
<1>2. Aged(None) = None
  BY DEF Aged
<1>3. \A t \in Token : Aged(t) \in Token /\ Aged(t) # None
  BY AgedFacts
<1>4. ASSUME NEW s \in Session
      PROVE  /\ Older(s) \in Session /\ Older(s).token = Aged(s.token)
             /\ s.token # None => Older(s).last = UpTo(s.last, RefreshInterval + 1)
  <2>1. s.token \in Token \union {None} /\ s.last \in 0..(RefreshInterval + 1)
    BY DEF Session
  <2>2. UpTo(s.last, RefreshInterval + 1) \in 0..(RefreshInterval + 1)
    BY <2>1, TimesAssumption DEF UpTo
  <2> QED BY <1>2, <1>3, <2>1, <2>2 DEF Older, Session
<1>5. /\ Free \in RequestStates /\ Free.phase = "free" /\ Free.kind = "dropped"
      /\ Free.session.token = None
  BY TimesAssumption DEF Free, RequestStates, Phases, Kinds, NoSession, Session
<1>6. request \in [Requests -> RequestStates]
  BY DEF TypeOK, RequestStates, Phases, Kinds
<1>7. ASSUME NEW r \in Requests
      PROVE  /\ request'[r] \in RequestStates
             /\ request'[r].phase = request[r].phase /\ request'[r].kind = request[r].kind
             /\ request'[r].changed = request[r].changed
             /\ Held(r)' = Aged(Held(r))
             /\ request[r] = Free => request'[r] = Free
             /\ request[r].phase # "free" => /\ request[r].age < MaxDuration
                                             /\ request'[r].age = request[r].age + 1
  <2>1. CASE request[r] = Free
    <3>1. request'[r] = Free
      BY <1>a, <2>1
    <3> QED BY <1>2, <1>5, <2>1, <3>1 DEF Held
  <2>2. CASE request[r] # Free
    <3> DEFINE q == [request[r] EXCEPT !.session = Older(request[r].session), !.age = @ + 1]
    <3>1. request'[r] = q /\ request[r].age < MaxDuration /\ request[r] \in RequestStates
      BY <1>1, <1>a, <1>6, <2>2
    <3>2. request[r].session \in Session /\ request[r].age + 1 \in 0..MaxDuration
      BY <3>1, TimesAssumption DEF RequestStates
    <3>3. q \in RequestStates /\ q.session = Older(request[r].session)
      BY <1>4, <3>1, <3>2 DEF RequestStates
    <3>4. /\ q.phase = request[r].phase /\ q.kind = request[r].kind
          /\ q.changed = request[r].changed /\ q.age = request[r].age + 1
      BY <3>1 DEF RequestStates
    <3> HIDE DEF q
    <3> QED BY <1>4, <2>2, <3>1, <3>2, <3>3, <3>4 DEF Held
  <2> QED BY <2>1, <2>2
<1>8. request' \in [Requests -> RequestStates]
  BY <1>a, <1>7
<1>9. account' \in Token \union {None} /\ (account' = None <=> account = None)
  BY <1>1, <1>2, <1>3, TimesAssumption DEF TypeOK
<1>10. cookie.session \in Session /\ cookie.ttl \in 0..SessionTimeout
  BY DEF TypeOK
<1>11. /\ cookie' \in [session : Session, ttl : 0..SessionTimeout]
       /\ cookie.ttl > 1 => /\ Cookie' = Aged(Cookie) /\ Elapsed' = Elapsed + 1
                            /\ Cookie # None =>
                                 cookie'.session.last = UpTo(cookie.session.last, RefreshInterval + 1)
       /\ ~(cookie.ttl > 1) => Cookie' = None
  <2>1. CASE cookie.ttl <= 1
    <3>1. NoCookie \in [session : Session, ttl : 0..SessionTimeout] /\ NoCookie.session.token = None
      BY TimesAssumption DEF NoCookie, NoSession, Session
    <3>2. cookie' = NoCookie
      BY <1>1, <2>1
    <3>3. ~(cookie.ttl > 1)
      BY <1>10, <2>1, TimesAssumption
    <3> QED BY <3>1, <3>2, <3>3 DEF Cookie
  <2>2. CASE ~(cookie.ttl <= 1)
    <3>1. cookie' = [session |-> Older(cookie.session), ttl |-> cookie.ttl - 1]
      BY <1>1, <2>2
    <3>2. cookie.ttl > 1 /\ cookie.ttl - 1 \in 0..SessionTimeout
      BY <1>10, <2>2, TimesAssumption
    <3>3. cookie' \in [session : Session, ttl : 0..SessionTimeout]
      BY <1>4, <1>10, <3>1, <3>2
    <3>4. Elapsed' = Elapsed + 1
      BY <1>10, <3>1, TimesAssumption DEF Elapsed
    <3> QED BY <1>4, <1>10, <3>1, <3>2, <3>3, <3>4 DEF Cookie
  <2> QED BY <2>1, <2>2
<1>20. /\ idle' \in 0..(MaxIdle + 1) /\ (excused \/ idle' > MaxIdle) \in BOOLEAN
       /\ idle <= MaxIdle => idle' = idle + 1
  <2>1. idle \in 0..(MaxIdle + 1) /\ MaxIdle \in Nat
    BY TimesAssumption DEF TypeOK
  <2>2. idle' = IF idle < MaxIdle + 1 THEN idle + 1 ELSE MaxIdle + 1
    BY <1>1 DEF UpTo
  <2> QED BY <2>1, <2>2
<1>12. TypeOK'
  <2>1. idle' \in 0..(MaxIdle + 1) /\ excused' \in BOOLEAN
    BY <1>1, <1>20
  <2> QED BY <1>1, <1>8, <1>9, <1>11, <2>1 DEF TypeOK, RequestStates, Phases, Kinds
<1>13. Cookie \in Token \union {None} /\ \A r \in Requests : Held(r) \in Token \union {None}
  BY <1>6, <1>10 DEF Cookie, Held, RequestStates, Session
<1>14. Cookie' # None => Cookie # None /\ Cookie' = Aged(Cookie)
  BY <1>2, <1>11
<1>15. KindInv'
  <2>1. \A r \in Requests : Held(r)' = None <=> Held(r) = None
    BY <1>2, <1>3, <1>7, <1>13
  <2>2. \A r \in Requests : /\ request'[r].phase = request[r].phase
                            /\ request'[r].kind = request[r].kind
                            /\ request[r] = Free => request'[r] = Free
    BY <1>7
  <2>3. screen' = screen
    BY <1>1
  <2>4. ASSUME NEW r \in Requests
        PROVE  /\ request'[r].phase = "free" => request'[r] = Free
               /\ request'[r].phase \in {"free", "refused"} <=> Held(r)' = None
               /\ request'[r].kind = "api" => screen' \in {"app", "expired"}
               /\ request'[r].kind = "page" => screen' = "loading"
               /\ request'[r].kind = "auth" => screen' = "booting"
    BY <2>1, <2>2, <2>3 DEF KindInv
  <2>5. ASSUME NEW r \in Requests, NEW p \in Requests, request'[r].kind \in {"page", "auth"},
               request'[p].kind \in {"page", "auth"}
        PROVE  r = p
    BY <2>2, <2>5 DEF KindInv
  <2> QED BY <2>4, <2>5 DEF KindInv
<1>16. NearInv'
  <2>1. ASSUME NEW x \in Token \union {None}, Near(x), Aged(x) # None, account' # None
        PROVE  Aged(x).left <= account'.left + MaxDuration
    <3>1. x \in Token /\ account \in Token
      BY <1>2, <1>9, <2>1 DEF TypeOK
    <3>2. x.left <= account.left + MaxDuration
      BY <2>1, <3>1, TimesAssumption DEF Near, Token
    <3>3. /\ x.left \in Nat /\ account.left \in Nat /\ Aged(x).left \in Nat /\ account'.left \in Nat
          /\ x.left > 0 => Aged(x).left + 1 = x.left
          /\ x.left = 0 => Aged(x).left = 0
          /\ account'.left + 1 >= account.left
      <4>1. /\ Aged(x) \in Token /\ Aged(account) \in Token
            /\ x.left > 0 => Aged(x).left + 1 = x.left
            /\ x.left = 0 => Aged(x).left = 0
            /\ Aged(account).left + 1 >= account.left
        BY <3>1, AgedFacts
      <4>2. \A t \in Token : t.left \in Nat
        BY TimesAssumption DEF Token
      <4> QED BY <1>1, <3>1, <4>1, <4>2
    <3> QED BY <3>2, <3>3, TimesAssumption
  <2>2. Near(Cookie)'
    BY <1>13, <1>14, <2>1 DEF NearInv, Near
  <2>3. \A r \in Requests : Near(Held(r))'
    BY <1>7, <1>13, <2>1 DEF NearInv, Near
  <2> QED BY <2>2, <2>3 DEF NearInv
<1>17. AccountInv'
  BY <1>1, <1>2, <1>7, <1>9, <1>14 DEF AccountInv
<1>18. StampInv'
  <2> SUFFICES ASSUME Cookie' # None
               PROVE  Elapsed' <= cookie'.session.last \/ cookie'.session.last = RefreshInterval + 1
    BY DEF StampInv
  <2>1. /\ cookie.ttl > 1 /\ Elapsed' = Elapsed + 1 /\ Cookie # None
        /\ cookie'.session.last = UpTo(cookie.session.last, RefreshInterval + 1)
    BY <1>11, <1>14
  <2>2. cookie.session.last \in Nat /\ Elapsed \in Int /\ cookie.session.last <= RefreshInterval + 1
    BY <1>10, TimesAssumption DEF Session, Elapsed
  <2> QED BY <2>1, <2>2, TimesAssumption DEF StampInv, UpTo
<1>19. IdleInv' /\ (idle <= MaxIdle => idle' = idle + 1)
  <2>1. idle' \in Nat /\ MaxIdle \in Nat
    BY <1>20, TimesAssumption
  <2>2. ~excused' => ~(idle' > MaxIdle)
    BY <1>1
  <2> QED BY <1>20, <2>1, <2>2 DEF IdleInv
<1> QED BY <1>1, <1>7, <1>11, <1>12, <1>14, <1>15, <1>16, <1>17, <1>18, <1>19

\* The page is left, and its requests with it.
LEMMA DroppedFacts ==
  ASSUME SessionInv, request' = Dropped
  PROVE  /\ request' \in [Requests -> RequestStates]
         /\ \A r \in Requests : /\ request'[r].kind = "dropped" /\ Held(r)' = Held(r)
                                /\ request'[r].phase = request[r].phase
                                /\ request'[r].age = request[r].age
                                /\ request[r] = Free => request'[r] = Free
<1>1. request \in [Requests -> RequestStates]
  BY DEF SessionInv, TypeOK, RequestStates, Phases, Kinds
<1>2. ASSUME NEW r \in Requests
      PROVE  /\ request'[r] \in RequestStates
             /\ request'[r].kind = "dropped" /\ Held(r)' = Held(r)
             /\ request'[r].phase = request[r].phase
             /\ request'[r].age = request[r].age
             /\ request[r] = Free => request'[r] = Free
  <2>1. request[r] \in RequestStates /\ request'[r] = [request[r] EXCEPT !.kind = "dropped"]
    BY <1>1 DEF Dropped
  <2> QED BY <2>1 DEF RequestStates, Kinds, Held, Free
<1>3. DOMAIN request' = Requests /\ request' = [r \in Requests |-> request'[r]]
  BY DEF Dropped
<1> QED BY <1>2, <1>3

\* A login (LoggedIn): nothing is under way but what was dropped before.
LEMMA LoginKeeps ==
  ASSUME SessionInv, screen \in {"sso", "login"}, NEW last \in 0..(RefreshInterval + 1), LoggedIn(last)
  PROVE  /\ SessionInv' /\ account' \in Token /\ account'.left = Life /\ Cookie' = account'
         /\ screen' = "loading" /\ \A r \in Requests : request[r].kind = "dropped"
         /\ request' = request
<1> USE DEF SessionInv
<1>1. PICK t \in Issued(0) :
        /\ account' = t /\ cookie' = SetCookie([token |-> t, last |-> last])
        /\ screen' = "loading" /\ excused' = FALSE /\ idle' = 0 /\ request' = request
  BY DEF LoggedIn
<1>2. t \in Token /\ t.left = Life /\ t # None
  <2>1. 0 \in 0..MaxDuration /\ 0 <= Life
    BY TimesAssumption
  <2>2. t.left >= Life - 0 /\ t.left <= Life /\ t \in Token
    BY <2>1, IssuedFacts
  <2> QED BY <2>2, TimesAssumption DEF Token
<1>3. cookie' = [session |-> [token |-> t, last |-> last], ttl |-> SessionTimeout]
  BY <1>1, <1>2 DEF SetCookie
<1>4. [token |-> t, last |-> last] \in Session
  BY <1>2 DEF Session
<1>5. cookie' \in [session : Session, ttl : 0..SessionTimeout] /\ Cookie' = t /\ Elapsed' = 0
  BY <1>3, <1>4, TimesAssumption DEF Cookie, Elapsed
<1>6. \A r \in Requests : request[r].kind = "dropped"
  BY DEF KindInv, TypeOK
<1>7. \A r \in Requests : Held(r) \in Token \union {None} /\ Held(r)' = Held(r)
  BY <1>1 DEF TypeOK, Held, Session
<1>8. \A x \in Token : x.left <= Life + MaxDuration
  BY TimesAssumption DEF Token
<1>9. TypeOK'
  <2>1. /\ 0 \in 0..(MaxIdle + 1)
        /\ account' \in Token \union {None}
        /\ screen' \in {"loading", "booting", "app", "expired", "failed", "login", "sso"}
    BY <1>1, <1>2, TimesAssumption
  <2> QED BY <1>1, <1>5, <2>1 DEF TypeOK
<1>10. KindInv'
  BY <1>1, <1>6, <1>7 DEF KindInv
<1>11. NearInv' /\ AccountInv'
  BY <1>1, <1>2, <1>5, <1>7, <1>8 DEF NearInv, Near, AccountInv
<1>12. StampInv' /\ IdleInv'
  <2>1. cookie'.session.last \in Nat
    BY <1>3, TimesAssumption
  <2> QED BY <1>1, <1>5, <2>1, TimesAssumption DEF StampInv, IdleInv
<1> QED BY <1>1, <1>2, <1>5, <1>6, <1>9, <1>10, <1>11, <1>12

\* A request of the page, of the start of the app, or of the app arrives.
Arrives(r) == LoadPage(r) \/ Boot(r) \/ CallApi(r)

\* A request that refreshes its token goes on with the one it has, unless it may
\* not, adopts the account's, or gets a new one.
Stays(r, q) == /\ account' = account /\ q.session.token = Held(r)
               /\ (~excused' => q.phase = "acquiring")
Adopts(r, q) == /\ account' = account /\ account # None /\ account # Held(r)
                /\ q.session.token = account /\ q.phase = "admitted" /\ q.changed
                /\ excused' = excused
Renews(r, q) == /\ account' \in Token /\ account'.left >= Life - MaxDuration
                /\ q.session.token = account' /\ q.phase = "admitted" /\ q.changed
                /\ excused' = excused

LEMMA MoveFacts ==
  ASSUME TimesFit, SessionInv, NEW r \in Requests, CacheRead(r) \/ Acquired(r) \/ NotAcquired(r)
  PROVE  /\ request[r].phase \in {"refreshing", "acquiring"} /\ Held(r) \in Token
         /\ UNCHANGED <<cookie, screen, idle>> /\ (excused' = excused \/ excused' = TRUE)
         /\ \E q \in RequestStates :
              /\ request' = [request EXCEPT ![r] = q]
              /\ q.kind = request[r].kind /\ q.age = request[r].age
              /\ q.phase \in {"acquiring", "admitted"}
              /\ Stays(r, q) \/ Adopts(r, q) \/ Renews(r, q)
<1> USE DEF SessionInv
<1>1. /\ request[r].phase \in {"refreshing", "acquiring"}
      /\ UNCHANGED <<cookie, screen, idle>> /\ (excused' = excused \/ excused' = TRUE)
  BY DEF CacheRead, Acquired, NotAcquired
<1>2. /\ request \in [Requests -> RequestStates] /\ request[r] \in RequestStates
      /\ request[r].session \in Session /\ request[r].age \in 0..MaxDuration
      /\ Held(r) \in Token
  BY <1>1 DEF TypeOK, RequestStates, Phases, Kinds, KindInv, Held, Session
<1>3. ASSUME NEW phase \in {"admitted", "acquiring"}, request' = [request EXCEPT ![r].phase = phase]
      PROVE  \E q \in RequestStates :
               /\ request' = [request EXCEPT ![r] = q] /\ q.kind = request[r].kind
               /\ q.age = request[r].age /\ q.phase = phase /\ q.session.token = Held(r)
  <2> DEFINE q == [request[r] EXCEPT !.phase = phase]
  <2>1. q \in RequestStates
    BY <1>2 DEF RequestStates, Phases
  <2>2. /\ q.kind = request[r].kind /\ q.age = request[r].age /\ q.phase = phase
        /\ q.session.token = Held(r)
    BY <1>2 DEF RequestStates, Held
  <2>3. request' = [request EXCEPT ![r] = q]
    BY <1>2, <1>3
  <2> HIDE DEF q
  <2> QED BY <2>1, <2>2, <2>3
<1>4. ASSUME NEW t \in Token,
             request' = [request EXCEPT ![r].phase = "admitted", ![r].session.token = t,
                                        ![r].changed = TRUE]
      PROVE  \E q \in RequestStates :
               /\ request' = [request EXCEPT ![r] = q] /\ q.kind = request[r].kind
               /\ q.age = request[r].age /\ q.phase = "admitted" /\ q.session.token = t /\ q.changed
  <2> DEFINE q == [request[r] EXCEPT !.phase = "admitted", !.session.token = t, !.changed = TRUE]
  <2>1. [request[r].session EXCEPT !.token = t] \in Session
    BY <1>2 DEF Session
  <2>2. /\ q.kind = request[r].kind /\ q.age = request[r].age /\ q.phase = "admitted"
        /\ q.session.token = t /\ q.changed
    BY <1>2 DEF RequestStates, Session
  <2>3. q \in RequestStates
    BY <1>2, <2>1 DEF RequestStates, Phases
  <2>4. request' = [request EXCEPT ![r] = q]
    BY <1>2, <1>4
  <2> HIDE DEF q
  <2> QED BY <2>2, <2>3, <2>4
<1>5. CASE CacheRead(r)
  <2>1. CASE account = None
    <3>1. request' = [request EXCEPT ![r].phase = "admitted"] /\ account' = account /\ excused' = excused
      BY <1>5, <2>1 DEF CacheRead
    <3>2. excused
      BY <1>2, <2>1, TimesAssumption DEF AccountInv, Token, TypeOK
    <3> QED BY <1>1, <1>2, <1>3, <3>1, <3>2 DEF Stays
  <2>2. CASE account # None /\ account # Held(r)
    <3>1. /\ request' = [request EXCEPT ![r].phase = "admitted", ![r].session.token = account,
                                        ![r].changed = TRUE]
          /\ account' = account /\ excused' = excused /\ account \in Token
      BY <1>5, <2>2 DEF CacheRead, Held, TypeOK
    <3> QED BY <1>1, <1>2, <1>4, <2>2, <3>1 DEF Adopts
  <2>3. CASE account # None /\ account = Held(r)
    <3>1. request' = [request EXCEPT ![r].phase = "acquiring"] /\ account' = account /\ excused' = excused
      BY <1>5, <2>3 DEF CacheRead, Held
    <3> QED BY <1>1, <1>2, <1>3, <3>1 DEF Stays
  <2> QED BY <2>1, <2>2, <2>3
<1>6. CASE Acquired(r)
  <2>1. PICK t \in Issued(request[r].age) :
          /\ account' = t
          /\ request' = [request EXCEPT ![r].phase = "admitted", ![r].session.token = t,
                                        ![r].changed = TRUE]
    BY <1>6 DEF Acquired
  <2>2. excused' = excused
    BY <1>6 DEF Acquired
  <2>3. request[r].age \in Nat /\ request[r].age <= MaxDuration /\ MaxDuration <= Life
    BY <1>2, TimesAssumption DEF TimesFit
  <2>4. t.left >= Life - request[r].age /\ t \in Token
    BY <1>2, <2>3, TimesAssumption, IssuedFacts
  <2>5. t.left >= Life - MaxDuration
    BY <2>3, <2>4, TimesAssumption DEF Token
  <2> QED BY <1>1, <1>2, <1>4, <2>1, <2>2, <2>4, <2>5 DEF Renews
<1>7. CASE NotAcquired(r)
  <2>1. request' = [request EXCEPT ![r].phase = "admitted"] /\ account' = account /\ excused'
    BY <1>7 DEF NotAcquired
  <2> QED BY <1>1, <1>2, <1>3, <2>1 DEF Stays
<1> QED BY <1>5, <1>6, <1>7

\* What holds whatever the times are.
LEMMA SessionStep ==
  TimesFit /\ SessionInv /\ [Next]_vars => SessionInv'
<1> SUFFICES ASSUME TimesFit, SessionInv, [Next]_vars PROVE SessionInv'
  OBVIOUS
<1>0. TypeOK /\ KindInv /\ NearInv /\ AccountInv /\ StampInv /\ IdleInv
  BY DEF SessionInv
<1>1. ASSUME NEW r \in Requests, Arrives(r) PROVE SessionInv'
  <2>1. CASE LoadPage(r)
    BY <2>1, ArriveKeeps DEF LoadPage, Kinds
  <2>2. CASE Boot(r)
    BY <2>2, ArriveKeeps DEF Boot, Kinds
  <2>3. CASE CallApi(r)
    BY <2>3, ArriveKeeps DEF CallApi, Kinds
  <2> QED BY <1>1, <2>1, <2>2, <2>3 DEF Arrives
<1>2. ASSUME NEW r \in Requests, CacheRead(r) \/ Acquired(r) \/ NotAcquired(r) PROVE SessionInv'
  <2>1. /\ request[r].phase \in {"refreshing", "acquiring"} /\ Held(r) \in Token
        /\ UNCHANGED <<cookie, screen, idle>> /\ (excused' = excused \/ excused' = TRUE)
    BY <1>2, MoveFacts
  <2>2. PICK q \in RequestStates :
          /\ request' = [request EXCEPT ![r] = q]
          /\ q.kind = request[r].kind /\ q.age = request[r].age
          /\ q.phase \in {"acquiring", "admitted"}
          /\ Stays(r, q) \/ Adopts(r, q) \/ Renews(r, q)
    BY <1>2, MoveFacts
  <2>3. \A x \in Token : x # None /\ x.left \in Nat /\ x.left <= Life
    BY TimesAssumption DEF Token
  <2>4. account # None => account \in Token /\ Held(r).left <= account.left + MaxDuration
    BY <1>0, <2>1, <2>3 DEF TypeOK, NearInv, Near
  <2>5. account' = account \/ (account' \in Token /\ account'.left >= Life - MaxDuration)
    BY <2>2 DEF Stays, Adopts, Renews
  <2>6. account' = account \/ /\ account' \in Token
                              /\ \A t \in Token : t.left <= account'.left + MaxDuration
    BY <2>3, <2>5, TimesAssumption
  <2>7. /\ q.session.token # None
        /\ account' # None => q.session.token.left <= account'.left + MaxDuration
    BY <2>1, <2>2, <2>3, <2>4, TimesAssumption DEF Stays, Adopts, Renews
  <2>8. request[r].phase \notin {"free", "refused"} /\ q.phase \notin {"free", "refused"}
    BY <2>1, <2>2
  <2> QED BY ONLY SessionInv, r \in Requests, q \in RequestStates, <2>1, <2>2, <2>6, <2>7, <2>8,
                  RequestKeeps
<1>3. ASSUME NEW r \in Requests, Answered(r) PROVE SessionInv'
  <2>1. /\ request[r].phase = "admitted" /\ request' = [request EXCEPT ![r] = Free]
        /\ cookie' = CookieAfter(request[r]) /\ UNCHANGED <<account, idle, excused>>
        /\ \/ UNCHANGED screen
           \/ request[r].kind = "api" /\ screen' = "expired"
           \/ request[r].kind \in {"page", "auth"} /\ screen' \in {"booting", "app", "login", "failed"}
    BY <1>3 DEF Answered
  <2>2. request[r] # Free
    BY <2>1 DEF Free
  <2>3. screen' \in {"loading", "booting", "app", "expired", "failed", "login", "sso"}
    BY <1>0, <2>1 DEF TypeOK
  <2> QED BY ONLY SessionInv, r \in Requests, <2>1, <2>2, <2>3, AnswerKeeps
<1>4. ASSUME NEW r \in Requests, Refused(r) PROVE SessionInv'
  <2>1. /\ request[r].phase = "refused" /\ request' = [request EXCEPT ![r] = Free]
        /\ cookie' = CookieAfter(request[r]) /\ UNCHANGED <<account, idle, excused>>
        /\ \/ UNCHANGED screen
           \/ request[r].kind = "api" /\ screen' = "expired"
           \/ request[r].kind \in {"page", "auth"} /\ screen' \in {"sso", "failed"}
    BY <1>4 DEF Refused
  <2>2. request[r] # Free
    BY <2>1 DEF Free
  <2>3. screen' \in {"loading", "booting", "app", "expired", "failed", "login", "sso"}
    BY <1>0, <2>1 DEF TypeOK
  <2> QED BY ONLY SessionInv, r \in Requests, <2>1, <2>2, <2>3, AnswerKeeps
<1>5. CASE Restart
  <2>1. /\ account' = None /\ request' = [r \in Requests |-> Free] /\ excused' = TRUE
        /\ screen' = (IF screen \in {"loading", "booting"} THEN "failed" ELSE screen)
        /\ UNCHANGED <<cookie, idle>>
    BY <1>5 DEF Restart
  <2>2. Free \in RequestStates /\ Free.phase = "free" /\ Free.kind = "dropped" /\ Free.session.token = None
    BY TimesAssumption DEF Free, RequestStates, Phases, Kinds, NoSession, Session
  <2>3. TypeOK'
    BY <1>0, <2>1, <2>2 DEF TypeOK, RequestStates, Phases, Kinds
  <2>4. KindInv' /\ NearInv' /\ AccountInv'
    BY <2>1, <2>2 DEF KindInv, NearInv, Near, AccountInv, Held
  <2>5. StampInv' /\ IdleInv'
    BY <1>0, <2>1 DEF StampInv, Cookie, Elapsed, IdleInv
  <2> QED BY <2>3, <2>4, <2>5 DEF SessionInv
<1>6. ASSUME request' = Dropped, UNCHANGED <<account, idle, excused>>,
             screen' \in {"loading", "login"}, cookie' = cookie \/ cookie' = NoCookie
      PROVE  SessionInv'
  <2>1. /\ request' \in [Requests -> RequestStates]
        /\ \A r \in Requests : /\ request'[r].kind = "dropped" /\ Held(r)' = Held(r)
                               /\ request'[r].phase = request[r].phase
                               /\ request'[r].age = request[r].age
                               /\ request[r] = Free => request'[r] = Free
    BY <1>6, DroppedFacts
  <2>2. /\ NoCookie \in [session : Session, ttl : 0..SessionTimeout]
        /\ cookie' = NoCookie => Cookie' = None
    BY TimesAssumption DEF NoCookie, NoSession, Session, Cookie
  <2>3. TypeOK'
    BY <1>0, <1>6, <2>1, <2>2 DEF TypeOK, RequestStates, Phases, Kinds
  <2>4. KindInv'
    BY <1>0, <1>6, <2>1 DEF KindInv
  <2>5. NearInv' /\ AccountInv'
    <3>1. Cookie' = Cookie \/ Cookie' = None
      BY <1>6, <2>2 DEF Cookie
    <3> QED BY <1>0, <1>6, <2>1, <3>1 DEF NearInv, Near, AccountInv
  <2>6. StampInv' /\ IdleInv'
    BY <1>0, <1>6, <2>2 DEF StampInv, Cookie, Elapsed, IdleInv
  <2> QED BY <2>3, <2>4, <2>5, <2>6 DEF SessionInv
<1>7. ASSUME UNCHANGED <<account, request, idle, excused>>, screen \in {"sso", "login"},
             screen' \in {"sso", "login"}, cookie' = cookie \/ cookie' = NoCookie
      PROVE  SessionInv'
  <2>1. /\ NoCookie \in [session : Session, ttl : 0..SessionTimeout]
        /\ cookie' = NoCookie => Cookie' = None
    BY TimesAssumption DEF NoCookie, NoSession, Session, Cookie
  <2>2. TypeOK'
    BY <1>0, <1>7, <2>1 DEF TypeOK
  <2>3. KindInv'
    BY <1>0, <1>7 DEF KindInv, Held
  <2>4. NearInv' /\ AccountInv'
    <3>1. Cookie' = Cookie \/ Cookie' = None
      BY <1>7, <2>1 DEF Cookie
    <3> QED BY <1>0, <1>7, <3>1 DEF NearInv, Near, AccountInv, Held
  <2>5. StampInv' /\ IdleInv'
    BY <1>0, <1>7, <2>1 DEF StampInv, Cookie, Elapsed, IdleInv
  <2> QED BY <2>2, <2>3, <2>4, <2>5 DEF SessionInv
<1>8. CASE UNCHANGED vars
  BY <1>0, <1>8 DEF vars, SessionInv, TypeOK, KindInv, NearInv, Near, AccountInv, StampInv,
                    IdleInv, Held, Cookie, Elapsed
<1>9. CASE Reload \/ LogoutClicked
  BY <1>6, <1>9 DEF Reload, LogoutClicked
<1>10. CASE SsoClicked \/ CallbackFailed \/ PasswordRejected
  BY <1>7, <1>10 DEF SsoClicked, CallbackFailed, PasswordRejected
<1>11. CASE CallbackAccepted \/ PasswordAccepted
  <2>1. 0..RefreshInterval \subseteq 0..(RefreshInterval + 1) /\ RefreshInterval + 1 \in 0..(RefreshInterval + 1)
    BY TimesAssumption
  <2> QED BY <1>11, <2>1, LoginKeeps DEF CallbackAccepted, PasswordAccepted
<1>12. CASE Tick
  BY <1>12, TickKeeps
<1> QED BY <1>1, <1>2, <1>3, <1>4, <1>5, <1>8, <1>9, <1>10, <1>11, <1>12 DEF Next, Server, Arrives

-----------------------------------------------------------------------------
\* How long ago a cookie of this age was all right, and looked at
CookieKept(c, acc, elapsed, ago) ==
  CookieFits(c, acc, ago) /\ elapsed <= RefreshInterval + ago

\* A request under way that will write the cookie
Writes(r) ==
  /\ request[r].kind # "dropped"
  /\ \/ request[r].phase \in {"refreshing", "acquiring"}
     \/ request[r].phase = "admitted" /\ request[r].changed

RequestFits(r) ==
  /\ request[r].phase \in {"refreshing", "acquiring"} => RefreshFits(Held(r), account, request[r].age)
  /\ request[r].phase = "admitted" /\ request[r].changed /\ request[r].kind # "dropped"
       => WriteFits(Held(r), account, request[r].age)
  /\ request[r].kind \in {"auth", "api"} => request[r].phase # "refused"
RequestsInv == ~excused => \A r \in Requests : RequestFits(r)

\* The app has a cookie: the last request found it all right, or one that
\* came in time is about to write it
InUse == screen \in {"app", "expired", "booting"}
CookieInv ==
  ~excused /\ InUse =>
    /\ Cookie # None
    /\ \/ CookieKept(Cookie, account, Elapsed, idle)
       \/ \E r \in Requests :
            Writes(r) /\ CookieKept(Cookie, account, Elapsed, MaxIdle + request[r].age)

\* The page that is loaded has, or gets, or clears the cookie
PageWrites ==
  \E r \in Requests :
    request[r].kind = "page" /\ (Writes(r) \/ (request[r].phase = "refused" /\ request[r].changed))
PageFinds(r) ==
  IF request[r].phase = "refused" THEN Cookie = None
  ELSE Cookie # None /\ CookieKept(Cookie, account, Elapsed, idle)
PageInv ==
  ~excused /\ screen \in {"loading", "failed"} =>
    \/ PageWrites
    \/ /\ Cookie = None \/ CookieFits(Cookie, account, idle + MaxDuration + MaxIdle)
       /\ \A r \in Requests : request[r].kind = "page" => PageFinds(r)

UserInv == SessionInv /\ RequestsInv /\ CookieInv /\ PageInv

-----------------------------------------------------------------------------
LEMMA KeptLonger ==
  ASSUME NEW c \in Token, NEW acc \in Token, NEW e \in Int, NEW m \in Nat, NEW n \in Nat, m <= n,
         CookieKept(c, acc, e, m)
  PROVE  CookieKept(c, acc, e, n)
<1>1. CookieFits(c, acc, n)
  BY FitsLonger DEF CookieKept
<1> QED BY <1>1, TimesAssumption DEF CookieKept

\* The tokens and times of a state are what they should be.
LEMMA StateFacts ==
  ASSUME SessionInv
  PROVE  /\ Cookie \in Token \union {None} /\ account \in Token \union {None}
         /\ \A r \in Requests : Held(r) \in Token \union {None} /\ request[r].age \in 0..MaxDuration
         /\ Elapsed \in Int /\ idle \in Nat /\ {MaxIdle, MaxDuration} \subseteq Nat
         /\ ~excused => idle <= MaxIdle
         /\ ~excused /\ Cookie # None => account \in Token
         /\ \A r \in Requests : ~excused /\ request[r].phase \notin {"free", "refused"}
                                  => Held(r) \in Token /\ account \in Token
<1> USE DEF SessionInv
<1>1. /\ Cookie \in Token \union {None} /\ account \in Token \union {None}
      /\ \A r \in Requests : Held(r) \in Token \union {None} /\ request[r].age \in 0..MaxDuration
  BY DEF TypeOK, Cookie, Held, Session
<1>2. Elapsed \in Int /\ idle \in Nat /\ {MaxIdle, MaxDuration} \subseteq Nat
  BY TimesAssumption DEF TypeOK, Elapsed
<1> QED BY <1>1, <1>2 DEF IdleInv, AccountInv, KindInv

\* A cookie that is in use was all right a short while ago.
LEMMA InUseFacts ==
  ASSUME UserInv, ~excused, InUse
  PROVE  /\ Cookie \in Token /\ account \in Token
         /\ \E n \in Nat : n <= MaxIdle + MaxDuration /\ CookieKept(Cookie, account, Elapsed, n)
<1> USE DEF UserInv
<1>1. Cookie \in Token /\ account \in Token
  BY StateFacts DEF CookieInv
<1>2. CASE CookieKept(Cookie, account, Elapsed, idle)
  <2>1. idle \in Nat /\ idle <= MaxIdle + MaxDuration
    BY StateFacts
  <2> QED BY <1>1, <1>2, <2>1
<1>3. ASSUME NEW r \in Requests, CookieKept(Cookie, account, Elapsed, MaxIdle + request[r].age)
      PROVE  \E n \in Nat : n <= MaxIdle + MaxDuration /\ CookieKept(Cookie, account, Elapsed, n)
  <2>1. MaxIdle + request[r].age \in Nat /\ MaxIdle + request[r].age <= MaxIdle + MaxDuration
    BY StateFacts
  <2> QED BY <1>3, <2>1
<1> QED BY <1>1, <1>2, <1>3 DEF CookieInv

\* A request arrives (LoadPage, Boot, CallApi).
LEMMA ArriveFits ==
  ASSUME TimesFit, UserInv, ~excused', NEW r \in Requests, Arrives(r)
  PROVE  RequestsInv' /\ CookieInv' /\ PageInv'
<1> USE DEF UserInv
<1>1. PICK kind \in {"page", "auth", "api"} :
        /\ Arrive(r, kind)
        /\ kind = "page" <=> screen = "loading"
        /\ kind = "page" => Alone
        /\ kind # "page" => InUse
  BY DEF Arrives, LoadPage, Boot, CallApi, InUse
<1>2. TypeOK /\ KindInv /\ StampInv
  BY DEF SessionInv
<1>3. /\ request[r] = Free /\ idle' = 0 /\ UNCHANGED <<account, cookie, screen, excused>>
      /\ \A p \in Requests : p # r => request'[p] = request[p]
      /\ request'[r].kind = kind /\ request'[r].age = 0
      /\ request'[r].phase \in {"refused", "refreshing", "admitted"}
      /\ request'[r].phase = "refused" <=> Held(r)' = None
      /\ Held(r)' = IF Cookie # None /\ Cookie.left > 0 THEN Cookie ELSE None
      /\ request'[r].phase = "refused" /\ ~request'[r].changed => Cookie = None
      /\ request'[r].phase = "admitted" <=> Held(r)' # None /\ Cookie.left >= RefreshWindow
      /\ request'[r].phase = "admitted" /\ ~request'[r].changed
           => cookie.session.last <= RefreshInterval
  BY <1>1, <1>2, ArriveFacts DEF Kinds
<1>4. /\ ~excused /\ Cookie' = Cookie /\ Elapsed' = Elapsed
      /\ \A p \in Requests : p # r => Held(p)' = Held(p)
  BY <1>3 DEF Cookie, Elapsed, Held
<1>5. /\ Cookie # None => Cookie \in Token /\ account \in Token
      /\ Elapsed \in Int /\ idle \in Nat /\ {MaxIdle, MaxDuration} \subseteq Nat /\ idle <= MaxIdle
  BY <1>4, StateFacts
<1>6. Held(r)' # None =>
        /\ Held(r)' = Cookie /\ Cookie # None
        /\ RefreshFits(Cookie, account, 0)
        /\ request'[r].phase = "admitted" => Cookie.left >= RefreshWindow /\ WriteFits(Cookie, account, 0)
  <2> SUFFICES ASSUME Held(r)' # None
               PROVE  /\ Held(r)' = Cookie /\ Cookie # None
                      /\ RefreshFits(Cookie, account, 0)
                      /\ request'[r].phase = "admitted" =>
                           Cookie.left >= RefreshWindow /\ WriteFits(Cookie, account, 0)
    OBVIOUS
  <2>1. Held(r)' = Cookie /\ Cookie # None /\ Cookie \in Token /\ account \in Token
    BY <1>3, <1>5
  <2>2. \E n \in Nat : n <= 2 * MaxIdle + MaxDuration /\ CookieFits(Cookie, account, n)
    <3>1. CASE kind = "page"
      <4>1. CookieFits(Cookie, account, idle + MaxDuration + MaxIdle)
        BY <1>1, <1>4, <2>1, <3>1 DEF PageInv, PageWrites, Alone
      <4>2. idle + MaxDuration + MaxIdle \in Nat /\ idle + MaxDuration + MaxIdle <= 2 * MaxIdle + MaxDuration
        BY <1>5
      <4> QED BY <4>1, <4>2
    <3>2. CASE kind # "page"
      <4>1. PICK n \in Nat : n <= MaxIdle + MaxDuration /\ CookieKept(Cookie, account, Elapsed, n)
        BY <1>1, <1>4, <3>2, InUseFacts
      <4> QED BY <1>5, <4>1 DEF CookieKept
    <3> QED BY <3>1, <3>2
  <2>3. RefreshFits(Cookie, account, 0)
    BY <2>1, <2>2, FoundFits
  <2>4. request'[r].phase = "admitted" => Cookie.left >= RefreshWindow
    BY <1>3
  <2>5. Cookie.left \in Nat
    BY <2>1, TimesAssumption DEF Token
  <2> QED BY <2>1, <2>3, <2>4, <2>5, TimesAssumption DEF WriteFits
<1>7. kind # "page" => Held(r)' # None
  <2> SUFFICES ASSUME kind # "page" PROVE Held(r)' # None
    OBVIOUS
  <2>1. PICK n \in Nat : n <= MaxIdle + MaxDuration /\ CookieKept(Cookie, account, Elapsed, n)
    BY <1>1, <1>4, InUseFacts
  <2>2. Cookie \in Token /\ account \in Token
    BY <1>1, <1>4, InUseFacts
  <2>3. Cookie.left > 0
    BY <2>1, <2>2, FoundFits DEF CookieKept
  <2>4. Cookie # None
    BY <2>2, TimesAssumption DEF Token
  <2> QED BY <1>3, <2>3, <2>4
<1>8. RequestFits(r)'
  BY <1>3, <1>6, <1>7 DEF RequestFits
<1>9. RequestsInv'
  BY <1>3, <1>4, <1>8 DEF RequestsInv, RequestFits
\* A request that is admitted with the session as it is leaves a good cookie.
<1>10. request'[r].phase # "refused" /\ ~Writes(r)' => Cookie # None /\ CookieKept(Cookie, account, Elapsed, 0)
  <2> SUFFICES ASSUME request'[r].phase # "refused", ~Writes(r)'
               PROVE  Cookie # None /\ CookieKept(Cookie, account, Elapsed, 0)
    OBVIOUS
  <2>1. request'[r].phase = "admitted" /\ ~request'[r].changed
    BY <1>1, <1>3 DEF Writes
  <2>2. /\ Cookie # None /\ Cookie \in Token /\ account \in Token /\ Cookie.left >= RefreshWindow
        /\ cookie.session.last <= RefreshInterval
    BY <1>3, <1>5, <1>6, <2>1
  <2>3. cookie.session.last \in Nat /\ Cookie.left \in Nat
    BY <1>2, <2>2, TimesAssumption DEF TypeOK, Session, Token
  <2>4. Elapsed <= cookie.session.last
    BY <1>2, <2>2, <2>3, TimesAssumption DEF StampInv
  <2> QED BY <1>5, <2>2, <2>3, <2>4, TimesAssumption DEF CookieKept, CookieFits
<1>11. CookieInv'
  <2> SUFFICES ASSUME InUse
               PROVE  /\ Cookie # None
                      /\ \/ CookieKept(Cookie, account, Elapsed, 0)
                         \/ \E p \in Requests :
                              Writes(p)' /\ CookieKept(Cookie, account, Elapsed, MaxIdle + request'[p].age)
    BY <1>3, <1>4 DEF CookieInv, InUse
  <2>1. kind # "page" /\ request'[r].phase # "refused"
    BY <1>1, <1>3, <1>7 DEF InUse
  <2>2. Cookie # None /\ Cookie \in Token /\ account \in Token
    BY <1>4, InUseFacts, <1>5 DEF CookieInv
  <2>3. CASE ~Writes(r)'
    BY <1>10, <2>1, <2>3
  <2>4. CASE Writes(r)' /\ CookieKept(Cookie, account, Elapsed, idle)
    <3>1. CookieKept(Cookie, account, Elapsed, MaxIdle + 0)
      BY <1>5, <2>2, <2>4, KeptLonger
    <3> QED BY <1>3, <2>2, <2>4, <3>1
  <2>5. ASSUME NEW p \in Requests, Writes(p),
               CookieKept(Cookie, account, Elapsed, MaxIdle + request[p].age)
        PROVE  Writes(p)' /\ CookieKept(Cookie, account, Elapsed, MaxIdle + request'[p].age)
    <3>1. p # r
      BY <1>3, <2>5 DEF Writes, Free
    <3> QED BY <1>3, <2>5, <3>1 DEF Writes
  <2> QED BY <1>4, <2>2, <2>3, <2>4, <2>5 DEF CookieInv
<1>12. PageInv'
  <2> SUFFICES ASSUME screen \in {"loading", "failed"}
               PROVE  \/ PageWrites'
                      \/ /\ Cookie = None \/ CookieFits(Cookie, account, 0 + MaxDuration + MaxIdle)
                         /\ \A p \in Requests : request'[p].kind = "page" => PageFinds(p)'
    BY <1>3, <1>4 DEF PageInv
  <2>1. kind = "page" /\ \A p \in Requests : request'[p].kind = "page" => p = r
    BY <1>1, <1>3 DEF InUse, Alone
  <2>2. CASE Writes(r)' \/ (request'[r].phase = "refused" /\ request'[r].changed)
    BY <1>3, <2>1, <2>2 DEF PageWrites
  <2>3. CASE request'[r].phase = "refused" /\ ~request'[r].changed
    <3>1. Cookie = None /\ PageFinds(r)'
      BY <1>3, <1>4, <2>3 DEF PageFinds
    <3> QED BY <2>1, <3>1
  <2>4. CASE request'[r].phase # "refused" /\ ~Writes(r)'
    <3>1. Cookie # None /\ CookieKept(Cookie, account, Elapsed, 0)
      BY <1>10, <2>4
    <3>2. PageFinds(r)'
      BY <1>3, <1>4, <2>4, <3>1 DEF PageFinds
    <3>3. CookieFits(Cookie, account, 0 + MaxDuration + MaxIdle)
      <4>1. CookieFits(Cookie, account, 0) /\ Cookie \in Token /\ account \in Token
        BY <1>5, <3>1 DEF CookieKept
      <4>2. 0 + MaxDuration + MaxIdle \in Nat /\ 0 <= 0 + MaxDuration + MaxIdle
        BY <1>5
      <4> QED BY <4>1, <4>2, FitsLonger
    <3> QED BY <2>1, <3>2, <3>3
  <2> QED BY <2>2, <2>3, <2>4
<1> QED BY <1>9, <1>11, <1>12

\* A minute passes.
LEMMA TickFits ==
  ASSUME TimesFit, UserInv, ~excused', Tick
  PROVE  RequestsInv' /\ CookieInv' /\ PageInv'
<1> USE DEF UserInv
<1>1. /\ \A r \in Requests :
           /\ request'[r].phase = request[r].phase /\ request'[r].kind = request[r].kind
           /\ request'[r].changed = request[r].changed
           /\ Held(r)' = Aged(Held(r))
           /\ request[r].phase # "free" => /\ request[r].age < MaxDuration
                                           /\ request'[r].age = request[r].age + 1
      /\ account' = Aged(account)
      /\ cookie.ttl > 1 => Cookie' = Aged(Cookie) /\ Elapsed' = Elapsed + 1
      /\ Cookie' # None => Cookie' = Aged(Cookie)
      /\ idle <= MaxIdle => idle' = idle + 1
      /\ SessionInv'
  BY TickKeeps
<1>2. ~excused /\ screen' = screen
  BY DEF Tick
<1>3. /\ idle' = idle + 1 /\ idle' <= MaxIdle
      /\ Elapsed \in Int /\ idle \in Nat /\ {MaxIdle, MaxDuration} \subseteq Nat
      /\ \A r \in Requests : request[r].age \in 0..MaxDuration
      /\ Cookie \in Token \union {None} /\ (Cookie # None => account \in Token)
      /\ \A r \in Requests : request[r].phase \notin {"free", "refused"}
                               => Held(r) \in Token /\ account \in Token
  <2>1. idle <= MaxIdle
    BY <1>2, StateFacts
  <2>2. idle' <= MaxIdle
    BY <1>1 DEF SessionInv, IdleInv
  <2> QED BY <1>1, <1>2, <2>1, <2>2, StateFacts
<1>4. RequestsInv'
  <2> SUFFICES ASSUME NEW r \in Requests PROVE RequestFits(r)'
    BY DEF RequestsInv
  <2>1. RequestFits(r)
    BY <1>2 DEF RequestsInv
  <2>2. ASSUME request[r].phase \notin {"free", "refused"}
        PROVE  /\ RefreshFits(Held(r), account, request[r].age)
                    => RefreshFits(Held(r)', account', request'[r].age)
               /\ WriteFits(Held(r), account, request[r].age)
                    => WriteFits(Held(r)', account', request'[r].age)
    <3>1. /\ Held(r) \in Token /\ account \in Token /\ request[r].age \in Nat
          /\ Held(r)' = Aged(Held(r)) /\ account' = Aged(account)
          /\ request'[r].age = request[r].age + 1
      BY <1>1, <1>3, <2>2
    <3> QED BY <3>1, FitsAged
  <2>3. /\ request'[r].phase = request[r].phase /\ request'[r].kind = request[r].kind
        /\ request'[r].changed = request[r].changed
    BY <1>1
  <2> QED BY <2>1, <2>2, <2>3 DEF RequestFits
\* The cookie is not given up by the browser as long as it is in use.
<1>5. ASSUME Cookie # None, NEW n \in Nat, n < MaxIdle + MaxDuration,
             CookieKept(Cookie, account, Elapsed, n)
      PROVE  Cookie' # None /\ CookieKept(Cookie', account', Elapsed', n + 1)
  <2>1. Cookie \in Token /\ account \in Token
    BY <1>3, <1>5
  <2>2. cookie.ttl > 1
    <3>1. cookie.ttl \in Nat /\ SessionTimeout \in Nat /\ RefreshInterval \in Nat
      BY TimesAssumption DEF SessionInv, TypeOK
    <3>2. SessionTimeout - cookie.ttl <= RefreshInterval + n
      BY <1>5 DEF CookieKept, Elapsed
    <3>3. SessionTimeout > RefreshInterval + MaxIdle + MaxDuration
      BY DEF TimesFit
    <3> QED BY <1>3, <1>5, <3>1, <3>2, <3>3
  <2>3. Cookie' = Aged(Cookie) /\ Elapsed' = Elapsed + 1 /\ account' = Aged(account) /\ Cookie' # None
    BY <1>1, <2>1, <2>2, AgedFacts
  <2>4. CookieFits(Cookie', account', n + 1)
    BY <1>5, <2>1, <2>3, FitsAged DEF CookieKept
  <2> QED BY <1>3, <1>5, <2>3, <2>4, TimesAssumption DEF CookieKept
<1>6. CookieInv'
  <2> SUFFICES ASSUME InUse
               PROVE  /\ Cookie' # None
                      /\ \/ CookieKept(Cookie', account', Elapsed', idle')
                         \/ \E r \in Requests :
                              /\ Writes(r)'
                              /\ CookieKept(Cookie', account', Elapsed', MaxIdle + request'[r].age)
    BY <1>2 DEF CookieInv, InUse
  <2>1. Cookie # None
    BY <1>2 DEF CookieInv
  <2>2. CASE CookieKept(Cookie, account, Elapsed, idle)
    <3>1. idle < MaxIdle + MaxDuration
      BY <1>3
    <3> QED BY <1>3, <1>5, <2>1, <2>2, <3>1
  <2>3. ASSUME NEW r \in Requests, Writes(r),
               CookieKept(Cookie, account, Elapsed, MaxIdle + request[r].age)
        PROVE  /\ Writes(r)' /\ Cookie' # None
               /\ CookieKept(Cookie', account', Elapsed', MaxIdle + request'[r].age)
    <3>1. /\ request[r].phase # "free" /\ request[r].age \in Nat
          /\ request[r].age < MaxDuration /\ request'[r].age = request[r].age + 1
      BY <1>1, <1>3, <2>3 DEF Writes
    <3>2. /\ MaxIdle + request[r].age \in Nat /\ MaxIdle + request[r].age < MaxIdle + MaxDuration
          /\ MaxIdle + request'[r].age = (MaxIdle + request[r].age) + 1
      BY <1>3, <3>1
    <3>3. Cookie' # None /\ CookieKept(Cookie', account', Elapsed', (MaxIdle + request[r].age) + 1)
      BY <1>5, <2>1, <2>3, <3>2
    <3>4. Writes(r)'
      BY <1>1, <2>3 DEF Writes
    <3> QED BY <3>2, <3>3, <3>4
  <2> QED BY <1>2, <2>2, <2>3 DEF CookieInv
<1>7. PageInv'
  <2> SUFFICES ASSUME screen \in {"loading", "failed"}
               PROVE  \/ PageWrites'
                      \/ /\ \/ Cookie' = None
                            \/ CookieFits(Cookie', account', idle' + MaxDuration + MaxIdle)
                         /\ \A r \in Requests : request'[r].kind = "page" => PageFinds(r)'
    BY <1>2 DEF PageInv
  <2>1. CASE PageWrites
    BY <1>1, <2>1 DEF PageWrites, Writes
  <2>2. CASE /\ Cookie = None \/ CookieFits(Cookie, account, idle + MaxDuration + MaxIdle)
             /\ \A r \in Requests : request[r].kind = "page" => PageFinds(r)
    <3>1. Cookie = None => Cookie' = None
      BY <1>1 DEF Aged
    <3>2. Cookie' = None \/ CookieFits(Cookie', account', idle' + MaxDuration + MaxIdle)
      <4> SUFFICES ASSUME Cookie' # None
                   PROVE  CookieFits(Cookie', account', idle' + MaxDuration + MaxIdle)
        OBVIOUS
      <4>1. Cookie \in Token /\ account \in Token /\ Cookie' = Aged(Cookie) /\ account' = Aged(account)
        BY <1>1, <1>3, <3>1
      <4>2. /\ idle + MaxDuration + MaxIdle \in Nat
            /\ idle' + MaxDuration + MaxIdle = (idle + MaxDuration + MaxIdle) + 1
        BY <1>3
      <4>3. CookieFits(Cookie, account, idle + MaxDuration + MaxIdle)
        BY <2>2, <3>1
      <4> QED BY <4>1, <4>2, <4>3, FitsAged
    <3>3. ASSUME NEW r \in Requests, request'[r].kind = "page" PROVE PageFinds(r)'
      <4>1. PageFinds(r) /\ request'[r].phase = request[r].phase
        BY <1>1, <2>2, <3>3
      <4>2. CASE request[r].phase = "refused"
        BY <3>1, <4>1, <4>2 DEF PageFinds
      <4>3. CASE request[r].phase # "refused"
        <5>1. Cookie # None /\ CookieKept(Cookie, account, Elapsed, idle)
          BY <4>1, <4>3 DEF PageFinds
        <5>2. idle < MaxIdle + MaxDuration
          BY <1>3
        <5>3. Cookie' # None /\ CookieKept(Cookie', account', Elapsed', idle + 1)
          BY <1>3, <1>5, <5>1, <5>2
        <5> QED BY <1>3, <4>1, <4>3, <5>3 DEF PageFinds
      <4> QED BY <4>2, <4>3
    <3> QED BY <3>2, <3>3
  <2> QED BY <1>2, <2>1, <2>2 DEF PageInv
<1> QED BY <1>4, <1>6, <1>7

\* A request refreshes its token (CacheRead, Acquired, NotAcquired).
LEMMA MoveFits ==
  ASSUME TimesFit, UserInv, ~excused', NEW r \in Requests,
         CacheRead(r) \/ Acquired(r) \/ NotAcquired(r)
  PROVE  /\ RequestsInv' /\ CookieInv' /\ PageInv'
         /\ request'[r].phase = "admitted" => Held(r)'.left > 0
<1> USE DEF UserInv
<1>1. /\ request[r].phase \in {"refreshing", "acquiring"} /\ Held(r) \in Token
      /\ UNCHANGED <<cookie, screen, idle>> /\ ~excused
  BY MoveFacts
<1>2. PICK q \in RequestStates :
        /\ request' = [request EXCEPT ![r] = q]
        /\ q.kind = request[r].kind /\ q.age = request[r].age
        /\ q.phase \in {"acquiring", "admitted"}
        /\ Stays(r, q) \/ Adopts(r, q) \/ Renews(r, q)
  BY MoveFacts
<1>3. /\ request'[r] = q /\ Held(r)' = q.session.token
      /\ \A p \in Requests : p # r => request'[p] = request[p] /\ Held(p)' = Held(p)
      /\ Cookie' = Cookie /\ Elapsed' = Elapsed
  BY <1>1, <1>2 DEF SessionInv, TypeOK, Held, Cookie, Elapsed
<1>4. /\ account \in Token /\ Elapsed \in Int /\ idle \in Nat /\ Cookie \in Token \union {None}
      /\ \A p \in Requests : request[p].age \in 0..MaxDuration
      /\ \A p \in Requests : request[p].phase \notin {"free", "refused"} => Held(p) \in Token
      /\ {MaxIdle, MaxDuration} \subseteq Nat
  BY <1>1, StateFacts
<1>5. account' = account \/ (account' \in Token /\ account'.left >= Life - MaxDuration)
  BY <1>2 DEF Stays, Adopts, Renews
<1>6. ASSUME NEW c \in Token, NEW n \in Nat
      PROVE  /\ CookieFits(c, account, n) => CookieFits(c, account', n)
             /\ RefreshFits(c, account, n) => RefreshFits(c, account', n)
             /\ WriteFits(c, account, n) => WriteFits(c, account', n)
  BY <1>4, <1>5, FitsRenewed
<1>7. /\ RequestFits(r)'
      /\ q.phase = "admitted" => q.changed /\ q.session.token.left > 0
  <2>1. RefreshFits(Held(r), account, request[r].age) /\ request[r].age \in 0..MaxDuration
    BY <1>1, <1>4 DEF RequestsInv, RequestFits
  <2>2. CASE Stays(r, q)
    <3>1. q.phase = "acquiring" /\ Held(r)' = Held(r) /\ account' = account
      BY <1>3, <2>2 DEF Stays
    <3> QED BY <1>2, <1>3, <2>1, <3>1 DEF RequestFits
  <2>3. CASE Adopts(r, q)
    <3>1. /\ q.phase = "admitted" /\ q.changed /\ Held(r)' = account /\ account' = account
          /\ Held(r) # account
      BY <1>3, <2>3 DEF Adopts
    <3>2. Held(r).left <= account.left + MaxDuration
      BY <1>1, <1>4, TimesAssumption DEF SessionInv, NearInv, Near, Token
    <3>3. WriteFits(account, account, request[r].age) /\ account.left > 0
      BY <1>1, <1>4, <2>1, <3>1, <3>2, AdoptedFits
    <3> QED BY <1>2, <1>3, <3>1, <3>3 DEF RequestFits
  <2>4. CASE Renews(r, q)
    <3>1. /\ q.phase = "admitted" /\ q.changed /\ Held(r)' = account'
          /\ account' \in Token /\ account'.left >= Life - MaxDuration
      BY <1>3, <2>4 DEF Renews
    <3>2. account'.left \in Nat /\ request[r].age \in Nat
      BY <2>1, <3>1, TimesAssumption DEF Token
    <3>3. account'.left > 0 /\ WriteFits(account', account', request[r].age)
      BY <3>1, <3>2, TimesAssumption DEF TimesFit, WriteFits
    <3> QED BY <1>2, <1>3, <3>1, <3>3 DEF RequestFits
  <2> QED BY <1>2, <2>2, <2>3, <2>4
<1>8. RequestsInv'
  <2> SUFFICES ASSUME NEW p \in Requests, p # r PROVE RequestFits(p)'
    BY <1>7 DEF RequestsInv
  <2>1. RequestFits(p) /\ request'[p] = request[p] /\ Held(p)' = Held(p)
    BY <1>1, <1>3 DEF RequestsInv
  <2>2. request[p].phase \notin {"free", "refused"} => Held(p) \in Token /\ request[p].age \in Nat
    BY <1>4
  <2> QED BY <1>6, <2>1, <2>2 DEF RequestFits
<1>9. \A p \in Requests : Writes(p) => Writes(p)' /\ request'[p].age = request[p].age
  BY <1>1, <1>2, <1>3, <1>7 DEF Writes
<1>10. ASSUME NEW n \in Nat, Cookie # None, CookieKept(Cookie, account, Elapsed, n)
       PROVE  CookieKept(Cookie, account', Elapsed, n)
  BY <1>4, <1>6, <1>10 DEF CookieKept
<1>11. CookieInv'
  <2>1. \A p \in Requests : MaxIdle + request[p].age \in Nat
    BY <1>4
  <2>2. ~excused
    BY <1>1
  <2>3. InUse' = InUse
    BY <1>1 DEF InUse
  <2>4. ASSUME NEW p \in Requests, Cookie # None, Writes(p),
               CookieKept(Cookie, account, Elapsed, MaxIdle + request[p].age)
        PROVE  Writes(p)' /\ CookieKept(Cookie, account', Elapsed, MaxIdle + request'[p].age)
    BY <1>9, <1>10, <2>1, <2>4
  <2> QED BY <1>1, <1>3, <1>4, <1>10, <2>2, <2>3, <2>4 DEF CookieInv
<1>12. PageInv'
  <2> SUFFICES ASSUME screen \in {"loading", "failed"}
               PROVE  \/ PageWrites'
                      \/ /\ Cookie = None \/ CookieFits(Cookie, account', idle + MaxDuration + MaxIdle)
                         /\ \A p \in Requests : request'[p].kind = "page" => PageFinds(p)'
    BY <1>1, <1>3 DEF PageInv
  <2>1. \A p \in Requests : request'[p].kind = request[p].kind
    BY <1>2, <1>3
  <2>2. CASE PageWrites
    <3>1. PICK p \in Requests :
            /\ request[p].kind = "page"
            /\ Writes(p) \/ (request[p].phase = "refused" /\ request[p].changed)
      BY <2>2 DEF PageWrites
    <3>2. Writes(p)' \/ (request'[p].phase = "refused" /\ request'[p].changed)
      BY <1>1, <1>3, <1>9, <3>1
    <3> QED BY <2>1, <3>1, <3>2 DEF PageWrites
  <2>3. CASE /\ Cookie = None \/ CookieFits(Cookie, account, idle + MaxDuration + MaxIdle)
             /\ \A p \in Requests : request[p].kind = "page" => PageFinds(p)
    <3>1. Cookie = None \/ CookieFits(Cookie, account', idle + MaxDuration + MaxIdle)
      BY <1>4, <1>6, <2>3
    <3>2. ASSUME NEW p \in Requests, request'[p].kind = "page" PROVE PageFinds(p)'
      <4>1. PageFinds(p)
        BY <2>1, <2>3, <3>2
      <4>2. request'[p].phase = "refused" <=> request[p].phase = "refused"
        BY <1>1, <1>2, <1>3
      <4> QED BY <1>1, <1>3, <1>4, <1>10, <4>1, <4>2 DEF PageFinds
    <3> QED BY <3>1, <3>2
  <2> QED BY <1>1, <2>2, <2>3 DEF PageInv
<1> QED BY <1>3, <1>7, <1>8, <1>11, <1>12

\* The cookie is written with a token that was good, or cleared by a page.
LEMMA WriterFacts ==
  ASSUME UserInv, ~excused, NEW r \in Requests, request[r].phase \in {"admitted", "refused"},
         cookie' = CookieAfter(request[r]), UNCHANGED <<account, idle>>
  PROVE  \/ ~Writes(r) /\ Cookie' = Cookie /\ Elapsed' = Elapsed
            /\ ~(request[r].kind = "page" /\ request[r].changed)
         \/ /\ request[r].phase = "admitted" /\ Cookie' # None
            /\ \A n \in Nat : CookieKept(Cookie', account, Elapsed', n)
         \/ request[r].kind = "page" /\ request[r].phase = "refused" /\ Cookie' = None
<1> USE DEF UserInv
<1>1. TypeOK /\ KindInv
  BY DEF SessionInv
<1>2. CASE cookie' = cookie /\ ~(request[r].changed /\ request[r].kind # "dropped")
  BY <1>2 DEF Writes, Cookie, Elapsed
<1>3. CASE /\ request[r].changed /\ request[r].kind # "dropped" /\ Held(r) # None
           /\ Cookie' = Held(r) /\ Elapsed' = 0
  <2>1. request[r].phase = "admitted"
    BY <1>1, <1>3 DEF KindInv
  <2>2. /\ WriteFits(Held(r), account, request[r].age)
        /\ Held(r) \in Token /\ account \in Token /\ request[r].age \in 0..MaxDuration
    BY <1>3, <2>1, StateFacts DEF RequestsInv, RequestFits
  <2>3. CookieFits(Held(r), account, 0)
    BY <2>2, WrittenFits
  <2>4. \A n \in Nat : CookieKept(Held(r), account, 0, n)
    BY <2>2, <2>3, FitsLonger, TimesAssumption DEF CookieKept
  <2> QED BY <1>3, <2>1, <2>4
<1>4. CASE /\ request[r].changed /\ request[r].kind # "dropped" /\ Held(r) = None
           /\ Cookie' = None
  <2>1. request[r].phase = "refused"
    BY <1>1, <1>4 DEF KindInv
  <2>2. request[r].kind = "page"
    BY <1>1, <1>4, <2>1 DEF RequestsInv, RequestFits, TypeOK
  <2> QED BY <1>4, <2>1, <2>2
<1> QED BY <1>1, <1>2, <1>3, <1>4, AnswerFacts

\* A request is answered (Answered, Refused).
LEMMA AnswerFits ==
  ASSUME TimesFit, UserInv, ~excused', NEW r \in Requests, Answered(r) \/ Refused(r)
  PROVE  RequestsInv' /\ CookieInv' /\ PageInv'
<1> USE DEF UserInv
<1>1. /\ request[r].phase \in {"admitted", "refused"}
      /\ request' = [request EXCEPT ![r] = Free]
      /\ cookie' = CookieAfter(request[r])
      /\ UNCHANGED <<account, idle, excused>> /\ ~excused
  BY DEF Answered, Refused
<1>2. TypeOK /\ KindInv
  BY DEF SessionInv
\* A request of the app, or of its start, is not refused.
<1>3. /\ RequestFits(r)
      /\ \/ request[r].kind \in {"api", "dropped"} /\ screen' = screen
         \/ request[r].kind = "api" /\ screen' = "expired"
         \/ request[r].kind = "auth" /\ screen' \in {"app", "login", "failed"}
         \/ request[r].kind = "page" /\ request[r].phase = "admitted" /\ screen' = "booting"
         \/ request[r].kind = "page" /\ request[r].phase = "refused" /\ screen' \in {"sso", "failed"}
  <2>1. RequestFits(r)
    BY <1>1 DEF RequestsInv
  <2>2. Refused(r) => request[r].phase = "refused" /\ request[r].kind \notin {"auth", "api"}
    BY <2>1 DEF Refused, RequestFits
  <2> QED BY <1>1, <2>1, <2>2 DEF Answered, Refused
<1>4. /\ Free.phase = "free" /\ Free.kind = "dropped" /\ request'[r] = Free
      /\ \A p \in Requests : p # r => request'[p] = request[p] /\ Held(p)' = Held(p)
      /\ \A p \in Requests : p # r => (Writes(p)' <=> Writes(p))
  BY <1>1, <1>2 DEF Free, TypeOK, Held, Writes
<1>5. \/ ~Writes(r) /\ Cookie' = Cookie /\ Elapsed' = Elapsed
         /\ ~(request[r].kind = "page" /\ request[r].changed)
      \/ /\ request[r].phase = "admitted" /\ Cookie' # None
         /\ \A n \in Nat : CookieKept(Cookie', account, Elapsed', n)
      \/ request[r].kind = "page" /\ request[r].phase = "refused" /\ Cookie' = None
  BY <1>1, WriterFacts
<1>6. RequestsInv'
  BY <1>1, <1>4 DEF RequestsInv, RequestFits
<1>7. idle \in Nat /\ {MaxIdle, MaxDuration} \subseteq Nat
  BY StateFacts
\* No other request is one of a page that is loaded.
<1>8. request[r].kind \in {"page", "auth"} => \A p \in Requests : p # r => request[p].kind # "page"
  BY <1>2 DEF KindInv
\* A page that is answered found a cookie, unless it writes one.
<1>9. ASSUME request[r].kind = "page", Cookie' = Cookie, ~Writes(r), ~request[r].changed
      PROVE  PageFinds(r)
  <2>1. screen = "loading"
    BY <1>2, <1>9 DEF KindInv
  <2>2. ~PageWrites
    BY <1>8, <1>9 DEF PageWrites
  <2> QED BY <1>1, <1>9, <2>1, <2>2 DEF PageInv
<1>10. CookieInv'
  <2> SUFFICES ASSUME InUse'
               PROVE  /\ Cookie' # None
                      /\ \/ CookieKept(Cookie', account, Elapsed', idle)
                         \/ \E p \in Requests :
                              /\ Writes(p)'
                              /\ CookieKept(Cookie', account, Elapsed', MaxIdle + request'[p].age)
    BY <1>1 DEF CookieInv
  <2>1. CASE Cookie' # None /\ \A n \in Nat : CookieKept(Cookie', account, Elapsed', n)
    BY <1>7, <2>1
  <2>2. CASE /\ ~Writes(r) /\ Cookie' = Cookie /\ Elapsed' = Elapsed
             /\ ~(request[r].kind = "page" /\ request[r].changed)
    <3>1. CASE request[r].kind = "page"
      <4>1. PageFinds(r) /\ request[r].phase = "admitted"
        BY <1>3, <1>9, <2>2, <3>1 DEF InUse
      <4> QED BY <2>2, <4>1 DEF PageFinds
    <3>2. CASE request[r].kind # "page"
      <4>1. InUse
        BY <1>2, <1>3, <3>2 DEF InUse, KindInv
      <4>2. /\ Cookie # None
            /\ \/ CookieKept(Cookie, account, Elapsed, idle)
               \/ \E p \in Requests :
                    Writes(p) /\ CookieKept(Cookie, account, Elapsed, MaxIdle + request[p].age)
        BY <1>1, <4>1 DEF CookieInv
      <4>3. ASSUME NEW p \in Requests, Writes(p),
                   CookieKept(Cookie, account, Elapsed, MaxIdle + request[p].age)
            PROVE  Writes(p)' /\ CookieKept(Cookie', account, Elapsed', MaxIdle + request'[p].age)
        BY <1>4, <2>2, <4>3
      <4> QED BY <2>2, <4>2, <4>3
    <3> QED BY <3>1, <3>2
  <2>3. ~(request[r].kind = "page" /\ request[r].phase = "refused")
    BY <1>3 DEF InUse
  <2> QED BY <1>5, <2>1, <2>2, <2>3
<1>11. PageInv'
  <2> SUFFICES ASSUME screen' \in {"loading", "failed"}
               PROVE  \/ PageWrites'
                      \/ /\ \/ Cookie' = None
                            \/ CookieFits(Cookie', account, idle + MaxDuration + MaxIdle)
                         /\ \A p \in Requests : request'[p].kind = "page" => PageFinds(p)'
    BY <1>1 DEF PageInv
  <2>1. idle + MaxDuration + MaxIdle \in Nat
    BY <1>7
  <2>2. CASE request[r].kind \in {"page", "auth"}
    <3>1. \A p \in Requests : request'[p].kind # "page"
      BY <1>4, <1>8, <2>2
    <3>2. CASE Cookie' # None /\ \A n \in Nat : CookieKept(Cookie', account, Elapsed', n)
      BY <2>1, <3>1, <3>2 DEF CookieKept
    <3>3. CASE /\ ~Writes(r) /\ Cookie' = Cookie /\ Elapsed' = Elapsed
               /\ ~(request[r].kind = "page" /\ request[r].changed)
      <4>1. CASE request[r].kind = "page"
        <5>1. PageFinds(r) /\ request[r].phase = "refused"
          BY <1>3, <1>9, <3>3, <4>1
        <5> QED BY <3>1, <3>3, <5>1 DEF PageFinds
      <4>2. CASE request[r].kind = "auth"
        <5>1. InUse
          BY <1>2, <4>2 DEF KindInv, InUse
        <5>2. Cookie \in Token /\ account \in Token
          BY <1>1, <5>1, InUseFacts
        <5>3. PICK n \in Nat : n <= MaxIdle + MaxDuration /\ CookieKept(Cookie, account, Elapsed, n)
          BY <1>1, <5>1, InUseFacts
        <5>4. n <= idle + MaxDuration + MaxIdle
          BY <1>7, <5>3
        <5>5. CookieFits(Cookie, account, idle + MaxDuration + MaxIdle)
          BY <2>1, <5>2, <5>3, <5>4, FitsLonger DEF CookieKept
        <5> QED BY <3>1, <3>3, <5>5
      <4> QED BY <2>2, <4>1, <4>2
    <3>4. CASE Cookie' = None
      BY <3>1, <3>4
    <3> QED BY <1>5, <3>2, <3>3, <3>4
  <2>3. CASE request[r].kind \notin {"page", "auth"}
    <3>1. request[r].kind = "dropped" /\ screen' = screen
      BY <1>2, <1>3, <2>3 DEF KindInv
    <3>2. cookie' = cookie
      BY <1>1, <3>1 DEF CookieAfter
    <3>3. Cookie' = Cookie /\ Elapsed' = Elapsed
      BY <3>2 DEF Cookie, Elapsed
    <3>4. CASE PageWrites
      <4>1. PICK p \in Requests :
              /\ request[p].kind = "page"
              /\ Writes(p) \/ (request[p].phase = "refused" /\ request[p].changed)
        BY <3>4 DEF PageWrites
      <4>2. p # r
        BY <3>1, <4>1
      <4> QED BY <1>4, <4>1, <4>2 DEF PageWrites
    <3>5. CASE /\ Cookie = None \/ CookieFits(Cookie, account, idle + MaxDuration + MaxIdle)
               /\ \A p \in Requests : request[p].kind = "page" => PageFinds(p)
      <4>1. ASSUME NEW p \in Requests, request'[p].kind = "page" PROVE PageFinds(p)'
        <5>1. p # r /\ PageFinds(p) /\ request'[p] = request[p]
          BY <1>4, <3>5, <4>1
        <5> QED BY <1>1, <3>3, <5>1 DEF PageFinds
      <4> QED BY <3>3, <3>5, <4>1
    <3> QED BY <1>1, <3>1, <3>4, <3>5 DEF PageInv
  <2> QED BY <2>2, <2>3
<1> QED BY <1>6, <1>10, <1>11

\* A page is left, for another or for the login.
LEMMA LeaveFits ==
  ASSUME TimesFit, UserInv, ~excused', Reload \/ LogoutClicked
  PROVE  RequestsInv' /\ CookieInv' /\ PageInv'
<1> USE DEF UserInv
<1>1. /\ request' = Dropped /\ UNCHANGED <<account, idle, excused>> /\ ~excused
      /\ screen' \in {"loading", "login"}
  BY DEF Reload, LogoutClicked
<1>2. \A r \in Requests : /\ request'[r].kind = "dropped" /\ Held(r)' = Held(r)
                          /\ request'[r].phase = request[r].phase
                          /\ request'[r].age = request[r].age
  BY <1>1, DroppedFacts
<1>3. RequestsInv'
  BY <1>1, <1>2 DEF RequestsInv, RequestFits
<1>4. CookieInv'
  BY <1>1 DEF CookieInv, InUse
<1>5. PageInv'
  <2> SUFFICES ASSUME screen' \in {"loading", "failed"}
               PROVE  Cookie' = None \/ CookieFits(Cookie', account, idle + MaxDuration + MaxIdle)
    BY <1>1, <1>2 DEF PageInv
  <2>1. Reload /\ Cookie' = Cookie
    BY DEF Reload, LogoutClicked, Cookie
  <2>2. CASE screen = "failed"
    <3>1. ~PageWrites
      BY <2>2 DEF PageWrites, SessionInv, KindInv
    <3> QED BY <1>1, <2>1, <2>2, <3>1 DEF PageInv
  <2>3. CASE screen = "expired"
    <3>1. Cookie \in Token /\ account \in Token
      BY <1>1, <2>3, InUseFacts DEF InUse
    <3>2. PICK n \in Nat : n <= MaxIdle + MaxDuration /\ CookieKept(Cookie, account, Elapsed, n)
      BY <1>1, <2>3, InUseFacts DEF InUse
    <3>3. idle + MaxDuration + MaxIdle \in Nat /\ n <= idle + MaxDuration + MaxIdle
      BY <3>2, StateFacts
    <3> QED BY <2>1, <3>1, <3>2, <3>3, FitsLonger DEF CookieKept
  <2> QED BY <2>1, <2>2, <2>3 DEF Reload
<1> QED BY <1>3, <1>4, <1>5

\* Somebody logs in (LoggedIn): the account has a new token, and so has the cookie.
LEMMA LoginFits ==
  ASSUME TimesFit, UserInv, screen \in {"sso", "login"}, NEW last \in 0..(RefreshInterval + 1),
         LoggedIn(last)
  PROVE  RequestsInv' /\ CookieInv' /\ PageInv'
<1> USE DEF UserInv
<1>1. /\ account' \in Token /\ account'.left = Life /\ Cookie' = account'
      /\ screen' = "loading" /\ \A r \in Requests : request[r].kind = "dropped"
      /\ request' = request
  BY LoginKeeps
<1>2. idle' = 0
  BY DEF LoggedIn
<1>3. \A r \in Requests : request[r].age \in Nat
  BY StateFacts
<1>4. /\ \A r \in Requests : RefreshFits(Held(r)', account', request'[r].age)
      /\ CookieFits(Cookie', account', 0 + MaxDuration + MaxIdle)
  BY <1>1, <1>3, TimesAssumption DEF RefreshFits, CookieFits, TimesFit
<1>5. RequestsInv'
  BY <1>1, <1>4 DEF RequestsInv, RequestFits
<1>6. CookieInv'
  BY <1>1 DEF CookieInv, InUse
<1>7. PageInv'
  BY <1>1, <1>2, <1>4 DEF PageInv
<1> QED BY <1>5, <1>6, <1>7

LEMMA UserStep ==
  TimesFit /\ UserInv /\ [Next]_vars => UserInv'
<1> SUFFICES ASSUME TimesFit, UserInv, [Next]_vars PROVE UserInv'
  OBVIOUS
<1>1. SessionInv'
  BY SessionStep DEF UserInv
<1>2. CASE excused'
  BY <1>1, <1>2 DEF UserInv, RequestsInv, CookieInv, PageInv
<1>3. CASE ~excused'
  <2> SUFFICES RequestsInv' /\ CookieInv' /\ PageInv'
    BY <1>1 DEF UserInv
  <2>1. ASSUME NEW r \in Requests, Arrives(r) PROVE RequestsInv' /\ CookieInv' /\ PageInv'
    BY <1>3, <2>1, ArriveFits
  <2>2. ASSUME NEW r \in Requests, CacheRead(r) \/ Acquired(r) \/ NotAcquired(r)
        PROVE  RequestsInv' /\ CookieInv' /\ PageInv'
    BY <1>3, <2>2, MoveFits
  <2>3. ASSUME NEW r \in Requests, Answered(r) \/ Refused(r)
        PROVE  RequestsInv' /\ CookieInv' /\ PageInv'
    BY <1>3, <2>3, AnswerFits
  <2>4. CASE Restart
    BY <1>3, <2>4 DEF Restart
  <2>5. CASE Reload \/ LogoutClicked
    BY <1>3, <2>5, LeaveFits
  <2>6. CASE SsoClicked \/ CallbackFailed \/ PasswordRejected
    <3>1. /\ UNCHANGED <<account, request, idle, excused>> /\ screen' \in {"sso", "login"}
      BY <2>6 DEF SsoClicked, CallbackFailed, PasswordRejected
    <3> QED BY <3>1 DEF UserInv, RequestsInv, RequestFits, CookieInv, PageInv, InUse, Held
  <2>7. CASE CallbackAccepted \/ PasswordAccepted
    <3>1. /\ 0..RefreshInterval \subseteq 0..(RefreshInterval + 1)
          /\ RefreshInterval + 1 \in 0..(RefreshInterval + 1)
      BY TimesAssumption
    <3> QED BY <2>7, <3>1, LoginFits DEF CallbackAccepted, PasswordAccepted
  <2>8. CASE Tick
    BY <1>3, <2>8, TickFits
  <2>9. CASE UNCHANGED vars
    BY <2>9 DEF vars, UserInv, RequestsInv, RequestFits, CookieInv, PageInv, PageWrites, PageFinds,
                Writes, InUse, Held, Cookie, Elapsed
  <2> QED
    BY <2>1, <2>2, <2>3, <2>4, <2>5, <2>6, <2>7, <2>8, <2>9 DEF Next, Server, Arrives
<1> QED BY <1>2, <1>3

LEMMA UserInit ==
  TimesFit /\ Init => UserInv
<1> SUFFICES ASSUME TimesFit, Init PROVE UserInv
  OBVIOUS
<1>1. /\ Free \in RequestStates /\ Free.phase = "free" /\ Free.kind = "dropped"
      /\ Free.session.token = None
  BY TimesAssumption DEF Free, RequestStates, Phases, Kinds, NoSession, Session
<1>2. NoCookie \in [session : Session, ttl : 0..SessionTimeout] /\ NoCookie.session.token = None
  BY TimesAssumption DEF NoCookie, NoSession, Session
<1>3. TypeOK
  <2>1. 0 \in 0..(MaxIdle + 1)
    BY TimesAssumption
  <2> QED BY <1>1, <1>2, <2>1 DEF Init, TypeOK, RequestStates, Phases, Kinds
<1>4. KindInv /\ NearInv /\ AccountInv
  BY <1>1, <1>2 DEF Init, KindInv, NearInv, Near, AccountInv, Held, Cookie
<1>5. StampInv /\ IdleInv
  BY <1>2, TimesAssumption DEF Init, StampInv, IdleInv, Cookie
<1>6. RequestsInv
  BY <1>1 DEF Init, RequestsInv, RequestFits
<1>7. CookieInv /\ PageInv
  BY <1>1, <1>2 DEF Init, CookieInv, InUse, PageInv, Cookie
<1> QED BY <1>3, <1>4, <1>5, <1>6, <1>7 DEF UserInv, SessionInv

\* The state of the session is well-formed, and what is found in the cookie, in the
\* requests under way and on the page fits together (UserInv above), for any number
\* of requests and any times that fit.
THEOREM UserInvariant ==
  TimesFit => (Spec => []UserInv)
<1> SUFFICES ASSUME TimesFit PROVE Spec => []UserInv
  OBVIOUS
<1>1. Init => UserInv
  BY UserInit
<1>2. UserInv /\ [Next]_vars => UserInv'
  BY UserStep
<1> QED BY <1>1, <1>2, PTL DEF Spec

\* A user who keeps working is never thrown out: no call of the app is refused
\* (SessionGuard, refreshUserAccessToken, SessionRefreshMiddleware), in whatever
\* order the concurrent answers write the cookie.
THEOREM ActiveUserStaysHolds ==
  TimesFit => (Spec => []ActiveUserStays)
<1> SUFFICES ASSUME TimesFit PROVE Spec => []ActiveUserStays
  OBVIOUS
<1>1. UserInv => ActiveUserStays
  BY DEF UserInv, RequestsInv, RequestFits, ActiveUserStays
<1> QED BY <1>1, UserInvariant, PTL

\* No request reaches its handler, and with it the engine, with an id token that has
\* expired: neither one that is found in the cookie, nor one that was adopted from
\* the cache or acquired.
THEOREM ForwardedTokenHolds ==
  TimesFit => (Spec => ForwardedTokenIsValid)
<1> SUFFICES ASSUME TimesFit PROVE Spec => ForwardedTokenIsValid
  OBVIOUS
<1> DEFINE Forwarded ==
      \A r \in Requests :
        request[r].phase # "admitted" /\ request'[r].phase = "admitted"
          => request'[r].session.token.left > 0 \/ excused'
<1>1. ASSUME UserInv, [Next]_vars, NEW r \in Requests, ~excused',
             request[r].phase # "admitted", request'[r].phase = "admitted"
      PROVE  Held(r)'.left > 0
  <2>1. ASSUME NEW p \in Requests, Arrives(p) PROVE Held(r)'.left > 0
    <3>1. PICK kind \in {"page", "auth", "api"} : Arrive(p, kind)
      BY <2>1 DEF Arrives, LoadPage, Boot, CallApi
    <3>2. /\ \A s \in Requests : s # p => request'[s] = request[s]
          /\ request'[p].phase = "refused" <=> Held(p)' = None
          /\ Held(p)' = IF Cookie # None /\ Cookie.left > 0 THEN Cookie ELSE None
      BY <1>1, <3>1, ArriveFacts DEF Kinds, UserInv, SessionInv
    <3> QED BY <1>1, <3>2
  <2>2. ASSUME NEW p \in Requests, CacheRead(p) \/ Acquired(p) \/ NotAcquired(p)
        PROVE  Held(r)'.left > 0
    <3>1. request'[p].phase = "admitted" => Held(p)'.left > 0
      BY <1>1, <2>2, MoveFits
    <3>2. \A s \in Requests : s # p => request'[s] = request[s]
      BY <1>1, <2>2 DEF CacheRead, Acquired, NotAcquired, UserInv, SessionInv, TypeOK
    <3> QED BY <1>1, <3>1, <3>2
  <2>3. ASSUME NEW p \in Requests, Answered(p) \/ Refused(p) PROVE FALSE
    <3>1. request' = [request EXCEPT ![p] = Free]
      BY <2>3 DEF Answered, Refused
    <3> QED BY <1>1, <3>1 DEF UserInv, SessionInv, TypeOK, Free
  <2>4. CASE Restart
    BY <1>1, <2>4 DEF Restart
  <2>5. CASE Reload \/ LogoutClicked
    BY <1>1, <2>5, DroppedFacts DEF Reload, LogoutClicked, UserInv
  <2>6. CASE \/ SsoClicked \/ CallbackFailed \/ PasswordRejected
             \/ CallbackAccepted \/ PasswordAccepted \/ UNCHANGED vars
    BY <1>1, <2>6 DEF SsoClicked, CallbackFailed, PasswordRejected, CallbackAccepted,
                      PasswordAccepted, LoggedIn, vars
  <2>7. CASE Tick
    BY <1>1, <2>7, TickKeeps DEF UserInv
  <2> QED
    BY <1>1, <2>1, <2>2, <2>3, <2>4, <2>5, <2>6, <2>7 DEF Next, Server, Arrives
<1>2. UserInv /\ [Next]_vars => [Forwarded]_vars
  BY <1>1 DEF Held
<1> HIDE DEF Forwarded
<1>3. Spec => [][Forwarded]_vars
  BY <1>2, UserInvariant, PTL DEF Spec
<1> QED BY <1>3 DEF Forwarded, ForwardedTokenIsValid
=============================================================================
