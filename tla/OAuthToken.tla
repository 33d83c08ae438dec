----------------------------- MODULE OAuthToken -----------------------------
(***************************************************************************)
(* The token the server sends with its requests to the engine: looked up   *)
(* in a cache with an end of its own, renewed by every request that finds  *)
(* it near its end, and set by whichever renewal answers last.  A renewal  *)
(* is given up after five seconds, so a request sees at most one tick of   *)
(* the clock, which is five minutes, while it waits.                       *)
(***************************************************************************)
EXTENDS Parts

CONSTANTS Lifetimes,   \* of tokens, in ticks; Absent is a token that tells none
          RenewBefore, \* secondsAllowedBeforeRenewing
          TokenTTL,    \* stdTTL of the cache
          MaxTime,     \* bound of the clock
          MaxWaiting,  \* bound of the requests that wait for a renewal
          MaxFailures  \* bound of failures and clearings

ASSUME OAuthTokenAssumption ==
  /\ RenewBefore \in Nat \ {0} /\ TokenTTL \in Nat /\ MaxTime \in Nat
  /\ MaxWaiting \in Nat /\ MaxFailures \in Nat
  /\ \A life \in Lifetimes \ {Absent} : life \in Nat /\ life > 1

Tokens == [from : Nat, expires : Nat \union {Absent}]
ASSUME AbsentAssumption == Absent \notin Nat \union Tokens \union [token : Tokens, at : Nat]

VARIABLES
  now,         \* the clock
  tokenCache,  \* [token, at], or Absent
  waiting,     \* the requests that renew
  lastRenewal, \* when a token was last cached, Absent at first and when cleared
  handedOut    \* what the last request was given, Absent at first

tokenVars == <<now, tokenCache, waiting, lastRenewal, handedOut>>

NoToken == Absent

\* Mutant: a token is renewed when it has expired
HasExpired(token) == token = NoToken \/ token.expires = Absent \/ token.expires < now
NearlyExpired(token) ==
  token = NoToken \/ token.expires = Absent \/ token.expires < now + RenewBefore
isTokenNearlyExpired(token) == NearlyExpired(token)

\* The entry, while it lasts
Lookup == IF tokenCache # Absent /\ now <= tokenCache.at + TokenTTL THEN tokenCache.token
          ELSE NoToken

HandOut(token, failed, renewed) ==
  handedOut' = [token |-> token, at |-> now, failed |-> failed, renewed |-> renewed]
-----------------------------------------------------------------------------
TokenInit ==
  now = 0 /\ tokenCache = Absent /\ waiting = <<>> /\ lastRenewal = Absent /\ handedOut = Absent

\* getOAuthToken, up to the await
GetOAuthToken ==
  /\ IF isTokenNearlyExpired(Lookup)
     THEN /\ Len(waiting) < MaxWaiting
          /\ waiting' = Append(waiting, [found |-> Lookup, issued |-> NoToken, ticked |-> FALSE,
                                  renewed |-> lastRenewal # Absent /\ now <= lastRenewal + TokenTTL])
          /\ UNCHANGED handedOut
     ELSE HandOut(Lookup, FALSE, TRUE) /\ UNCHANGED waiting
  /\ UNCHANGED <<now, tokenCache, lastRenewal, events>>

\* The token service issues a token
TokenIssued(r, life) ==
  /\ waiting[r].issued = NoToken
  /\ waiting' = [waiting EXCEPT ![r].issued =
                   [from |-> now, expires |-> IF life = Absent THEN Absent ELSE now + life]]
  /\ UNCHANGED <<now, tokenCache, lastRenewal, handedOut, events>>

\* It arrives: whatever is cached by now is replaced
TokenArrives(r) ==
  /\ waiting[r].issued # NoToken
  /\ tokenCache' = [token |-> waiting[r].issued, at |-> now] /\ lastRenewal' = now
  /\ HandOut(waiting[r].issued, FALSE, TRUE)
  /\ waiting' = RemoveAt(waiting, r)
  /\ UNCHANGED <<now, events>>

\* The renewal fails or is given up: what was found before it is used,
\* whatever another request has cached meanwhile
RenewalFails(r) ==
  /\ Event(MaxFailures)
  /\ HandOut(waiting[r].found, TRUE, waiting[r].renewed)
  /\ waiting' = RemoveAt(waiting, r)
  /\ UNCHANGED <<now, tokenCache, lastRenewal>>

TokenTick ==
  /\ now < MaxTime /\ \A r \in DOMAIN waiting : ~waiting[r].ticked
  /\ now' = now + 1
  /\ waiting' = [r \in DOMAIN waiting |-> [waiting[r] EXCEPT !.ticked = TRUE]]
  /\ UNCHANGED <<tokenCache, lastRenewal, handedOut, events>>

\* clearAll
ClearTokens ==
  /\ Event(MaxFailures) /\ tokenCache # Absent
  /\ tokenCache' = Absent /\ lastRenewal' = Absent
  /\ UNCHANGED <<now, waiting, handedOut>>

TokenNext ==
  \/ GetOAuthToken \/ TokenTick \/ ClearTokens
  \/ \E r \in DOMAIN waiting :
       \/ TokenArrives(r) \/ RenewalFails(r)
       \/ \E life \in Lifetimes : TokenIssued(r, life)
-----------------------------------------------------------------------------
\* A request that has not seen its own renewal fail goes out with a token
\* that has not expired.  No request goes out with a token issued longer ago
\* than the cache keeps one, but for the two waits around it.  Without a
\* token it goes out only when its renewal failed and none had succeeded for
\* as long as the cache keeps one.
\* Why: every request near the end renews, an older token may be cached over
\* a newer one, and a token has an end of its own besides its entry's.
OAuthTokenIsFit ==
  handedOut # Absent =>
    /\ ~handedOut.failed => /\ handedOut.token # NoToken
                            /\ \/ handedOut.token.expires = Absent
                               \/ handedOut.token.expires > handedOut.at
    /\ handedOut.token # NoToken => handedOut.at - handedOut.token.from <= TokenTTL + 2
    /\ handedOut.token = NoToken => handedOut.failed /\ ~handedOut.renewed
=============================================================================
