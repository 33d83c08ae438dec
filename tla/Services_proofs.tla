---------------------------- MODULE Services_proofs ----------------------------
(***************************************************************************)
(* What is proved of the services, for every value of the constants.  A    *)
(* behaviour is about one of the machines and leaves the others alone, so  *)
(* an invariant of a machine is one of the whole specification.            *)
(***************************************************************************)
EXTENDS MCServices, SequenceTheorems, FiniteSetTheorems,
        WellFoundedInduction, TLAPS

serviceVars == <<part, events, bulkVars, dialogVars, permissionVars, historyVars, tokenVars>>

\* A step is one of a machine, or leaves it alone.
LEMMA OneMachineMoves ==
  [ServicesNext]_serviceVars => /\ [DialogNext]_dialogVars /\ [TokenNext]_tokenVars
                                /\ [BulkNext]_bulkVars /\ [PermissionsNext]_permissionVars
                                /\ [HistoryNext]_historyVars
BY DEF ServicesNext, serviceVars

\* The machines start as they do alone.
LEMMA AllMachinesStart ==
  ServicesInit => DialogInit /\ TokenInit /\ BulkInit /\ PermissionsInit /\ HistoryInit
BY DEF ServicesInit

-----------------------------------------------------------------------------
(***************************************************************************)
(* For any dates and any number of inputs: what a confirmed dialog sends   *)
(* is what it shows.                                                       *)
(*                                                                         *)
(* The request is made of values that three listeners wrote.  SelectorInv  *)
(* ties the selected date to the shown text as long as there is a          *)
(* selector, also while it closes, so that an option chosen again in the   *)
(* meantime finds it right; RadioInv ties the selector to the option; and  *)
(* ValidInv says what the two flags that keep the button disabled are      *)
(* worth, whichever listener was last.                                     *)
(***************************************************************************)

OptionsOf(f) ==
  CASE f = "jobDefinition" -> {"executeImmediately", "delayExecution"}
    [] f = "retry" -> {"keepDueDate", "setDueDate"}
    [] f = "dueDate" -> {"creationDate", "currentDate", "specificDate"}
    [] f = "priority" -> {"setJobPriority", "clearJobPriority"}
    [] OTHER -> {""}

RadioInv ==
  /\ form \in {"jobDefinition", "retry", "dueDate", "priority", "firstPriority", "terminate"}
  /\ radio \in OptionsOf(form)
  /\ radio \in ControlsDynamicContent <=> content = "open"
  /\ content \in {"closed", "open", "closing"}

SelectorInv ==
  /\ SelectorShown => /\ dateText \in Texts
                      /\ selectedDate # Undefined
                      /\ unbound \/ selectedDate \in {dateText.quick, dateText.settled}
  /\ settling => SelectorShown

ValidInv ==
  /\ selectedDate = Absent => ~validDate
  /\ numberInput \in {"ok", "wrong", "empty"}
  /\ errorMessage \in BOOLEAN
  /\ ~errorMessage => ~NumberWrong(numberInput)

DialogInv == RadioInv /\ SelectorInv /\ ValidInv /\ ConfirmsWhatIsShown

-----------------------------------------------------------------------------
\* The options of each form (Options).
LEMMA OptionsFacts ==
  /\ Forms = {"jobDefinition", "retry", "dueDate", "priority", "firstPriority", "terminate"}
  /\ \A f \in Forms :
       /\ ToSet(Options[f]) \subseteq OptionsOf(f)
       /\ Options[f] # <<>> => Head(Options[f]) \in OptionsOf(f)
       /\ Options[f] = <<>> => OptionsOf(f) = {""}
       /\ f \in DateForms => /\ Options[f] # <<>>
                             /\ Head(Options[f]) \notin ControlsDynamicContent
<1>1. Forms = {"jobDefinition", "retry", "dueDate", "priority", "firstPriority", "terminate"}
  BY DEF Forms, Options
<1>2. /\ Options["jobDefinition"] = <<"executeImmediately", "delayExecution">>
      /\ Options["retry"] = <<"keepDueDate", "setDueDate">>
      /\ Options["dueDate"] = <<"creationDate", "currentDate", "specificDate">>
      /\ Options["priority"] = <<"setJobPriority", "clearJobPriority">>
      /\ Options["firstPriority"] = <<>> /\ Options["terminate"] = <<>>
  BY DEF Options
<1>3. /\ OptionsOf("jobDefinition") = {"executeImmediately", "delayExecution"}
      /\ OptionsOf("retry") = {"keepDueDate", "setDueDate"}
      /\ OptionsOf("dueDate") = {"creationDate", "currentDate", "specificDate"}
      /\ OptionsOf("priority") = {"setJobPriority", "clearJobPriority"}
      /\ OptionsOf("firstPriority") = {""} /\ OptionsOf("terminate") = {""}
  BY DEF OptionsOf
<1>4. ASSUME NEW f \in Forms
      PROVE  /\ ToSet(Options[f]) \subseteq OptionsOf(f)
             /\ Options[f] # <<>> => Head(Options[f]) \in OptionsOf(f)
             /\ Options[f] = <<>> => OptionsOf(f) = {""}
  <2>a. ASSUME NEW a, NEW b
        PROVE  ToSet(<<a, b>>) = {a, b} /\ Head(<<a, b>>) = a /\ <<a, b>> # <<>>
    BY DEF ToSet
  <2>b. ASSUME NEW a, NEW b, NEW c
        PROVE  ToSet(<<a, b, c>>) = {a, b, c} /\ Head(<<a, b, c>>) = a /\ <<a, b, c>> # <<>>
    BY DEF ToSet
  <2>1. CASE f \in {"jobDefinition", "retry", "priority"}
    <3> DEFINE Fits(a, b) == Options[f] = <<a, b>> /\ OptionsOf(f) = {a, b}
    <3>1. \/ Fits("executeImmediately", "delayExecution")
          \/ Fits("keepDueDate", "setDueDate")
          \/ Fits("setJobPriority", "clearJobPriority")
      BY <2>1, <1>2, <1>3
    <3>2. PICK a, b : Fits(a, b)
      <4> HIDE DEF Fits
      <4> QED BY <3>1, Zenon
    <3> QED BY <3>2, <2>a
  <2>2. CASE f = "dueDate"
    <3>1. /\ Options[f] = <<"creationDate", "currentDate", "specificDate">>
          /\ OptionsOf(f) = {"creationDate", "currentDate", "specificDate"}
      BY <2>2, <1>2, <1>3
    <3> QED BY <3>1, <2>b
  <2>3. CASE f \in {"firstPriority", "terminate"}
    <3>1. Options[f] = <<>> /\ OptionsOf(f) = {""}
      BY <2>3, <1>2, <1>3
    <3>2. ToSet(<<>>) = {}
      BY DEF ToSet
    <3> QED BY <3>1, <3>2
  <2> QED BY <1>1, <2>1, <2>2, <2>3
<1>5. \A f \in DateForms : /\ Options[f] # <<>>
                           /\ Head(Options[f]) \notin ControlsDynamicContent
  BY <1>2 DEF DateForms, ControlsDynamicContent
<1> QED BY <1>1, <1>4, <1>5

\* A dialog that opens, at first and after the last one.
LEMMA OpeningInv ==
  ASSUME NEW f \in Forms,
         form' = f, radio' = (IF Options[f] = <<>> THEN "" ELSE Head(Options[f])),
         content' = (IF radio' \in ControlsDynamicContent THEN "open" ELSE "closed"),
         settling' = FALSE, selectedDate' = Undefined, validDate' = TRUE,
         numberInput' = "ok", errorMessage' = FALSE, result' = Absent
  PROVE  DialogInv'
<1>1. radio' \in OptionsOf(f)
  BY OptionsFacts
<1>2. f \in DateForms => content' = "closed"
  BY OptionsFacts
<1>3. RadioInv'
  BY <1>1, OptionsFacts DEF RadioInv
<1>4. SelectorInv'
  BY <1>2 DEF SelectorInv, SelectorShown
<1>5. ValidInv'
  BY ConfirmDialogAssumption DEF ValidInv, NumberWrong
<1> QED BY <1>3, <1>4, <1>5 DEF DialogInv, ConfirmsWhatIsShown

\* The request of a dialog with its date selector right is the one it shows.
LEMMA RequestFacts ==
  ASSUME RadioInv, SelectorInv, ValidInv
  PROVE  /\ radio \in ControlsDynamicContent /\ form \in DateForms =>
              /\ Request.what \in {"at", "setDue"}
              /\ unbound \/ Request.date \in {dateText.quick, dateText.settled}
         /\ radio \notin ControlsDynamicContent \/ form \notin DateForms =>
              Request.date = Undefined
         /\ Request.date \in {selectedDate, Undefined}
         /\ Request.what = "number" => form \in NumberForms /\ numberInput # "empty"
<1> USE DEF RadioInv, OptionsOf, ControlsDynamicContent, DateForms, NumberForms
<1>1. /\ radio \in ControlsDynamicContent /\ form \in DateForms => SelectorShown
  BY DEF SelectorShown
<1>2. CASE form = "jobDefinition"
  BY <1>1, <1>2 DEF Request, SelectorInv
<1>3. CASE form = "retry"
  BY <1>1, <1>3 DEF Request, SelectorInv
<1>4. CASE form = "dueDate"
  BY <1>1, <1>4 DEF Request, SelectorInv
<1>5. CASE form \in {"priority", "firstPriority"}
  BY <1>1, <1>5 DEF Request, SelectorInv
<1>6. CASE form = "terminate"
  BY <1>1, <1>6 DEF Request, SelectorInv
<1> QED BY <1>2, <1>3, <1>4, <1>5, <1>6

LEMMA DialogInvariant == Spec => []DialogInv
<1>1. DialogInit => DialogInv
  <2> SUFFICES ASSUME DialogInit PROVE DialogInv
    OBVIOUS
  <2>1. /\ form \in Forms
        /\ radio = (IF Options[form] = <<>> THEN "" ELSE Head(Options[form]))
        /\ content = (IF radio \in ControlsDynamicContent THEN "open" ELSE "closed")
        /\ settling = FALSE /\ selectedDate = Undefined /\ validDate = TRUE
        /\ numberInput = "ok" /\ errorMessage = FALSE /\ result = Absent
    BY DEF DialogInit
  <2>2. RadioInv
    BY <2>1, OptionsFacts DEF RadioInv
  <2>3. SelectorInv
    BY <2>1, OptionsFacts DEF SelectorInv, SelectorShown
  <2>4. ValidInv
    BY <2>1, ConfirmDialogAssumption DEF ValidInv, NumberWrong
  <2> QED BY <2>1, <2>2, <2>3, <2>4 DEF DialogInv, ConfirmsWhatIsShown
<1>2. DialogInv /\ [DialogNext]_dialogVars => DialogInv'
  <2> SUFFICES ASSUME DialogInv, [DialogNext]_dialogVars PROVE DialogInv'
    OBVIOUS
  <2> USE DEF DialogInv
  <2>a. ASSUME Open, result' = result PROVE ConfirmsWhatIsShown'
    BY <2>a DEF Open, ConfirmsWhatIsShown
  <2>1. ASSUME NEW option, OnRadioChange(option) PROVE DialogInv'
    <3>1. /\ Open /\ option \in ToSet(Options[form]) /\ radio' = option
          /\ content' = IF option \in ControlsDynamicContent THEN "open"
                        ELSE IF content = "open" THEN "closing" ELSE content
          /\ UNCHANGED <<form, validDate, numberInput, errorMessage, reason, result>>
      BY <2>1 DEF OnRadioChange
    <3>2. RadioInv'
      BY <3>1, OptionsFacts DEF RadioInv
    <3>3. CASE content = "closed" /\ content' = "open" /\ form \in DateForms
      <4>1. /\ dateText' = TextOf(Now) /\ settling' = FALSE /\ selectedDate' = Now
            /\ unbound' = FALSE
        BY <2>1, <3>3 DEF OnRadioChange, SelectorInit, CreateSelector
      <4>2. TextOf(Now) \in Texts /\ TextOf(Now).quick = Now
        BY ConfirmDialogAssumption DEF TextOf, Texts
      <4>3. SelectorInv' /\ ValidInv'
        BY <3>1, <4>1, <4>2, ConfirmDialogAssumption DEF SelectorInv, ValidInv, NumberWrong
      <4> QED BY <2>a, <3>1, <3>2, <4>3
    <3>4. CASE ~(content = "closed" /\ content' = "open" /\ form \in DateForms)
      <4>1. UNCHANGED <<dateText, boundDate, settling, selectedDate, unbound>>
        BY <2>1, <3>4 DEF OnRadioChange, NoSelector
      <4>2. SelectorShown' => SelectorShown
        BY <3>1, <3>4, <3>2 DEF SelectorShown, RadioInv
      <4>3. SelectorShown => SelectorShown'
        BY <3>1 DEF SelectorShown, RadioInv
      <4>4. SelectorInv' /\ ValidInv'
        BY <3>1, <4>1, <4>2, <4>3 DEF SelectorInv, ValidInv, NumberWrong
      <4> QED BY <2>a, <3>1, <3>2, <4>4
    <3> QED BY <3>3, <3>4
  <2>2. CASE AnimationEnds
    <3>1. RadioInv' /\ SelectorInv' /\ ValidInv'
      BY <2>2 DEF AnimationEnds, RadioInv, SelectorInv, SelectorShown, ValidInv, NumberWrong
    <3> QED BY <2>2, <2>a, <3>1 DEF AnimationEnds
  <2>3. CASE DebounceOver
    <3>1. dateText \in Texts
      BY <2>3 DEF DebounceOver, SelectorInv
    <3>2. dateText.settled # Undefined
      BY <3>1, ConfirmDialogAssumption DEF Texts
    <3>3. RadioInv' /\ SelectorInv' /\ ValidInv'
      BY <2>3, <3>2
      DEF DebounceOver, RadioInv, SelectorInv, SelectorShown, ValidInv, NumberWrong
    <3> QED BY <2>3, <2>a, <3>3 DEF DebounceOver
  <2>4. ASSUME NEW text \in Texts, TypeDate(text) PROVE DialogInv'
    <3>1. text.quick \in Dates \union {Absent}
      BY DEF Texts
    <3>2. RadioInv' /\ SelectorInv' /\ ValidInv'
      BY <2>4, <3>1, ConfirmDialogAssumption
      DEF TypeDate, RadioInv, SelectorInv, SelectorShown, ValidInv, NumberWrong
    <3> QED BY <2>4, <2>a, <3>2 DEF TypeDate
  <2>5. ASSUME NEW d \in Dates, PickDate(d) PROVE DialogInv'
    <3>1. TextOf(d) \in Texts /\ TextOf(d).quick = d
      BY DEF TextOf, Texts
    <3>2. RadioInv' /\ SelectorInv' /\ ValidInv'
      BY <2>5, <3>1, ConfirmDialogAssumption
      DEF PickDate, RadioInv, SelectorInv, SelectorShown, ValidInv, NumberWrong
    <3> QED BY <2>5, <2>a, <3>2 DEF PickDate
  <2>6. ASSUME NEW n \in {"ok", "wrong", "empty"}, TypeNumber(n) PROVE DialogInv'
    <3>1. RadioInv' /\ SelectorInv'
      BY <2>6 DEF TypeNumber, RadioInv, SelectorInv, SelectorShown
    <3>2. ValidInv'
      BY <2>6 DEF TypeNumber, ValidInv, NumberWrong
    <3> QED BY <2>6, <2>a, <3>1, <3>2 DEF TypeNumber
  <2>7. CASE TypeReason
    <3>1. RadioInv' /\ SelectorInv' /\ ValidInv'
      BY <2>7 DEF TypeReason, RadioInv, SelectorInv, SelectorShown, ValidInv, NumberWrong
    <3> QED BY <2>7, <2>a, <3>1 DEF TypeReason
  <2>8. ASSUME NEW by \in {"button", "enter"}, Send(by), by = "button" => ButtonEnabled
        PROVE  DialogInv'
    <3>1. /\ result' = [by |-> by, request |-> Request]
          /\ UNCHANGED <<form, radio, content, dateText, boundDate, settling, selectedDate,
                         validDate, unbound, numberInput, errorMessage, reason>>
      BY <2>8 DEF Send
    <3>2. RadioInv' /\ SelectorInv' /\ ValidInv'
      BY <3>1 DEF RadioInv, SelectorInv, SelectorShown, ValidInv, NumberWrong
    <3>3. result'.by = by /\ result'.request = Request
      BY <3>1
    <3>4. by = "button" => /\ Request.date # Absent
                           /\ form = "terminate" => reason
                           /\ form = "retry" => numberInput = "ok"
                           /\ Request.what = "number" => numberInput = "ok"
      BY <2>8, RequestFacts, ConfirmDialogAssumption DEF ButtonEnabled, ValidInv, NumberWrong
    <3>5. ConfirmsWhatIsShown'
      BY <3>1, <3>3, <3>4, RequestFacts DEF ConfirmsWhatIsShown
    <3> QED BY <3>2, <3>5
  <2>9. CASE ClickConfirm
    BY <2>9, <2>8 DEF ClickConfirm
  <2>10. CASE PressEnter
    BY <2>10, <2>8 DEF PressEnter
  <2>11. CASE NextDialog
    BY <2>11, OpeningInv DEF NextDialog
  <2>12. CASE UNCHANGED dialogVars
    BY <2>12 DEF dialogVars, RadioInv, SelectorInv, SelectorShown, ValidInv,
                 NumberWrong, ConfirmsWhatIsShown
  <2> QED
    BY <2>1, <2>2, <2>3, <2>4, <2>5, <2>6, <2>7, <2>9, <2>10, <2>11, <2>12 DEF DialogNext
<1> QED BY <1>1, <1>2, AllMachinesStart, OneMachineMoves, PTL DEF Spec, serviceVars

\* A confirmed dialog sends what it shows.
THEOREM ConfirmsShown == Spec => []ConfirmsWhatIsShown
BY DialogInvariant, PTL DEF DialogInv

-----------------------------------------------------------------------------
(***************************************************************************)
(* For any lifetimes, margins, cache times, and any number of requests,    *)
(* ticks and failures: the token the server sends with a request is fit.   *)
(*                                                                         *)
(* What a request is given depends on what it saw before it waited.        *)
(* RenewalsInv says how old that can be: a tick stands between the lookup  *)
(* and the answer at most, and between the issue of a token and its        *)
(* arrival, since no tick comes while a request has seen one.  CacheInv    *)
(* says that the cached token was young when it was cached, whichever      *)
(* renewal answered last, and that only clearing takes the last renewal    *)
(* away.                                                                   *)
(***************************************************************************)

Renewals == [found : Tokens \union {Absent}, issued : Tokens \union {Absent},
             ticked : BOOLEAN, renewed : BOOLEAN]
Entries == [token : Tokens, at : Nat]

TokenTypeOK ==
  /\ now \in Nat
  /\ tokenCache \in Entries \union {Absent}
  /\ waiting \in Seq(Renewals)
  /\ lastRenewal \in Nat \union {Absent}

CacheInv ==
  /\ lastRenewal = IF tokenCache = Absent THEN Absent ELSE tokenCache.at
  /\ tokenCache # Absent =>
       tokenCache.at <= now /\ tokenCache.token.from <= tokenCache.at
         /\ tokenCache.at <= tokenCache.token.from + 1

\* A token issued at one tick or the one before, and not expired yet
Fresh(token, time, tick) ==
  /\ token.from <= time /\ time <= token.from + tick
  /\ token.expires # Absent => token.from + 1 < token.expires

\* What a request found was fit to send, but for the tick it has seen.
Sound(r, time) ==
  LET tick == IF r.ticked THEN 1 ELSE 0
  IN /\ r.issued # NoToken => Fresh(r.issued, time, tick)
     /\ r.found # NoToken => r.found.from <= time /\ time <= r.found.from + TokenTTL + 1 + tick
     /\ r.found = NoToken => ~r.renewed

RenewalsInv == \A i \in DOMAIN waiting : Sound(waiting[i], now)

TokenInv == TokenTypeOK /\ CacheInv /\ RenewalsInv /\ OAuthTokenIsFit

-----------------------------------------------------------------------------
\* The requests that still wait are those that did but one, in their order
\* (RemoveAt).
LEMMA RemoveAtKeeps ==
  ASSUME NEW S, NEW s \in Seq(S), NEW i \in DOMAIN s
  PROVE  /\ RemoveAt(s, i) \in Seq(S)
         /\ \A j \in DOMAIN RemoveAt(s, i) : \E k \in DOMAIN s : RemoveAt(s, i)[j] = s[k]
         /\ Len(RemoveAt(s, i)) = Len(s) - 1
         /\ \A j \in 1 .. Len(s) - 1 : RemoveAt(s, i)[j] = IF j < i THEN s[j] ELSE s[j + 1]
<1> DEFINE a == SubSeq(s, 1, i - 1)
           b == SubSeq(s, i + 1, Len(s))
<1>1. i \in 1 .. Len(s) /\ Len(s) \in Nat
  OBVIOUS
<1>2. a \in Seq(S) /\ Len(a) = i - 1 /\ \A j \in 1 .. i - 1 : a[j] = s[j]
  BY <1>1
<1>3. b \in Seq(S) /\ Len(b) = Len(s) - i /\ \A j \in 1 .. Len(s) - i : b[j] = s[i + j]
  BY <1>1
<1> HIDE DEF a, b
<1>a. /\ a \o b \in Seq(S) /\ Len(a \o b) = Len(a) + Len(b)
      /\ \A j \in 1 .. Len(a) + Len(b) :
           (a \o b)[j] = IF j <= Len(a) THEN a[j] ELSE b[j - Len(a)]
  BY <1>2, <1>3, ConcatProperties
<1>b. Len(a) + Len(b) = Len(s) - 1
  BY <1>1, <1>2, <1>3
<1>4. /\ a \o b \in Seq(S) /\ Len(a \o b) = Len(s) - 1
      /\ \A j \in 1 .. Len(a \o b) : (a \o b)[j] = IF j <= i - 1 THEN a[j] ELSE b[j - (i - 1)]
  <2> HIDE <1>1, <1>3
  <2> QED BY <1>2, <1>a, <1>b
<1>5. \A j \in 1 .. Len(a \o b) : \E k \in 1 .. Len(s) : (a \o b)[j] = s[k]
  <2> TAKE j \in 1 .. Len(a \o b)
  <2>1. CASE j <= i - 1
    BY <2>1, <1>1, <1>2, <1>4
  <2>2. CASE ~(j <= i - 1)
    <3>1. j - (i - 1) \in 1 .. Len(s) - i /\ i + (j - (i - 1)) \in 1 .. Len(s)
      BY <2>2, <1>1, <1>4
    <3>2. (a \o b)[j] = s[i + (j - (i - 1))]
      BY <2>2, <3>1, <1>3, <1>4
    <3> QED BY <3>1, <3>2
  <2> QED BY <2>1, <2>2
<1>6. RemoveAt(s, i) = a \o b
  BY DEF RemoveAt, a, b
<1>7. DOMAIN (a \o b) = 1 .. Len(a \o b) /\ DOMAIN s = 1 .. Len(s)
  BY <1>4
<1>8. ASSUME NEW j \in 1 .. Len(s) - 1
      PROVE  (a \o b)[j] = IF j < i THEN s[j] ELSE s[j + 1]
  <2>1. CASE j < i
    BY <2>1, <1>1, <1>2, <1>4
  <2>2. CASE ~(j < i)
    <3>1. j - (i - 1) \in 1 .. Len(s) - i /\ i + (j - (i - 1)) = j + 1
      BY <2>2, <1>1
    <3>2. j \in 1 .. Len(a \o b) /\ ~(j <= i - 1)
      BY <2>2, <1>1, <1>4
    <3>3. (a \o b)[j] = b[j - (i - 1)]
      BY <3>2, <1>4
    <3>4. b[j - (i - 1)] = s[i + (j - (i - 1))]
      BY <1>3, <3>1
    <3> QED BY <2>2, <3>1, <3>3, <3>4
  <2> QED BY <2>1, <2>2
<1> QED BY <1>4, <1>5, <1>6, <1>7, <1>8

\* The entry that is found is young, and none is found only when nothing was
\* cached for as long as the cache keeps it (Lookup).
LEMMA LookupFacts ==
  ASSUME TokenTypeOK, CacheInv
  PROVE  /\ Lookup \in Tokens \union {Absent}
         /\ Lookup # NoToken => Lookup.from <= now /\ now <= Lookup.from + TokenTTL + 1
         /\ Lookup = NoToken => ~(lastRenewal # Absent /\ now <= lastRenewal + TokenTTL)
<1>1. CASE tokenCache = Absent
  BY <1>1 DEF Lookup, NoToken, CacheInv
<1>2. CASE tokenCache # Absent
  <2>1. tokenCache \in Entries /\ tokenCache.token \in Tokens /\ tokenCache.at \in Nat
        /\ tokenCache.token.from \in Nat
    BY <1>2 DEF TokenTypeOK, Entries, Tokens
  <2>2. tokenCache.token # NoToken
    BY <2>1, AbsentAssumption DEF NoToken
  <2>3. /\ Lookup = IF now <= tokenCache.at + TokenTTL THEN tokenCache.token ELSE NoToken
        /\ lastRenewal = tokenCache.at /\ tokenCache.at <= now
        /\ tokenCache.token.from <= tokenCache.at
        /\ tokenCache.at <= tokenCache.token.from + 1
    BY <1>2 DEF Lookup, CacheInv
  <2>4. now \in Nat /\ TokenTTL \in Nat
    BY OAuthTokenAssumption DEF TokenTypeOK
  <2>5. CASE now <= tokenCache.at + TokenTTL
    <3>1. now <= tokenCache.token.from + TokenTTL + 1 /\ tokenCache.token.from <= now
      BY <2>1, <2>3, <2>4, <2>5
    <3> QED BY <2>1, <2>2, <2>3, <2>5, <3>1
  <2>6. CASE ~(now <= tokenCache.at + TokenTTL)
    BY <2>3, <2>6 DEF NoToken
  <2> QED BY <2>5, <2>6
<1> QED BY <1>1, <1>2

LEMMA TokenInvariant == Spec => []TokenInv
<1>1. TokenInit => TokenInv
  BY DEF TokenInit, TokenInv, TokenTypeOK, CacheInv, RenewalsInv, OAuthTokenIsFit
<1>2. TokenInv /\ [TokenNext]_tokenVars => TokenInv'
  <2> SUFFICES ASSUME TokenInv, [TokenNext]_tokenVars PROVE TokenInv'
    OBVIOUS
  <2> USE DEF TokenInv
  <2>a. TokenTTL \in Nat /\ RenewBefore \in Nat /\ RenewBefore > 0 /\ now \in Nat
    BY OAuthTokenAssumption DEF TokenTypeOK
  <2>b. \A i \in DOMAIN waiting : waiting[i] \in Renewals
    BY DEF TokenTypeOK
  <2>1. CASE GetOAuthToken
    <3>1. UNCHANGED <<now, tokenCache, lastRenewal>>
      BY <2>1 DEF GetOAuthToken
    <3>2. CASE isTokenNearlyExpired(Lookup)
      <4> DEFINE renewed == lastRenewal # Absent /\ now <= lastRenewal + TokenTTL
                 r == [found |-> Lookup, issued |-> NoToken, ticked |-> FALSE, renewed |-> renewed]
      <4>1. waiting' = Append(waiting, r) /\ handedOut' = handedOut
        BY <2>1, <3>2 DEF GetOAuthToken
      <4>2. renewed \in BOOLEAN
        OBVIOUS
      <4> HIDE DEF renewed
      <4>3. r \in Renewals
        BY <4>2, LookupFacts DEF Renewals, NoToken
      <4>4. Sound(r, now)
        <5>1. /\ r.issued = NoToken /\ r.found = Lookup /\ r.ticked = FALSE
              /\ r.renewed = renewed
          OBVIOUS
        <5>2. Lookup # NoToken => Lookup.from \in Nat
          BY LookupFacts DEF Tokens, NoToken
        <5>3. Lookup = NoToken => ~renewed
          BY LookupFacts DEF renewed
        <5> HIDE DEF r
        <5> QED BY <2>a, <5>1, <5>2, <5>3, LookupFacts DEF Sound
      <4> HIDE DEF r
      <4>5. TokenTypeOK' /\ CacheInv' /\ OAuthTokenIsFit'
        BY <3>1, <4>1, <4>3 DEF TokenTypeOK, CacheInv, OAuthTokenIsFit
      <4>6. RenewalsInv'
        BY <3>1, <4>1, <4>3, <4>4 DEF RenewalsInv, TokenTypeOK
      <4> QED BY <4>5, <4>6
    <3>3. CASE ~isTokenNearlyExpired(Lookup)
      <4>1. waiting' = waiting
            /\ handedOut' = [token |-> Lookup, at |-> now, failed |-> FALSE, renewed |-> TRUE]
        BY <2>1, <3>3 DEF GetOAuthToken, HandOut
      <4>2. /\ Lookup # NoToken /\ Lookup.expires # Absent
            /\ ~(Lookup.expires < now + RenewBefore)
        BY <3>3 DEF isTokenNearlyExpired, NearlyExpired
      <4>3. Lookup.expires \in Nat /\ Lookup.from \in Nat
        BY <4>2, LookupFacts DEF Tokens, NoToken
      <4>4. OAuthTokenIsFit'
        BY <4>1, <4>2, <4>3, <2>a, LookupFacts DEF OAuthTokenIsFit, NoToken
      <4> QED BY <3>1, <4>1, <4>4 DEF TokenTypeOK, CacheInv, RenewalsInv
    <3> QED BY <3>2, <3>3
  <2>2. CASE TokenTick
    <3>1. /\ now' = now + 1
          /\ \A i \in DOMAIN waiting : ~waiting[i].ticked
          /\ waiting' = [i \in DOMAIN waiting |-> [waiting[i] EXCEPT !.ticked = TRUE]]
          /\ UNCHANGED <<tokenCache, lastRenewal, handedOut>>
      BY <2>2 DEF TokenTick
    <3>2. waiting' \in Seq(Renewals)
      <4>1. \A i \in DOMAIN waiting : [waiting[i] EXCEPT !.ticked = TRUE] \in Renewals
        BY <2>b DEF Renewals
      <4> QED BY <3>1, <4>1 DEF TokenTypeOK
    <3>3. ASSUME NEW i \in DOMAIN waiting PROVE Sound(waiting'[i], now')
      <4>1. /\ waiting'[i].found = waiting[i].found /\ waiting'[i].issued = waiting[i].issued
            /\ waiting'[i].renewed = waiting[i].renewed /\ waiting'[i].ticked = TRUE
        BY <2>b, <3>1 DEF Renewals
      <4>2. Sound(waiting[i], now) /\ ~waiting[i].ticked
        BY <3>1 DEF RenewalsInv
      <4>3. /\ waiting[i].issued # NoToken => waiting[i].issued.from \in Nat
            /\ waiting[i].found # NoToken => waiting[i].found.from \in Nat
        BY <2>b DEF Renewals, Tokens, NoToken
      <4> QED BY <2>a, <3>1, <4>1, <4>2, <4>3 DEF Sound, Fresh
    <3>4. RenewalsInv'
      BY <3>1, <3>3 DEF RenewalsInv
    <3>5. CacheInv'
      BY <2>a, <3>1 DEF CacheInv, TokenTypeOK, Entries, Tokens
    <3> QED BY <2>a, <3>1, <3>2, <3>4, <3>5 DEF TokenTypeOK, OAuthTokenIsFit
  <2>3. CASE ClearTokens
    BY <2>3 DEF ClearTokens, TokenTypeOK, CacheInv, RenewalsInv, OAuthTokenIsFit
  <2>4. ASSUME NEW r \in DOMAIN waiting, TokenArrives(r) PROVE TokenInv'
    <3> DEFINE token == waiting[r].issued
    <3>1. /\ token # NoToken /\ waiting' = RemoveAt(waiting, r) /\ now' = now
          /\ tokenCache' = [token |-> token, at |-> now] /\ lastRenewal' = now
          /\ handedOut' = [token |-> token, at |-> now, failed |-> FALSE, renewed |-> TRUE]
      BY <2>4 DEF TokenArrives, HandOut
    <3>2. token \in Tokens /\ token.from \in Nat /\ token.expires \in Nat \union {Absent}
      BY <2>b, <3>1 DEF Renewals, Tokens, NoToken
    <3>3. /\ token.from <= now /\ now <= token.from + 1
          /\ token.expires # Absent => token.from + 1 < token.expires
      BY <2>a, <3>1, <3>2 DEF RenewalsInv, Sound, Fresh
    <3> HIDE DEF token
    <3>4. tokenCache' \in Entries /\ tokenCache' # Absent
      BY <2>a, <3>1, <3>2, AbsentAssumption DEF Entries
    <3>5. TokenTypeOK' /\ RenewalsInv'
      BY <2>a, <3>1, <3>4, RemoveAtKeeps DEF TokenTypeOK, RenewalsInv
    <3>6. CacheInv'
      BY <2>a, <3>1, <3>2, <3>3, <3>4 DEF CacheInv
    <3>7. OAuthTokenIsFit'
      BY <2>a, <3>1, <3>2, <3>3 DEF OAuthTokenIsFit, NoToken
    <3> QED BY <3>5, <3>6, <3>7
  <2>5. ASSUME NEW r \in DOMAIN waiting, RenewalFails(r) PROVE TokenInv'
    <3>1. /\ waiting' = RemoveAt(waiting, r) /\ UNCHANGED <<now, tokenCache, lastRenewal>>
          /\ handedOut' = [token |-> waiting[r].found, at |-> now, failed |-> TRUE,
                           renewed |-> waiting[r].renewed]
      BY <2>5 DEF RenewalFails, HandOut
    <3>2. TokenTypeOK' /\ RenewalsInv' /\ CacheInv'
      BY <3>1, RemoveAtKeeps DEF TokenTypeOK, RenewalsInv, CacheInv
    <3>3. waiting[r].found # NoToken => waiting[r].found.from \in Nat
      BY <2>b DEF Renewals, Tokens, NoToken
    <3>4. OAuthTokenIsFit'
      BY <2>a, <3>1, <3>3 DEF OAuthTokenIsFit, RenewalsInv, Sound, NoToken
    <3> QED BY <3>2, <3>4
  <2>6. ASSUME NEW r \in DOMAIN waiting, NEW life \in Lifetimes, TokenIssued(r, life)
        PROVE  TokenInv'
    <3> DEFINE token == [from |-> now, expires |-> IF life = Absent THEN Absent ELSE now + life]
    <3>1. /\ waiting' = [waiting EXCEPT ![r].issued = token]
          /\ UNCHANGED <<now, tokenCache, lastRenewal, handedOut>>
      BY <2>6 DEF TokenIssued
    <3>2. /\ token \in Tokens /\ token.from = now
          /\ token.expires # Absent => token.expires \in Nat /\ now + 1 < token.expires
      BY <2>a, OAuthTokenAssumption DEF Tokens
    <3> HIDE DEF token
    <3>3. /\ \A i \in DOMAIN waiting : i # r => waiting'[i] = waiting[i]
          /\ waiting'[r] = [waiting[r] EXCEPT !.issued = token]
          /\ DOMAIN waiting' = DOMAIN waiting
      BY <3>1 DEF TokenTypeOK
    <3>4. /\ waiting'[r] \in Renewals /\ waiting'[r].issued = token
          /\ waiting'[r].found = waiting[r].found /\ waiting'[r].ticked = waiting[r].ticked
          /\ waiting'[r].renewed = waiting[r].renewed
      BY <2>b, <3>2, <3>3 DEF Renewals
    <3>5. TokenTypeOK'
      BY <3>1, <3>3, <3>4 DEF TokenTypeOK
    <3>6. Sound(waiting'[r], now)
      BY <2>a, <3>2, <3>4 DEF RenewalsInv, Sound, Fresh
    <3>7. RenewalsInv'
      BY <3>1, <3>3, <3>6 DEF RenewalsInv
    <3> QED BY <3>1, <3>5, <3>7 DEF CacheInv, OAuthTokenIsFit
  <2>7. CASE UNCHANGED tokenVars
    BY <2>7 DEF tokenVars, TokenTypeOK, CacheInv, RenewalsInv, OAuthTokenIsFit
  <2> QED BY <2>1, <2>2, <2>3, <2>4, <2>5, <2>6, <2>7 DEF TokenNext
<1> QED BY <1>1, <1>2, AllMachinesStart, OneMachineMoves, PTL DEF Spec, serviceVars

\* A request to the engine goes out with a token that has not expired unless
\* its own renewal failed, with none that is older than the cache's time and
\* two waits, and without one only when nothing had been renewed for so long.
THEOREM TokenIsFit == Spec => []OAuthTokenIsFit
BY TokenInvariant, PTL DEF TokenInv

-----------------------------------------------------------------------------
(***************************************************************************)
(* For any tenants, checked actions, items and any number of checks,       *)
(* changes, reloads and failures: what a permission check says is          *)
(* accounted for by what was granted that day.                             *)
(*                                                                         *)
(* The two halves of the property are about the pairs that answered yes    *)
(* and those that answered no.  Accounted says of one answer where it may  *)
(* come from; it holds of what every walk knows (KnownInv), of the         *)
(* session's answers under each tenant (AnswersInv) and, in the stricter   *)
(* form of one tenant's own grants, of the memo (MemoInv): an answer of    *)
(* another tenant leaves the memo only by being noted as borrowed.         *)
(***************************************************************************)

Answers == {TRUE, FALSE, Unknown}

\* Where an answer about a pair, given under some tenants, may come from
Accounted(said, p, ts, failed) ==
  /\ said = TRUE => \E t \in ts : p \in everGranted[t] \/ p \in borrowed[t]
  /\ said = FALSE => failed \/ \E t \in ts : p \notin neverRevoked[t] \/ p \in borrowed[t]

\* Nothing need be said of what is not known yet.
LEMMA UnknownAccounted ==
  ASSUME NEW p, NEW ts, NEW failed
  PROVE  Accounted(Absent, p, ts, failed)
<1>1. Absent # TRUE /\ Absent # FALSE
  BY PermissionsAssumption
<1> QED BY <1>1 DEF Accounted

\* What a loop says is what some or all of its elements say (LoopValue).
LEMMA LoopFacts ==
  ASSUME NEW values
  PROVE  /\ LoopValue(values, FALSE) \in Answers /\ LoopValue(values, TRUE) \in Answers
         /\ LoopValue(values, FALSE) = TRUE => \A k \in DOMAIN values : values[k] = TRUE
         /\ LoopValue(values, FALSE) = FALSE => \E k \in DOMAIN values : values[k] = FALSE
         /\ LoopValue(values, TRUE) = TRUE => \E k \in DOMAIN values : values[k] = TRUE
         /\ LoopValue(values, TRUE) = FALSE => \A k \in DOMAIN values : values[k] = FALSE
BY PermissionsAssumption DEF LoopValue, Answers, Unknown

\* Both loops together (meetsPermissionSpecification).
LEMMA BothFacts ==
  ASSUME NEW all \in Answers, NEW one \in Answers
  PROVE  /\ Both(all, one) \in Answers
         /\ Both(all, one) = TRUE => all = TRUE /\ one = TRUE
         /\ Both(all, one) = FALSE => all = FALSE \/ one = FALSE
BY PermissionsAssumption DEF Both, Answers, Unknown

\* What is known of pairs is true of two sets: those that say yes are in the
\* one, those that say no are not in the other
Knows(known, yes, no) ==
  \A p \in Pairs : /\ known[p] = TRUE => p \in yes
                   /\ known[p] = FALSE => p \notin no

\* An element's value is true of the two sets
Tells(value, permitted, permittedAlways) ==
  /\ value \in Answers
  /\ value = TRUE => permitted
  /\ value = FALSE => ~permittedAlways

\* A pair: its own name first, all names when that is refused (hasPermission).
LEMMA LeafFacts ==
  ASSUME NEW known, NEW yes, NEW no, Knows(known, yes, no), NEW p \in Leaves
  PROVE  /\ LeafValue(p, known) = TRUE => Permits(yes, p)
         /\ LeafValue(p, known) = FALSE => ~Permits(no, p)
<1>1. p \in Pairs /\ ALL(p) \in Pairs
  BY DEF Pairs
<1> QED BY <1>1 DEF Knows, LeafValue, Permits

\* A list of pairs, as each of the two loops takes it.
LEMMA LeavesFacts ==
  ASSUME NEW known, NEW yes, NEW no, Knows(known, yes, no), NEW list, Range(list) \subseteq Leaves
  PROVE  /\ Tells(LoopValue(LeavesOf(list, known), FALSE),
                  \A k \in DOMAIN list : Permits(yes, list[k]),
                  \A k \in DOMAIN list : Permits(no, list[k]))
         /\ Tells(LoopValue(LeavesOf(list, known), TRUE),
                  \E k \in DOMAIN list : Permits(yes, list[k]),
                  \E k \in DOMAIN list : Permits(no, list[k]))
<1> DEFINE values == LeavesOf(list, known)
<1>1. DOMAIN values = DOMAIN list /\ \A k \in DOMAIN list : values[k] = LeafValue(list[k], known)
  BY DEF LeavesOf
<1>2. \A k \in DOMAIN list : list[k] \in Leaves
  BY DEF Range
<1>3. \A k \in DOMAIN list : /\ values[k] = TRUE => Permits(yes, list[k])
                             /\ values[k] = FALSE => ~Permits(no, list[k])
  BY <1>1, <1>2, LeafFacts
<1> HIDE DEF values
<1>4. /\ LoopValue(values, FALSE) \in Answers /\ LoopValue(values, TRUE) \in Answers
      /\ LoopValue(values, FALSE) = TRUE => \A k \in DOMAIN values : values[k] = TRUE
      /\ LoopValue(values, FALSE) = FALSE => \E k \in DOMAIN values : values[k] = FALSE
      /\ LoopValue(values, TRUE) = TRUE => \E k \in DOMAIN values : values[k] = TRUE
      /\ LoopValue(values, TRUE) = FALSE => \A k \in DOMAIN values : values[k] = FALSE
  BY LoopFacts
<1>5. /\ LoopValue(values, FALSE) = TRUE => \A k \in DOMAIN list : Permits(yes, list[k])
      /\ LoopValue(values, FALSE) = FALSE => \E k \in DOMAIN list : ~Permits(no, list[k])
      /\ LoopValue(values, TRUE) = TRUE => \E k \in DOMAIN list : Permits(yes, list[k])
      /\ LoopValue(values, TRUE) = FALSE => \A k \in DOMAIN list : ~Permits(no, list[k])
  BY <1>1, <1>3, <1>4
<1> QED BY <1>4, <1>5 DEF Tells, values

\* A specification that nests no other.
LEMMA FlatFacts ==
  ASSUME NEW known, NEW yes, NEW no, Knows(known, yes, no),
         NEW spec, ElementsOf(spec) \subseteq Leaves
  PROVE  Tells(FlatMeets(spec, known), FlatPermits(spec, yes), FlatPermits(spec, no))
<1> DEFINE all == IF spec.AllOf = Absent THEN TRUE ELSE LoopValue(LeavesOf(spec.AllOf, known), FALSE)
           one == IF spec.OneOf = Absent THEN TRUE ELSE LoopValue(LeavesOf(spec.OneOf, known), TRUE)
<1>1. /\ spec.AllOf # Absent => Range(spec.AllOf) \subseteq Leaves
      /\ spec.OneOf # Absent => Range(spec.OneOf) \subseteq Leaves
  BY DEF ElementsOf, Elements
<1>2. Tells(all, spec.AllOf # Absent => \A k \in DOMAIN spec.AllOf : Permits(yes, spec.AllOf[k]),
                 spec.AllOf # Absent => \A k \in DOMAIN spec.AllOf : Permits(no, spec.AllOf[k]))
  <2>1. CASE spec.AllOf = Absent
    BY <2>1 DEF Tells, Answers
  <2>2. CASE spec.AllOf # Absent
    BY <2>2, <1>1, LeavesFacts DEF Tells
  <2> QED BY <2>1, <2>2
<1>3. Tells(one, spec.OneOf # Absent => \E k \in DOMAIN spec.OneOf : Permits(yes, spec.OneOf[k]),
                 spec.OneOf # Absent => \E k \in DOMAIN spec.OneOf : Permits(no, spec.OneOf[k]))
  <2>1. CASE spec.OneOf = Absent
    BY <2>1 DEF Tells, Answers
  <2>2. CASE spec.OneOf # Absent
    BY <2>2, <1>1, LeavesFacts DEF Tells
  <2> QED BY <2>1, <2>2
<1>4. FlatMeets(spec, known) = IF spec.AllOf = Absent /\ spec.OneOf = Absent THEN FALSE
                               ELSE Both(all, one)
  BY DEF FlatMeets
<1> HIDE DEF all, one
<1>5. /\ Both(all, one) \in Answers
      /\ Both(all, one) = TRUE => all = TRUE /\ one = TRUE
      /\ Both(all, one) = FALSE => all = FALSE \/ one = FALSE
  BY <1>2, <1>3, BothFacts DEF Tells
<1>6. CASE spec.AllOf = Absent /\ spec.OneOf = Absent
  BY <1>4, <1>6 DEF Tells, Answers, FlatPermits
<1>7. CASE ~(spec.AllOf = Absent /\ spec.OneOf = Absent)
  BY <1>2, <1>3, <1>4, <1>5, <1>7 DEF Tells, FlatPermits
<1> QED BY <1>6, <1>7

\* A list of pairs and specifications.
LEMMA ValuesFacts ==
  ASSUME NEW known, NEW yes, NEW no, Knows(known, yes, no), NEW list,
         \A e \in Range(list) : IF IsLeaf(e) THEN e \in Leaves ELSE ElementsOf(e) \subseteq Leaves
  PROVE  /\ Tells(LoopValue(ValuesOf(list, known), FALSE),
                  \A k \in DOMAIN list : ElementPermits(list[k], yes),
                  \A k \in DOMAIN list : ElementPermits(list[k], no))
         /\ Tells(LoopValue(ValuesOf(list, known), TRUE),
                  \E k \in DOMAIN list : ElementPermits(list[k], yes),
                  \E k \in DOMAIN list : ElementPermits(list[k], no))
<1> DEFINE values == ValuesOf(list, known)
<1>1. /\ DOMAIN values = DOMAIN list
      /\ \A k \in DOMAIN list : values[k] = IF IsLeaf(list[k]) THEN LeafValue(list[k], known)
                                            ELSE FlatMeets(list[k], known)
  BY DEF ValuesOf
<1>2. ASSUME NEW k \in DOMAIN list
      PROVE  /\ values[k] = TRUE => ElementPermits(list[k], yes)
             /\ values[k] = FALSE => ~ElementPermits(list[k], no)
  <2>1. list[k] \in Range(list)
    BY DEF Range
  <2>2. CASE IsLeaf(list[k])
    <3>1. values[k] = LeafValue(list[k], known) /\ list[k] \in Leaves
      BY <1>1, <2>1, <2>2
    <3> HIDE DEF values
    <3> QED BY <3>1, <2>2, LeafFacts DEF ElementPermits
  <2>3. CASE ~IsLeaf(list[k])
    <3>1. values[k] = FlatMeets(list[k], known) /\ ElementsOf(list[k]) \subseteq Leaves
      BY <1>1, <2>1, <2>3
    <3> HIDE DEF values
    <3>2. Tells(FlatMeets(list[k], known), FlatPermits(list[k], yes), FlatPermits(list[k], no))
      BY <3>1, FlatFacts
    <3> QED BY <3>1, <3>2, <2>3 DEF Tells, ElementPermits
  <2> QED BY <2>2, <2>3
<1> HIDE DEF values
<1>4. /\ LoopValue(values, FALSE) \in Answers /\ LoopValue(values, TRUE) \in Answers
      /\ LoopValue(values, FALSE) = TRUE => \A k \in DOMAIN values : values[k] = TRUE
      /\ LoopValue(values, FALSE) = FALSE => \E k \in DOMAIN values : values[k] = FALSE
      /\ LoopValue(values, TRUE) = TRUE => \E k \in DOMAIN values : values[k] = TRUE
      /\ LoopValue(values, TRUE) = FALSE => \A k \in DOMAIN values : values[k] = FALSE
  BY LoopFacts
<1>5. /\ LoopValue(values, FALSE) = TRUE => \A k \in DOMAIN list : ElementPermits(list[k], yes)
      /\ LoopValue(values, FALSE) = FALSE => \E k \in DOMAIN list : ~ElementPermits(list[k], no)
      /\ LoopValue(values, TRUE) = TRUE => \E k \in DOMAIN list : ElementPermits(list[k], yes)
      /\ LoopValue(values, TRUE) = FALSE => \A k \in DOMAIN list : ~ElementPermits(list[k], no)
  BY <1>1, <1>2, <1>4
<1> QED BY <1>4, <1>5 DEF Tells, values

\* A whole specification: the walk's verdict is that of the two sets
\* (meetsPermissionSpecification against SpecificationPermits).
LEMMA SpecificationFacts ==
  ASSUME NEW known, NEW yes, NEW no, Knows(known, yes, no), NEW spec \in Specifications
  PROVE  Tells(MeetsPermissionSpecification(spec, known),
               SpecificationPermits(spec, yes), SpecificationPermits(spec, no))
<1> DEFINE all == AllOfValue(spec, known)
           one == OneOfValue(spec, known)
           Fit(e) == IF IsLeaf(e) THEN e \in Leaves ELSE ElementsOf(e) \subseteq Leaves
<1>0. \A e \in ElementsOf(spec) : Fit(e)
  <2>1. LeavesUnder(spec) \subseteq Leaves
    BY DEF Leaves
  <2> QED BY <2>1 DEF LeavesUnder
<1>1. /\ spec.AllOf # Absent => \A e \in Range(spec.AllOf) : Fit(e)
      /\ spec.OneOf # Absent => \A e \in Range(spec.OneOf) : Fit(e)
  <2> HIDE DEF Fit
  <2> QED BY <1>0 DEF ElementsOf, Elements
<1>2. Tells(all, spec.AllOf # Absent => \A k \in DOMAIN spec.AllOf : ElementPermits(spec.AllOf[k], yes),
                 spec.AllOf # Absent => \A k \in DOMAIN spec.AllOf : ElementPermits(spec.AllOf[k], no))
  <2>1. CASE spec.AllOf = Absent
    BY <2>1 DEF Tells, Answers, AllOfValue
  <2>2. CASE spec.AllOf # Absent
    BY <2>2, <1>1, ValuesFacts DEF Tells, AllOfValue
  <2> QED BY <2>1, <2>2
<1>3. Tells(one, spec.OneOf # Absent => \E k \in DOMAIN spec.OneOf : ElementPermits(spec.OneOf[k], yes),
                 spec.OneOf # Absent => \E k \in DOMAIN spec.OneOf : ElementPermits(spec.OneOf[k], no))
  <2>1. CASE spec.OneOf = Absent
    BY <2>1 DEF Tells, Answers, OneOfValue
  <2>2. CASE spec.OneOf # Absent
    BY <2>2, <1>1, ValuesFacts DEF Tells, OneOfValue
  <2> QED BY <2>1, <2>2
<1>4. MeetsPermissionSpecification(spec, known) =
        IF spec.AllOf = Absent /\ spec.OneOf = Absent THEN FALSE ELSE Both(all, one)
  BY DEF MeetsPermissionSpecification
<1> HIDE DEF all, one
<1>5. /\ Both(all, one) \in Answers
      /\ Both(all, one) = TRUE => all = TRUE /\ one = TRUE
      /\ Both(all, one) = FALSE => all = FALSE \/ one = FALSE
  BY <1>2, <1>3, BothFacts DEF Tells
<1>6. CASE spec.AllOf = Absent /\ spec.OneOf = Absent
  BY <1>4, <1>6 DEF Tells, Answers, SpecificationPermits
<1>7. CASE ~(spec.AllOf = Absent /\ spec.OneOf = Absent)
  BY <1>2, <1>3, <1>4, <1>5, <1>7 DEF Tells, SpecificationPermits
<1> QED BY <1>6, <1>7

-----------------------------------------------------------------------------
\* A check: what it waits for may be about anything
Checks(S) == [spec : Specifications, known : [Pairs -> Answers], tenants : SUBSET Tenants,
              waits : {Absent} \union [pair : S, key : Tenants, request : S, late : BOOLEAN],
              failed : BOOLEAN]

PermissionsTypeOK ==
  /\ tenant \in Tenants
  /\ granted \in [Tenants -> SUBSET Pairs]
  /\ everGranted \in [Tenants -> SUBSET Pairs] /\ neverRevoked \in [Tenants -> SUBSET Pairs]
  /\ memo \in [Pairs -> {Absent} \union [tenant : Tenants, answer : Answers]]
  /\ permissionCache \in [Tenants -> [Pairs -> Answers]]
  /\ \E S : walks \in Seq(Checks(S)) /\ borrowed \in [Tenants -> SUBSET S]

\* What was granted all day is granted, what is granted was granted
GrantsInv ==
  \A t \in Tenants : neverRevoked[t] \subseteq granted[t] /\ granted[t] \subseteq everGranted[t]

MemoInv ==
  \A p \in Pairs : memo[p] # Absent =>
    /\ memo[p].answer = TRUE => p \in everGranted[memo[p].tenant]
    /\ memo[p].answer = FALSE => p \notin neverRevoked[memo[p].tenant]

AnswersInv ==
  \A t \in Tenants, p \in Pairs : Accounted(permissionCache[t][p], p, {t}, FALSE)

KnownInv ==
  \A w \in DOMAIN walks :
    /\ walks[w].waits # Absent => walks[w].waits.key \in walks[w].tenants
    /\ \A p \in Pairs : Accounted(walks[w].known[p], p, walks[w].tenants, walks[w].failed)

\* A request that is waited for is of a tenant, and in the memo or dropped
Sent(waits) ==
  waits # Absent /\ waits.pair \in Pairs =>
    /\ waits.request \in Tenants
    /\ ~waits.late => memo[waits.pair] # Absent /\ memo[waits.pair].tenant = waits.request

WaitsInv == \A w \in DOMAIN walks : Sent(walks[w].waits)

PermissionsInv ==
  PermissionsTypeOK /\ GrantsInv /\ MemoInv /\ AnswersInv /\ KnownInv /\ WaitsInv

\* The invariant gives the property.
LEMMA AccountedFor == PermissionsInv => PermissionsAccountedFor
<1> SUFFICES ASSUME PermissionsInv, NEW w \in DOMAIN walks, Ended(walks[w])
             PROVE  LET walk == walks[w]
                        meets == MeetsPermissionSpecification(walk.spec, walk.known)
                        strange == UNION {borrowed[t] : t \in walk.tenants}
                        ever == UNION {everGranted[t] : t \in walk.tenants}
                        always == {p \in Pairs : \A t \in walk.tenants : p \in neverRevoked[t]}
                    IN /\ meets => SpecificationPermits(walk.spec, ever \union strange)
                       /\ ~meets => walk.failed \/ ~SpecificationPermits(walk.spec, always \ strange)
  BY DEF PermissionsAccountedFor
<1> DEFINE walk == walks[w]
           meets == MeetsPermissionSpecification(walk.spec, walk.known)
           strange == UNION {borrowed[t] : t \in walk.tenants}
           ever == UNION {everGranted[t] : t \in walk.tenants}
           always == {p \in Pairs : \A t \in walk.tenants : p \in neverRevoked[t]}
           no == IF walk.failed THEN {} ELSE always \ strange
<1>1. walk.spec \in Specifications /\ walk.failed \in BOOLEAN
  <2>1. PICK S : walks \in Seq(Checks(S))
    BY DEF PermissionsInv, PermissionsTypeOK
  <2>2. walk \in Checks(S)
    BY <2>1
  <2> HIDE DEF walk
  <2> QED BY <2>2 DEF Checks
<1>2. \A p \in Pairs : Accounted(walk.known[p], p, walk.tenants, walk.failed)
  BY DEF PermissionsInv, KnownInv
<1> HIDE DEF walk
<1>3. Knows(walk.known, ever \union strange, no)
  BY <1>2 DEF Accounted, Knows
<1> HIDE DEF ever, strange, no
<1>4. Tells(meets, SpecificationPermits(walk.spec, ever \union strange),
            SpecificationPermits(walk.spec, no))
  BY <1>1, <1>3, SpecificationFacts
<1>5. meets \in BOOLEAN
  BY <1>4 DEF Ended, Tells, Answers, walk
<1>6. ~walk.failed => no = always \ strange
  BY DEF no
<1> HIDE DEF meets, always
<1>7. meets => SpecificationPermits(walk.spec, ever \union strange)
  BY <1>4, <1>5 DEF Tells
<1>8. ~meets => walk.failed \/ ~SpecificationPermits(walk.spec, always \ strange)
  BY <1>4, <1>5, <1>6 DEF Tells
<1> QED BY <1>7, <1>8 DEF walk, meets, strange, ever, always

\* More things a check may wait for.
LEMMA MoreChecks ==
  ASSUME NEW S, NEW T, S \subseteq T
  PROVE  Checks(S) \subseteq Checks(T) /\ Seq(Checks(S)) \subseteq Seq(Checks(T))
<1>1. Checks(S) \subseteq Checks(T)
  <2> SUFFICES ASSUME NEW c \in Checks(S) PROVE c \in Checks(T)
    OBVIOUS
  <2>1. c.waits \in {Absent} \union [pair : T, key : Tenants, request : T, late : BOOLEAN]
    BY DEF Checks
  <2> QED BY <2>1 DEF Checks
<1> QED BY <1>1

\* A check whose request the memo drops waits for the same request.
Dropped(x) == IF memoOld /\ AwaitsAnswer(x) THEN [x EXCEPT !.waits.late = TRUE] ELSE x

LEMMA DroppedFacts ==
  ASSUME NEW S, NEW x \in Checks(S)
  PROVE  /\ Dropped(x) \in Checks(S)
         /\ Dropped(x).spec = x.spec /\ Dropped(x).known = x.known
         /\ Dropped(x).tenants = x.tenants /\ Dropped(x).failed = x.failed
         /\ Dropped(x).waits # Absent =>
              /\ x.waits # Absent
              /\ Dropped(x).waits.pair = x.waits.pair /\ Dropped(x).waits.key = x.waits.key
              /\ Dropped(x).waits.request = x.waits.request
              /\ ~Dropped(x).waits.late => ~x.waits.late /\ ~memoOld
<1>1. CASE memoOld /\ x.waits # Absent
  <2> DEFINE waits == [x.waits EXCEPT !.late = TRUE]
  <2>1. Dropped(x) = [x EXCEPT !.waits = waits]
    BY <1>1 DEF Dropped, AwaitsAnswer, Checks
  <2>2. x.waits \in [pair : S, key : Tenants, request : S, late : BOOLEAN]
    BY <1>1 DEF Checks
  <2>3. /\ waits \in [pair : S, key : Tenants, request : S, late : BOOLEAN]
        /\ waits.pair = x.waits.pair /\ waits.key = x.waits.key
        /\ waits.request = x.waits.request /\ waits.late = TRUE
    BY <2>2
  <2> HIDE DEF waits
  <2> QED BY <1>1, <2>1, <2>3 DEF Checks
<1>2. CASE ~(memoOld /\ x.waits # Absent)
  BY <1>2 DEF Dropped, AwaitsAnswer
<1> QED BY <1>1, <1>2

\* A check whose request fails knows that it has.
LEMMA RefusedFacts ==
  ASSUME NEW S, NEW x \in Checks(S)
  PROVE  /\ Refused(x) \in Checks(S) /\ Refused(x).tenants = x.tenants
         /\ Refused(x).waits = Absent /\ Refused(x).failed = TRUE
         /\ \A q \in Pairs : Refused(x).known[q] \in {x.known[q], FALSE}
<1> DEFINE known == [x.known EXCEPT ![x.waits.pair] = FALSE]
<1>1. known \in [Pairs -> Answers] /\ \A q \in Pairs : known[q] \in {x.known[q], FALSE}
  BY DEF Checks, Answers
<1>2. Refused(x) = [x EXCEPT !.known = known, !.waits = Absent, !.failed = TRUE]
  BY DEF Refused, Checks
<1> HIDE DEF known
<1>3. /\ Refused(x).known = known /\ Refused(x).waits = Absent /\ Refused(x).failed = TRUE
      /\ Refused(x).tenants = x.tenants /\ Refused(x) \in Checks(S)
  BY <1>1, <1>2 DEF Checks
<1> QED BY <1>1, <1>3

\* A sequence of checks after one of them has moved.
LEMMA OneReplaced ==
  ASSUME NEW T, NEW s \in Seq(T), NEW w \in DOMAIN s, NEW new \in T, NEW r,
         r = [v \in DOMAIN s |-> IF v = w THEN new ELSE s[v]]
  PROVE  r \in Seq(T)
OBVIOUS

\* The inductive invariant.
THEOREM PermissionsInvariant == Spec => []PermissionsInv
<1>1. PermissionsInit => PermissionsInv
  <2> SUFFICES ASSUME PermissionsInit PROVE PermissionsInv
    OBVIOUS
  <2>1. Leaves \subseteq Pairs
    BY DEF Pairs
  <2>2. granted \in [Tenants -> SUBSET Pairs] /\ everGranted = granted /\ neverRevoked = granted
    <3>1. granted \in [Tenants -> {{}, Leaves}]
      BY DEF PermissionsInit
    <3>2. {{}, Leaves} \subseteq SUBSET Pairs
      BY <2>1
    <3> HIDE DEF PermissionsInit
    <3>3. granted \in [Tenants -> SUBSET Pairs]
      BY <3>1, <3>2
    <3> QED BY <3>3 DEF PermissionsInit
  <2>3. walks = <<>> /\ borrowed = [t \in Tenants |-> {}] /\ tenant \in Tenants
    BY DEF PermissionsInit
  <2>4. walks \in Seq(Checks({})) /\ borrowed \in [Tenants -> SUBSET {}]
    BY <2>3
  <2>5. /\ memo = [p \in Pairs |-> Absent]
        /\ permissionCache = [t \in Tenants |-> [p \in Pairs |-> Absent]]
    BY DEF PermissionsInit, NoRequests, NoAnswers, Unknown
  <2>6. PermissionsTypeOK
    BY <2>2, <2>3, <2>4, <2>5 DEF PermissionsTypeOK, Answers, Unknown
  <2>7. GrantsInv /\ MemoInv /\ KnownInv /\ WaitsInv
    BY <2>2, <2>3, <2>5 DEF GrantsInv, MemoInv, KnownInv, WaitsInv
  <2>8. AnswersInv
    <3>1. \A t \in Tenants, p \in Pairs : permissionCache[t][p] = Absent
      BY <2>5
    <3> QED BY <3>1, UnknownAccounted, Zenon DEF AnswersInv
  <2> QED BY <2>6, <2>7, <2>8 DEF PermissionsInv
<1>2. PermissionsInv /\ [PermissionsNext]_permissionVars => PermissionsInv'
  <2> SUFFICES ASSUME PermissionsInv, [PermissionsNext]_permissionVars PROVE PermissionsInv'
    OBVIOUS
  <2> USE DEF PermissionsInv
  <2>a. PICK S : walks \in Seq(Checks(S)) /\ borrowed \in [Tenants -> SUBSET S]
    BY DEF PermissionsTypeOK
  <2>b. \A w \in DOMAIN walks : walks[w] \in Checks(S)
    BY <2>a
  <2>1. ASSUME NEW spec \in Specifications, StartWalk(spec) PROVE PermissionsInv'
    <3> DEFINE new == [spec |-> spec, known |-> [p \in Pairs |-> Unknown], tenants |-> {},
                       waits |-> Absent, failed |-> FALSE]
    <3>1. /\ walks' = Append(walks, new)
          /\ UNCHANGED <<tenant, granted, memo, memoOld, permissionCache, everGranted, neverRevoked,
                         borrowed>>
      BY <2>1 DEF StartWalk
    <3>2. /\ new \in Checks(S) /\ new.waits = Absent
          /\ \A p \in Pairs : new.known[p] = Absent
      BY DEF Checks, Answers, Unknown
    <3> HIDE DEF new
    <3>3. walks' \in Seq(Checks(S))
      BY <2>a, <3>1, <3>2
    <3>4. \A w \in DOMAIN walks' : (w \in DOMAIN walks /\ walks'[w] = walks[w]) \/ walks'[w] = new
      BY <2>a, <3>1
    <3>5. PermissionsTypeOK'
      BY <2>a, <3>1, <3>3 DEF PermissionsTypeOK
    <3>6. KnownInv'
      <4> SUFFICES ASSUME NEW w \in DOMAIN walks'
                   PROVE  /\ walks'[w].waits # Absent => walks'[w].waits.key \in walks'[w].tenants
                          /\ \A p \in Pairs : Accounted(walks[w].known[p], p, walks[w].tenants,
                                                      walks[w].failed)'
        BY DEF KnownInv
      <4>1. CASE w \in DOMAIN walks /\ walks'[w] = walks[w]
        BY <4>1, <3>1 DEF KnownInv, Accounted
      <4>2. CASE walks'[w] = new
        <5>1. \A p \in Pairs : walks'[w].known[p] = Absent
          BY <4>2, <3>2
        <5>2. walks'[w].waits = Absent
          BY <4>2, <3>2
        <5>3. Absent # TRUE /\ Absent # FALSE
          BY PermissionsAssumption
        <5> QED BY <5>1, <5>2, <5>3, Zenon DEF Accounted
      <4> QED BY <3>4, <4>1, <4>2
    <3>7. WaitsInv'
      BY <3>1, <3>2, <3>4 DEF WaitsInv, Sent
    <3> QED BY <3>1, <3>5, <3>6, <3>7 DEF GrantsInv, MemoInv, AnswersInv, Accounted
  <2>2. ASSUME NEW w \in DOMAIN walks, AskPermission(w) PROVE PermissionsInv'
    <3> DEFINE walk == walks[w]
               pair == NextPair(walk)
               stored == permissionCache[tenant][pair]
    <3>0. walk \in Checks(S) /\ tenant \in Tenants
      BY <2>b DEF PermissionsTypeOK
    <3>1. /\ UNCHANGED <<tenant, granted, permissionCache, everGranted, neverRevoked, borrowed>>
          /\ walk.waits = Absent
      BY <2>2 DEF AskPermission
    <3>2. CASE stored # Unknown
      <4> DEFINE new == [walk EXCEPT !.known[pair] = stored, !.tenants = @ \union {tenant}]
      <4>1. /\ walks' = [walks EXCEPT ![w].known[pair] = stored, ![w].tenants = @ \union {tenant}]
            /\ UNCHANGED <<memo, memoOld>>
        BY <2>2, <3>2 DEF AskPermission
      <4>2. walks' = [v \in DOMAIN walks |-> IF v = w THEN new ELSE walks[v]]
        BY <4>1, <2>a
      <4>3. \A q \in Pairs : q = pair => stored = permissionCache[tenant][q] /\ stored \in Answers
        BY <3>0 DEF PermissionsTypeOK
      <4> HIDE DEF stored, pair, walk
      <4>4. /\ new.known \in [Pairs -> Answers] /\ new.tenants = walk.tenants \union {tenant}
            /\ new.failed = walk.failed /\ new.waits = walk.waits /\ new.spec = walk.spec
            /\ \A q \in Pairs : new.known[q] = IF q = pair THEN stored ELSE walk.known[q]
        BY <3>0, <4>3 DEF Checks
      <4>5. new \in Checks(S)
        BY <3>0, <4>4 DEF Checks
      <4>6. ASSUME NEW q \in Pairs PROVE Accounted(new.known[q], q, new.tenants, new.failed)
        <5>1. CASE q = pair
          <6>1. Accounted(stored, q, {tenant}, FALSE)
            BY <3>0, <4>3, <5>1 DEF AnswersInv
          <6> QED BY <4>4, <5>1, <6>1 DEF Accounted
        <5>2. CASE q # pair
          <6>1. Accounted(walk.known[q], q, walk.tenants, walk.failed)
            BY DEF KnownInv, walk
          <6> QED BY <4>4, <5>2, <6>1 DEF Accounted
        <5> QED BY <5>1, <5>2
      <4> HIDE DEF new
      <4>7. walks' \in Seq(Checks(S))
        BY <2>a, <4>2, <4>5, OneReplaced
      <4>8. PermissionsTypeOK'
        BY <2>a, <3>1, <4>1, <4>7 DEF PermissionsTypeOK
      <4>9. KnownInv'
        <5> SUFFICES ASSUME NEW v \in DOMAIN walks
                     PROVE  /\ walks'[v].waits # Absent => walks'[v].waits.key \in walks'[v].tenants
                            /\ \A q \in Pairs : Accounted(walks[v].known[q], q, walks[v].tenants,
                                                        walks[v].failed)'
          BY <4>2 DEF KnownInv
        <5>1. CASE v = w
          BY <3>1, <4>2, <4>4, <4>6, <5>1 DEF Accounted
        <5>2. CASE v # w
          BY <3>1, <4>2, <5>2 DEF KnownInv, Accounted
        <5> QED BY <5>1, <5>2
      <4>10. WaitsInv'
        BY <4>1, <4>2, <4>4 DEF WaitsInv, Sent, walk
      <4> QED BY <3>1, <4>1, <4>8, <4>9, <4>10 DEF GrantsInv, MemoInv, AnswersInv, Accounted
    <3>3. CASE stored = Unknown
      <4> DEFINE request == memo'[pair].tenant
                 T == S \union {pair, request}
                 waits == [pair |-> pair, key |-> tenant, request |-> request, late |-> FALSE]
                 new == [walk EXCEPT !.tenants = @ \union {tenant}, !.waits = waits]
      <4>1. /\ memo' = IF Remembered[pair] # Absent THEN Remembered
                       ELSE [Remembered EXCEPT ![pair] = [tenant |-> tenant, answer |-> Unknown]]
            /\ walks' = [WithDropped EXCEPT ![w].tenants = @ \union {tenant}, ![w].waits = waits]
        BY <2>2, <3>3 DEF AskPermission
      <4>2. walks' = [v \in DOMAIN walks |-> IF v = w THEN new ELSE Dropped(walks[v])]
        <5>1. WithDropped = [v \in DOMAIN walks |-> Dropped(walks[v])]
          BY DEF WithDropped, Dropped
        <5>2. Dropped(walks[w]) = walks[w]
          BY <3>1 DEF Dropped, AwaitsAnswer
        <5> HIDE DEF waits
        <5> QED BY <4>1, <5>1, <5>2
      <4> HIDE DEF stored, pair, walk, request
      <4>3. /\ Remembered \in [Pairs -> {Absent} \union [tenant : Tenants, answer : Answers]]
            /\ \A q \in Pairs : Remembered[q] \in {memo[q], Absent}
            /\ ~memoOld => Remembered = memo
        BY DEF Remembered, NoRequests, PermissionsTypeOK
      <4>4. /\ memo' \in [Pairs -> {Absent} \union [tenant : Tenants, answer : Answers]]
            /\ \A q \in Pairs : \/ memo'[q] \in {memo[q], Absent}
                                 \/ memo'[q].answer = Unknown
        BY <3>0, <4>1, <4>3 DEF Answers
      <4>a. /\ pair \in Pairs => memo'[pair] # Absent /\ memo'[pair].tenant \in Tenants
            /\ ~memoOld => \A q \in Pairs : memo[q] # Absent => memo'[q] = memo[q]
        <5>1. [tenant |-> tenant, answer |-> Unknown] # Absent
          BY <3>0, PermissionsAssumption DEF Unknown
        <5>2. pair \in Pairs => memo'[pair] # Absent
          BY <4>1, <4>3, <5>1
        <5>3. ~memoOld => \A q \in Pairs : memo[q] # Absent => memo'[q] = memo[q]
          BY <4>1, <4>3
        <5> QED BY <4>4, <5>2, <5>3
      <4>5. MemoInv'
        <5>1. Unknown # TRUE /\ Unknown # FALSE
          BY PermissionsAssumption DEF Unknown
        <5> QED BY <3>1, <4>4, <5>1 DEF MemoInv
      <4>6. /\ waits \in [pair : T, key : Tenants, request : T, late : BOOLEAN]
            /\ waits.key = tenant /\ waits.pair = pair /\ waits.request = request
        BY <3>0
      <4> HIDE DEF waits
      <4>7. /\ new.known = walk.known /\ new.tenants = walk.tenants \union {tenant}
            /\ new.failed = walk.failed /\ new.waits = waits
        BY <3>0 DEF Checks
      <4>8. new \in Checks(T)
        BY <3>0, <4>6 DEF Checks
      <4> HIDE DEF new
      <4>b. \A v \in DOMAIN walks : v # w => walks'[v] = Dropped(walks[v])
        BY <4>2
      <4>c. \A v \in DOMAIN walks :
              /\ Dropped(walks[v]).known = walks[v].known
              /\ Dropped(walks[v]).tenants = walks[v].tenants
              /\ Dropped(walks[v]).failed = walks[v].failed
              /\ Dropped(walks[v]).waits # Absent =>
                   /\ walks[v].waits # Absent
                   /\ Dropped(walks[v]).waits.key = walks[v].waits.key
                   /\ Dropped(walks[v]).waits.pair = walks[v].waits.pair
                   /\ Dropped(walks[v]).waits.request = walks[v].waits.request
                   /\ ~Dropped(walks[v]).waits.late => ~walks[v].waits.late /\ ~memoOld
        BY <2>b, DroppedFacts
      <4>9. walks' \in Seq(Checks(T)) /\ borrowed' \in [Tenants -> SUBSET T]
        <5> DEFINE others == [v \in DOMAIN walks |-> Dropped(walks[v])]
        <5>1. \A v \in DOMAIN walks : Dropped(walks[v]) \in Checks(S)
          BY <2>b, DroppedFacts
        <5>2. others \in Seq(Checks(S)) /\ DOMAIN others = DOMAIN walks
          BY <2>a, <5>1
        <5>3. others \in Seq(Checks(T)) /\ borrowed \in [Tenants -> SUBSET T]
          <6>1. S \subseteq T
            OBVIOUS
          <6> HIDE DEF T, others
          <6> QED BY <2>a, <5>2, <6>1, MoreChecks
        <5>4. walks' = [v \in DOMAIN others |-> IF v = w THEN new ELSE others[v]]
          BY <4>2, <5>2
        <5> HIDE DEF T, others
        <5>5. walks' \in Seq(Checks(T))
          BY <4>8, <5>2, <5>3, <5>4, OneReplaced
        <5> QED BY <3>1, <5>3, <5>5
      <4>10. PermissionsTypeOK'
        <5> HIDE DEF T
        <5> QED BY <3>0, <3>1, <4>4, <4>9 DEF PermissionsTypeOK
      <4>d. DOMAIN walks' = DOMAIN walks /\ walks'[w] = new
        BY <4>2
      <4>11. KnownInv'
        <5> SUFFICES ASSUME NEW v \in DOMAIN walks
                     PROVE  /\ walks'[v].waits # Absent => walks'[v].waits.key \in walks'[v].tenants
                            /\ \A q \in Pairs : Accounted(walks[v].known[q], q, walks[v].tenants,
                                                        walks[v].failed)'
          BY <4>d DEF KnownInv
        <5>1. \A q \in Pairs : Accounted(walk.known[q], q, walk.tenants, walk.failed)
          BY DEF KnownInv, walk
        <5>2. CASE v = w
          BY <3>1, <4>d, <4>6, <4>7, <5>1, <5>2 DEF Accounted
        <5>3. CASE v # w
          BY <3>1, <4>b, <4>c, <5>3 DEF KnownInv, Accounted
        <5> QED BY <5>2, <5>3
      <4>12. WaitsInv'
        <5> SUFFICES ASSUME NEW v \in DOMAIN walks PROVE Sent(walks[v].waits)'
          BY <4>d DEF WaitsInv
        <5>1. CASE v = w
          BY <4>a, <4>d, <4>6, <4>7, <5>1 DEF Sent, request
        <5>2. CASE v # w
          BY <4>a, <4>b, <4>c, <5>2 DEF WaitsInv, Sent
        <5> QED BY <5>1, <5>2
      <4> QED BY <3>1, <4>5, <4>10, <4>11, <4>12 DEF GrantsInv, AnswersInv, Accounted
    <3> QED BY <3>2, <3>3
  <2>3. ASSUME NEW w \in DOMAIN walks, NEW keep \in BOOLEAN, Answered(w, keep)
        PROVE  PermissionsInv'
    <3> DEFINE walk == walks[w]
               pair == walk.waits.pair
               key == walk.waits.key
               said == AnswerTo(walk.waits)
               new == [walk EXCEPT !.known[pair] = said, !.waits = Absent]
               T == S \union {pair}
    <3>1. /\ walk.waits # Absent /\ said # Unknown
          /\ walks' = [walks EXCEPT ![w].known[pair] = said, ![w].waits = Absent]
          /\ permissionCache' = IF keep THEN [permissionCache EXCEPT ![key][pair] = said]
                                ELSE permissionCache
          /\ borrowed' = IF key # walk.waits.request
                         THEN [borrowed EXCEPT ![key] = @ \union {pair}] ELSE borrowed
          /\ UNCHANGED <<tenant, granted, memo, memoOld, everGranted, neverRevoked>>
      BY <2>3 DEF Answered, KeptUnder, AwaitsAnswer
    <3>2. walks' = [v \in DOMAIN walks |-> IF v = w THEN new ELSE walks[v]]
      BY <3>1, <2>a
    <3>3. /\ walk \in Checks(S) /\ key \in walk.tenants /\ key \in Tenants /\ pair \in S
      BY <2>b, <3>1 DEF KnownInv, Checks
    <3>4. ASSUME NEW q \in Pairs, q = pair
          PROVE  /\ said \in Answers
                 /\ said = TRUE => q \in everGranted[walk.waits.request]
                 /\ said = FALSE => q \notin neverRevoked[walk.waits.request]
      <4>1. /\ walk.waits.request \in Tenants
            /\ ~walk.waits.late => memo[pair] # Absent /\ memo[pair].tenant = walk.waits.request
        BY <3>1, <3>4 DEF WaitsInv, Sent
      <4>2. CASE walk.waits.late
        <5>1. said = (q \in granted[walk.waits.request])
          BY <3>4, <4>2 DEF AnswerTo
        <5>2. (q \in granted[walk.waits.request]) \in BOOLEAN
          OBVIOUS
        <5> HIDE DEF said, walk, pair
        <5> QED BY <4>1, <5>1, <5>2 DEF GrantsInv, Answers
      <4>3. CASE ~walk.waits.late
        <5>1. said = memo[q].answer /\ memo[q] # Absent /\ memo[q].tenant = walk.waits.request
          BY <3>4, <4>1, <4>3 DEF AnswerTo
        <5> HIDE DEF said, walk, pair
        <5> QED BY <5>1 DEF PermissionsTypeOK, MemoInv
      <4> QED BY <4>2, <4>3
    <3>a. \A q \in Pairs : Accounted(walk.known[q], q, walk.tenants, walk.failed)
      BY DEF KnownInv
    <3> HIDE DEF walk, pair, key, said
    <3>5. /\ new.known \in [Pairs -> Answers] /\ new.tenants = walk.tenants
          /\ new.failed = walk.failed /\ new.waits = Absent /\ new.spec = walk.spec
          /\ \A q \in Pairs : new.known[q] = IF q = pair THEN said ELSE walk.known[q]
      BY <3>3, <3>4 DEF Checks
    <3>6. new \in Checks(S)
      BY <3>3, <3>5 DEF Checks
    <3>7. /\ borrowed' \in [Tenants -> SUBSET S]
          /\ \A t \in Tenants : borrowed[t] \subseteq borrowed'[t]
          /\ key # walk.waits.request => pair \in borrowed'[key]
      BY <2>a, <3>1, <3>3
    <3>8. \A q \in Pairs : q = pair =>
            /\ said = TRUE => q \in everGranted'[key] \/ q \in borrowed'[key]
            /\ said = FALSE => q \notin neverRevoked'[key] \/ q \in borrowed'[key]
      BY <3>1, <3>4, <3>7
    <3>9. \A q \in Pairs :
            /\ new.known[q] = TRUE =>
                 \E t \in new.tenants : q \in everGranted'[t] \/ q \in borrowed'[t]
            /\ new.known[q] = FALSE => new.failed \/
                 \E t \in new.tenants : q \notin neverRevoked'[t] \/ q \in borrowed'[t]
      <4>1. walk.tenants \subseteq Tenants
        BY <3>3 DEF Checks
      <4>2. ASSUME NEW q \in Pairs, q = pair
            PROVE  /\ new.known[q] = TRUE =>
                        \E t \in new.tenants : q \in everGranted'[t] \/ q \in borrowed'[t]
                   /\ new.known[q] = FALSE =>
                        \E t \in new.tenants : q \notin neverRevoked'[t] \/ q \in borrowed'[t]
        <5> HIDE DEF new
        <5> QED BY <3>3, <3>5, <3>8, <4>2
      <4>3. ASSUME NEW q \in Pairs, q # pair
            PROVE  /\ new.known[q] = TRUE =>
                        \E t \in new.tenants : q \in everGranted'[t] \/ q \in borrowed'[t]
                   /\ new.known[q] = FALSE => new.failed \/
                        \E t \in new.tenants : q \notin neverRevoked'[t] \/ q \in borrowed'[t]
        <5> HIDE DEF new
        <5> QED BY <3>1, <3>5, <3>7, <3>a, <4>1, <4>3 DEF Accounted
      <4> QED BY <4>2, <4>3
    <3> HIDE DEF new
    <3>10. KnownInv'
      <4> SUFFICES ASSUME NEW v \in DOMAIN walks
                   PROVE  /\ walks'[v].waits # Absent => walks'[v].waits.key \in walks'[v].tenants
                          /\ \A q \in Pairs : Accounted(walks[v].known[q], q, walks[v].tenants,
                                                      walks[v].failed)'
        BY <3>2 DEF KnownInv
      <4>1. CASE v = w
        BY <3>2, <3>5, <3>9, <4>1 DEF Accounted
      <4>2. CASE v # w
        <5>1. walks[v].tenants \subseteq Tenants
          BY <2>b DEF Checks
        <5>2. walks'[v] = walks[v]
          BY <3>2, <4>2
        <5>3. /\ walks[v].waits # Absent => walks[v].waits.key \in walks[v].tenants
              /\ \A q \in Pairs : Accounted(walks[v].known[q], q, walks[v].tenants, walks[v].failed)
          BY DEF KnownInv
        <5>4. everGranted' = everGranted /\ neverRevoked' = neverRevoked
          BY <3>1
        <5> QED BY <3>7, <5>1, <5>2, <5>3, <5>4 DEF Accounted
      <4> QED BY <4>1, <4>2
    <3>11. /\ permissionCache' \in [Tenants -> [Pairs -> Answers]]
           /\ \A t \in Tenants, q \in Pairs :
                \/ permissionCache'[t][q] = permissionCache[t][q]
                \/ t = key /\ q = pair /\ permissionCache'[t][q] = said
      <4>1. CASE keep
        <5> DEFINE kept == [permissionCache[key] EXCEPT ![pair] = said]
        <5>1. permissionCache[key] \in [Pairs -> Answers]
          BY <3>3 DEF PermissionsTypeOK
        <5>2. /\ kept \in [Pairs -> Answers]
              /\ \A q \in Pairs : kept[q] = IF q = pair THEN said ELSE permissionCache[key][q]
          BY <3>4, <5>1
        <5>3. permissionCache' = [permissionCache EXCEPT ![key] = kept]
          BY <3>1, <4>1
        <5> HIDE DEF kept
        <5> QED BY <3>3, <5>2, <5>3 DEF PermissionsTypeOK
      <4>2. CASE ~keep
        BY <3>1, <4>2 DEF PermissionsTypeOK
      <4> QED BY <4>1, <4>2
    <3>12. AnswersInv'
      <4> SUFFICES ASSUME NEW t \in Tenants, NEW q \in Pairs
                   PROVE  Accounted(permissionCache[t][q], q, {t}, FALSE)'
        BY DEF AnswersInv
      <4>1. CASE permissionCache'[t][q] = permissionCache[t][q]
        <5>1. Accounted(permissionCache[t][q], q, {t}, FALSE)
          BY DEF AnswersInv
        <5> QED BY <3>1, <3>7, <4>1, <5>1 DEF Accounted
      <4>2. CASE t = key /\ q = pair /\ permissionCache'[t][q] = said
        BY <3>8, <4>2 DEF Accounted
      <4> QED BY <3>11, <4>1, <4>2
    <3>13. walks' \in Seq(Checks(S))
      BY <2>a, <3>2, <3>6, OneReplaced
    <3>14. PermissionsTypeOK'
      BY <3>1, <3>7, <3>11, <3>13 DEF PermissionsTypeOK
    <3>15. WaitsInv'
      <4>1. \A v \in DOMAIN walks : walks'[v].waits = Absent \/ walks'[v] = walks[v]
        BY <3>2, <3>5
      <4> QED BY <3>1, <3>2, <4>1 DEF WaitsInv, Sent
    <3> QED BY <3>1, <3>10, <3>12, <3>14, <3>15 DEF GrantsInv, MemoInv
  <2>4. CASE \E w \in DOMAIN walks : AnsweredAndKept(w) \/ AnsweredStorageFull(w)
    BY <2>3, <2>4 DEF AnsweredAndKept, AnsweredStorageFull
  <2>c. ASSUME UNCHANGED <<everGranted, neverRevoked, borrowed>>, NEW v \in DOMAIN walks,
               walks'[v] \in {walks[v], Refused(walks[v])}
        PROVE  /\ walks'[v].waits # Absent => walks'[v].waits.key \in walks'[v].tenants
               /\ \A q \in Pairs : Accounted(walks[v].known[q], q, walks[v].tenants,
                                           walks[v].failed)'
    <3>1. CASE walks'[v] = walks[v]
      BY <2>c, <3>1 DEF KnownInv, Accounted
    <3>2. CASE walks'[v] = Refused(walks[v])
      <4>1. /\ Refused(walks[v]).tenants = walks[v].tenants
            /\ Refused(walks[v]).waits = Absent /\ Refused(walks[v]).failed = TRUE
            /\ \A q \in Pairs : Refused(walks[v]).known[q] \in {walks[v].known[q], FALSE}
        BY <2>b, RefusedFacts
      <4>2. ASSUME NEW q \in Pairs
            PROVE  Refused(walks[v]).known[q] = TRUE =>
                     \E t \in walks[v].tenants : q \in everGranted[t] \/ q \in borrowed[t]
        BY <4>1 DEF KnownInv, Accounted
      <4> QED BY <2>c, <3>2, <4>1, <4>2 DEF Accounted
    <3> QED BY <2>c, <3>1, <3>2
  <2>7. ASSUME NEW p \in Pairs, RequestFails(p) PROVE PermissionsInv'
    <3> DEFINE Fails(w) == AwaitsAnswer(walks[w]) /\ ~walks[w].waits.late /\ walks[w].waits.pair = p
    <3>1. /\ memo' = [memo EXCEPT ![p] = Absent]
          /\ walks' = [w \in DOMAIN walks |-> IF Fails(w) THEN Refused(walks[w]) ELSE walks[w]]
          /\ UNCHANGED <<tenant, granted, memoOld, permissionCache, everGranted, neverRevoked, borrowed>>
      BY <2>7 DEF RequestFails
    <3>2. /\ DOMAIN walks' = DOMAIN walks /\ walks' \in Seq(Checks(S))
          /\ \A w \in DOMAIN walks : walks'[w] \in {walks[w], Refused(walks[w])}
          /\ \A w \in DOMAIN walks : ~Fails(w) => walks'[w] = walks[w]
          /\ \A w \in DOMAIN walks : Fails(w) => walks'[w].waits = Absent
      <4>1. \A w \in DOMAIN walks : /\ walks[w] \in Checks(S) /\ Refused(walks[w]) \in Checks(S)
                                   /\ Refused(walks[w]).waits = Absent
        BY <2>b, RefusedFacts
      <4> HIDE DEF Fails
      <4> QED BY <2>a, <3>1, <4>1
    <3>3. KnownInv'
      BY <2>c, <3>1, <3>2 DEF KnownInv
    <3>4. MemoInv' /\ memo' \in [Pairs -> {Absent} \union [tenant : Tenants, answer : Answers]]
      BY <3>1 DEF MemoInv, PermissionsTypeOK
    <3>5. WaitsInv'
      <4> SUFFICES ASSUME NEW w \in DOMAIN walks PROVE Sent(walks[w].waits)'
        BY <3>2 DEF WaitsInv
      <4>1. CASE Fails(w)
        BY <3>2, <4>1 DEF Sent
      <4>2. CASE ~Fails(w)
        <5>1. walks'[w] = walks[w] /\ Sent(walks[w].waits)
          BY <3>2, <4>2 DEF WaitsInv
        <5>2. \A q \in Pairs : q # p => memo'[q] = memo[q]
          BY <3>1 DEF PermissionsTypeOK
        <5> QED BY <4>2, <5>1, <5>2 DEF Sent, AwaitsAnswer
      <4> QED BY <4>1, <4>2
    <3>6. PermissionsTypeOK'
      BY <2>a, <3>1, <3>2, <3>4 DEF PermissionsTypeOK
    <3> QED BY <3>1, <3>3, <3>4, <3>5, <3>6 DEF GrantsInv, AnswersInv, Accounted
  <2>14. ASSUME NEW w \in DOMAIN walks, DroppedRequestFails(w) PROVE PermissionsInv'
    <3>1. /\ walks' = [walks EXCEPT ![w] = Refused(walks[w])]
          /\ UNCHANGED <<tenant, granted, memo, memoOld, permissionCache, everGranted, neverRevoked,
                         borrowed>>
      BY <2>14 DEF DroppedRequestFails
    <3>2. Refused(walks[w]) \in Checks(S) /\ Refused(walks[w]).waits = Absent
      BY <2>b, RefusedFacts
    <3>3. /\ DOMAIN walks' = DOMAIN walks /\ walks' \in Seq(Checks(S))
          /\ \A v \in DOMAIN walks : walks'[v] \in {walks[v], Refused(walks[v])}
          /\ \A v \in DOMAIN walks : walks'[v].waits = Absent \/ walks'[v] = walks[v]
      BY <2>a, <3>1, <3>2
    <3>4. KnownInv'
      BY <2>c, <3>1, <3>3 DEF KnownInv
    <3>5. WaitsInv'
      BY <3>1, <3>3 DEF WaitsInv, Sent
    <3>6. PermissionsTypeOK'
      BY <2>a, <3>1, <3>3 DEF PermissionsTypeOK
    <3> QED BY <3>1, <3>4, <3>5, <3>6 DEF GrantsInv, MemoInv, AnswersInv, Accounted
  <2>5. ASSUME NEW w \in DOMAIN walks, WalkOver(w) PROVE PermissionsInv'
    <3>1. /\ walks' = RemoveAt(walks, w)
          /\ UNCHANGED <<tenant, granted, memo, memoOld, permissionCache, everGranted, neverRevoked,
                         borrowed>>
      BY <2>5 DEF WalkOver
    <3>2. /\ walks' \in Seq(Checks(S))
          /\ \A j \in DOMAIN walks' : \E k \in DOMAIN walks : walks'[j] = walks[k]
      BY <2>a, <3>1, RemoveAtKeeps
    <3>3. PermissionsTypeOK'
      BY <2>a, <3>1, <3>2 DEF PermissionsTypeOK
    <3>4. KnownInv'
      BY <3>1, <3>2 DEF KnownInv, Accounted
    <3>5. WaitsInv'
      BY <3>1, <3>2 DEF WaitsInv, Sent
    <3> QED BY <3>1, <3>3, <3>4, <3>5 DEF GrantsInv, MemoInv, AnswersInv, Accounted
  <2>6. ASSUME NEW p \in Pairs, EngineAnswers(p) PROVE PermissionsInv'
    <3> DEFINE said == p \in granted[memo[p].tenant]
    <3>1. /\ memo' = [memo EXCEPT ![p].answer = said] /\ memo[p] # Absent
          /\ UNCHANGED <<tenant, granted, memoOld, permissionCache, walks, everGranted, neverRevoked,
                         borrowed>>
      BY <2>6 DEF EngineAnswers
    <3>2. memo[p] \in [tenant : Tenants, answer : Answers]
      BY <3>1 DEF PermissionsTypeOK
    <3>3. /\ said \in BOOLEAN
          /\ said = TRUE => p \in everGranted[memo[p].tenant]
          /\ said = FALSE => p \notin neverRevoked[memo[p].tenant]
      BY <3>2 DEF GrantsInv
    <3> HIDE DEF said
    <3>4. /\ \A q \in Pairs : q # p => memo'[q] = memo[q]
          /\ memo'[p].answer = said /\ memo'[p].tenant = memo[p].tenant
          /\ memo'[p] \in [tenant : Tenants, answer : Answers]
      BY <3>1, <3>2, <3>3 DEF PermissionsTypeOK, Answers
    <3>5. memo' \in [Pairs -> {Absent} \union [tenant : Tenants, answer : Answers]]
      BY <3>1, <3>4 DEF PermissionsTypeOK
    <3>6. PermissionsTypeOK'
      BY <2>a, <3>1, <3>5 DEF PermissionsTypeOK
    <3>7. MemoInv'
      BY <3>1, <3>3, <3>4 DEF MemoInv
    <3>8. WaitsInv'
      <4>1. memo'[p] # Absent
        BY <3>4, PermissionsAssumption DEF Answers, Unknown
      <4> QED BY <3>1, <3>2, <3>4, <4>1 DEF WaitsInv, Sent
    <3> QED BY <3>1, <3>6, <3>7, <3>8 DEF GrantsInv, AnswersInv, KnownInv, Accounted
  <2>8. ASSUME NEW t \in Tenants, NEW p \in Pairs, AdminChanges(t, p) PROVE PermissionsInv'
    <3>1. UNCHANGED <<tenant, memo, memoOld, permissionCache, walks, borrowed>>
      BY <2>8 DEF AdminChanges
    <3>2. /\ granted' \in [Tenants -> SUBSET Pairs]
          /\ everGranted' = [everGranted EXCEPT ![t] = @ \union granted'[t]]
          /\ neverRevoked' = [neverRevoked EXCEPT ![t] = @ \intersect granted'[t]]
          /\ \A u \in Tenants : u # t => granted'[u] = granted[u]
      BY <2>8 DEF AdminChanges, PermissionsTypeOK
    <3>3. /\ everGranted' \in [Tenants -> SUBSET Pairs] /\ neverRevoked' \in [Tenants -> SUBSET Pairs]
          /\ \A u \in Tenants : /\ everGranted[u] \subseteq everGranted'[u]
                                /\ neverRevoked'[u] \subseteq neverRevoked[u]
      BY <3>2 DEF PermissionsTypeOK
    <3>4. GrantsInv'
      BY <3>2 DEF GrantsInv, PermissionsTypeOK
    <3>5. PermissionsTypeOK'
      BY <2>a, <3>1, <3>2, <3>3 DEF PermissionsTypeOK
    <3>6. ASSUME NEW said, NEW q, NEW ts \in SUBSET Tenants, NEW failed, Accounted(said, q, ts, failed)
          PROVE  Accounted(said, q, ts, failed)'
      BY <3>1, <3>3, <3>6 DEF Accounted
    <3>7. AnswersInv'
      BY <3>1, <3>3 DEF AnswersInv, Accounted
    <3>8. MemoInv'
      <4>1. \A q \in Pairs : memo[q] # Absent => memo[q].tenant \in Tenants
        BY DEF PermissionsTypeOK
      <4> QED BY <3>1, <3>3, <4>1 DEF MemoInv
    <3>9. KnownInv'
      <4>1. \A w \in DOMAIN walks : walks[w].tenants \subseteq Tenants
        BY <2>b DEF Checks
      <4> QED BY <3>1, <3>3, <4>1 DEF KnownInv, Accounted
    <3>10. WaitsInv'
      BY <3>1 DEF WaitsInv, Sent
    <3> QED BY <3>4, <3>5, <3>7, <3>8, <3>9, <3>10
  <2>9. CASE MemoAges
    BY <2>9 DEF MemoAges, PermissionsTypeOK, GrantsInv, MemoInv, AnswersInv, KnownInv, WaitsInv, Sent,
       Accounted
  <2>10. CASE DayPasses
    <3>1. /\ memo' = [p \in Pairs |-> Absent] /\ walks = <<>> /\ UNCHANGED <<tenant, granted, walks>>
          /\ permissionCache' = [t \in Tenants |-> [p \in Pairs |-> Absent]]
          /\ everGranted' = granted /\ neverRevoked' = granted /\ borrowed' = [t \in Tenants |-> {}]
      BY <2>10 DEF DayPasses, NoRequests, NoAnswers, Unknown
    <3>2. walks' \in Seq(Checks(S)) /\ borrowed' \in [Tenants -> SUBSET S]
      BY <2>a, <3>1
    <3>3. PermissionsTypeOK'
      BY <3>1, <3>2 DEF PermissionsTypeOK, Answers, Unknown
    <3>4. GrantsInv' /\ MemoInv' /\ KnownInv' /\ WaitsInv'
      BY <3>1 DEF GrantsInv, MemoInv, KnownInv, WaitsInv
    <3>5. AnswersInv'
      <4>1. \A t \in Tenants, p \in Pairs : permissionCache'[t][p] = Absent
        BY <3>1
      <4>2. Absent # TRUE /\ Absent # FALSE
        BY PermissionsAssumption
      <4> QED BY <4>1, <4>2, Zenon DEF AnswersInv, Accounted
    <3> QED BY <3>3, <3>4, <3>5
  <2>11. ASSUME NEW t \in Tenants, SelectTenant(t) PROVE PermissionsInv'
    BY <2>11 DEF SelectTenant, PermissionsTypeOK, GrantsInv, MemoInv, AnswersInv, KnownInv, WaitsInv, Sent,
       Accounted
  <2>12. CASE ReloadApplication
    <3>1. /\ memo' = [p \in Pairs |-> Absent] /\ walks' = <<>>
          /\ UNCHANGED <<tenant, granted, permissionCache, everGranted, neverRevoked, borrowed>>
      BY <2>12 DEF ReloadApplication, NoRequests
    <3>2. walks' \in Seq(Checks(S)) /\ borrowed' \in [Tenants -> SUBSET S]
      BY <2>a, <3>1
    <3>3. PermissionsTypeOK'
      BY <3>1, <3>2 DEF PermissionsTypeOK
    <3> QED BY <3>1, <3>3 DEF GrantsInv, MemoInv, AnswersInv, KnownInv, WaitsInv, Accounted
  <2>13. CASE UNCHANGED permissionVars
    BY <2>13 DEF permissionVars, PermissionsTypeOK, GrantsInv, MemoInv, AnswersInv, KnownInv, WaitsInv, Sent,
       Accounted
  <2> QED
    BY <2>1, <2>2, <2>4, <2>5, <2>6, <2>7, <2>8, <2>9, <2>10, <2>11, <2>12, <2>13, <2>14 DEF PermissionsNext
<1> QED BY <1>1, <1>2, AllMachinesStart, OneMachineMoves, PTL DEF Spec, serviceVars

\* Whatever a permission check answers is accounted for by what was granted
\* that day to the tenants it was made under, or by an answer another tenant
\* had in the two seconds of the memo (AuthorizationHttpService.checkSync).
THEOREM PermissionsAreAccountedFor == Spec => []PermissionsAccountedFor
BY PermissionsInvariant, AccountedFor, PTL

-----------------------------------------------------------------------------
(***************************************************************************)
(* For any rows and any number of actions, selections, reloads and         *)
(* failures: what the toasts of an action on selected rows tell, that its  *)
(* changes get shown, and that the spinner ends.                           *)
(*                                                                         *)
(* RunFits follows the requests of one action from the queue over the      *)
(* engine to the answers: while it runs they are about the rows the dialog *)
(* listed, all of them, and when it has told its success none is left.     *)
(* ShownInv says what every change that is not shown yet still waits for:  *)
(* the end of its own action, the delay, the last load, or, where that     *)
(* failed, a load sent after the one that failed.                          *)
(***************************************************************************)

Loads == [read : BOOLEAN, missing : SUBSET Items, old : BOOLEAN]
RequestSets == SUBSET (SUBSET Items)
Runs == [kind : Kinds, asked : [rows : SUBSET Items, reloadedUnder : BOOLEAN],
         queue : RequestSets, inflight : RequestSets, performed : RequestSets,
         answered : RequestSets, failed : RequestSets,
         told : {"running", "replaced", "success", "submitted", "both", "error"}]

BulkTypeOK ==
  /\ selectedRows \in SUBSET Items /\ asking \in Dialogs \union {Absent}
  /\ runs \in Seq(Runs) /\ callbacks \in Nat /\ lists \in Seq(Loads)
  /\ isLoading \in BOOLEAN /\ dataShown \in BOOLEAN /\ listFailed \in BOOLEAN
  /\ unshown \in SUBSET Items /\ abandoned \in SUBSET Items /\ overtaken \in SUBSET Items
  /\ reloadedUnder \in BOOLEAN

\* The dialog shows the selection, unless the rows were replaced under it
DialogRowsInv == asking # Absent /\ ~reloadedUnder => selectedRows = asking.rows

SentRequests(x) == x.inflight \union x.answered \union x.failed
\* The failed jobs tab, where the rows were replaced under its dialog
Excused(x) == x.kind = "deleteJobs" /\ x.asked.reloadedUnder

RunFits(x) ==
  /\ x.answered \subseteq x.performed
  /\ x.told = "running" =>
       /\ x.inflight # {} /\ x.performed \subseteq SentRequests(x)
       /\ Excused(x) \/ Rows(x.queue \union SentRequests(x)) = x.asked.rows
  /\ x.told \in {"success", "submitted"} =>
       /\ x.inflight = {}
       /\ \/ Excused(x) \/ Rows(x.performed) = x.asked.rows
          \/ x.kind = "retryBatches" /\ x.failed # {}
  /\ x.told \in {"error", "both"} => x.failed # {}
  /\ x.told = "both" => x.answered # {}

RunsInv == \A r \in DOMAIN runs : RunFits(runs[r])

SpinnerInv ==
  isLoading => \/ lists # <<>> \/ listFailed
               \/ /\ Page = "batchList"
                  /\ asking # Absent \/ callbacks > 0 \/ \E r \in DOMAIN runs : Running(r)

\* What a change that is not shown waits for
Awaited(i) ==
  \/ \E r \in DOMAIN runs : Running(r) /\ i \in Rows(runs[r].performed)
  \/ callbacks > 0
  \/ lists # <<>> /\ i \notin lists[Len(lists)].missing
  \/ listFailed /\ \A k \in DOMAIN lists : i \in lists[k].missing => lists[k].old

ShownInv == \A i \in unshown \ (abandoned \union overtaken) : Awaited(i)

BulkInv == BulkTypeOK /\ DialogRowsInv /\ RunsInv /\ SpinnerInv /\ ShownInv

-----------------------------------------------------------------------------
\* The requests of an action are about its rows (Requests).
LEMMA RequestsFacts ==
  ASSUME NEW kind, NEW rs \in SUBSET Items
  PROVE  Requests(kind, rs) \in RequestSets /\ Rows(Requests(kind, rs)) = rs
<1>1. CASE kind \in {"instances", "jobRetries", "request"}
  BY <1>1 DEF Requests, RequestSets, Rows
<1>2. CASE kind \notin {"instances", "jobRetries", "request"}
  BY <1>2 DEF Requests, RequestSets, Rows
<1> QED BY <1>1, <1>2

\* A run that is new has sent something, unless there is nothing to send.
LEMMA NewRunFacts ==
  ASSUME NEW kind \in Kinds, NEW asked \in [rows : SUBSET Items, reloadedUnder : BOOLEAN],
         NEW rs \in SUBSET Items, NEW run \in NewRuns(kind, asked, rs)
  PROVE  /\ run \in Runs /\ run.told = "running" /\ run.kind = kind /\ run.asked = asked
         /\ run.queue \union run.inflight = Requests(kind, rs)
         /\ run.performed = {} /\ run.answered = {} /\ run.failed = {}
         /\ run.inflight = {} => rs = {} /\ run.queue = {}
<1> DEFINE requests == Requests(kind, rs)
<1>1. requests \in RequestSets /\ Rows(requests) = rs
  BY RequestsFacts
<1> HIDE DEF requests
<1>2. PICK sent \in SUBSET requests :
        /\ sent = requests \/ Cardinality(sent) = Limit(kind)
        /\ run = [kind |-> kind, asked |-> asked, queue |-> requests \ sent, inflight |-> sent,
                  performed |-> {}, answered |-> {}, failed |-> {}, told |-> "running"]
  BY DEF NewRuns, requests
<1>3. sent \in RequestSets /\ requests \ sent \in RequestSets /\ {} \in RequestSets
  BY <1>1, <1>2 DEF RequestSets
<1>4. run \in Runs
  BY <1>2, <1>3 DEF Runs
<1>5. sent = {} => requests = {}
  <2>1. Limit(kind) # 0
    <3>1. Cardinality(Items) # 0
      BY BulkActionsAssumption, FS_EmptySet
    <3> QED BY <3>1 DEF Limit, SuspendLimit, Unlimited
  <2>2. Cardinality({}) = 0
    BY FS_EmptySet
  <2> QED BY <1>2, <2>1, <2>2
<1>6. requests = {} => rs = {}
  BY <1>1 DEF Rows
<1> QED BY <1>2, <1>4, <1>5, <1>6 DEF requests

\* LoadData asks for a list that misses nothing.
LEMMA LoadFacts ==
  ASSUME BulkTypeOK, LoadData
  PROVE  /\ lists' \in Seq(Loads) /\ lists' # <<>> /\ isLoading' = TRUE
         /\ lists'[Len(lists')].missing = {}
         /\ selectedRows' \in {selectedRows, {}} /\ selectedRows' \in SUBSET Items
         /\ dataShown' \in BOOLEAN
<1> DEFINE before == IF Page \in CancellingPages THEN <<>> ELSE lists
           load == [read |-> FALSE, missing |-> {}, old |-> FALSE]
<1>1. lists' = Append(before, load) /\ isLoading' = TRUE
  BY DEF LoadData
<1>2. load \in Loads /\ load.missing = {}
  BY DEF Loads
<1>3. before \in Seq(Loads)
  <2>1. <<>> \in Seq(Loads)
    OBVIOUS
  <2> QED BY <2>1 DEF BulkTypeOK
<1> HIDE DEF before, load
<1>4. lists' \in Seq(Loads) /\ Len(lists') = Len(before) + 1 /\ lists'[Len(before) + 1] = load
  BY <1>1, <1>2, <1>3
<1>5. lists' # <<>>
  BY <1>3, <1>4
<1>6. /\ selectedRows' \in {selectedRows, {}} /\ selectedRows' \in SUBSET Items
      /\ dataShown' \in BOOLEAN
  BY DEF LoadData, BulkTypeOK
<1> QED BY <1>1, <1>2, <1>4, <1>5, <1>6

\* After it, every change is waited for, and so is the spinner.
LEMMA LoadAwaits ==
  ASSUME BulkTypeOK, LoadData
  PROVE  ShownInv' /\ SpinnerInv'
<1>1. lists' # <<>> /\ lists'[Len(lists')].missing = {}
  BY LoadFacts
<1> QED BY <1>1 DEF ShownInv, Awaited, SpinnerInv

\* The part of Begin that an action starts with.
Starts(kind, asked, rs) ==
  /\ Begin(kind, asked, rs)
  /\ UNCHANGED <<callbacks, listFailed, unshown, overtaken>>

\* An action that starts keeps the invariant: the run it ends, if any, gives
\* its changes up (Begin).
LEMMA BeginInv ==
  ASSUME BulkInv, part' = part, NEW kind \in Kinds, NEW rs \in SUBSET Items,
         NEW asked \in [rows : SUBSET Items, reloadedUnder : BOOLEAN], Starts(kind, asked, rs),
         asked.rows = rs \/ (kind = "deleteJobs" /\ asked.reloadedUnder)
  PROVE  /\ runs' \in Seq(Runs) /\ lists' \in Seq(Loads) /\ isLoading' \in BOOLEAN
         /\ dataShown' \in BOOLEAN /\ selectedRows' \in SUBSET Items /\ abandoned' \in SUBSET Items
         /\ RunsInv' /\ SpinnerInv' /\ ShownInv'
<1> USE DEF BulkInv
<1> DEFINE before == [k \in DOMAIN runs |-> Replaced(runs[k])]
           ended == {k \in DOMAIN runs : before[k] # runs[k]}
<1>1. PICK run \in NewRuns(kind, asked, rs) :
        /\ abandoned' = abandoned \union (unshown \intersect UNION {Rows(runs[k].performed) : k \in ended})
        /\ \/ run.inflight = {} /\ runs' = Append(before, [run EXCEPT !.told = "success"]) /\ LoadData
           \/ run.inflight # {} /\ runs' = Append(before, run) /\ NoLoad
  BY DEF Starts, Begin
<1>2. /\ run \in Runs /\ run.told = "running" /\ run.kind = kind /\ run.asked = asked
      /\ run.queue \union run.inflight = Requests(kind, rs)
      /\ run.performed = {} /\ run.answered = {} /\ run.failed = {}
      /\ run.inflight = {} => rs = {} /\ run.queue = {}
  BY NewRunFacts
<1>3. UNCHANGED <<callbacks, listFailed, unshown, overtaken>>
  BY DEF Starts
<1>4. \A r \in DOMAIN runs : runs[r] \in Runs /\ RunFits(runs[r])
  BY DEF BulkTypeOK, RunsInv
<1>5. ASSUME NEW r \in DOMAIN runs
      PROVE  /\ before[r] \in Runs /\ RunFits(before[r]) /\ before[r].performed = runs[r].performed
             /\ \/ r \in ended
                \/ before[r] = runs[r]
  <2>1. CASE Page = "failedJobs" /\ runs[r].told = "running"
    <3>1. before[r] = [runs[r] EXCEPT !.told = "replaced", !.queue = {}]
      BY <2>1 DEF Replaced
    <3>2. r \in ended
      BY <1>4, <2>1, <3>1 DEF Runs
    <3>3. {} \in RequestSets
      BY DEF RequestSets
    <3>4. /\ before[r] \in Runs /\ before[r].told = "replaced"
          /\ before[r].performed = runs[r].performed /\ before[r].answered = runs[r].answered
      <4> HIDE DEF before, ended
      <4> QED BY <1>4, <3>1, <3>3 DEF Runs
    <3> HIDE DEF before, ended
    <3> QED BY <1>4, <3>2, <3>4 DEF RunFits
  <2>2. CASE ~(Page = "failedJobs" /\ runs[r].told = "running")
    <3>1. before[r] = runs[r]
      BY <2>2 DEF Replaced
    <3> QED BY <1>4, <3>1
  <2> QED BY <2>1, <2>2
<1>6. before \in Seq(Runs) /\ DOMAIN before = DOMAIN runs
  BY <1>5 DEF BulkTypeOK
<1> HIDE DEF before, ended
<1>7. abandoned' \in SUBSET Items
  BY <1>1 DEF BulkTypeOK
<1>8. Rows(Requests(kind, rs)) = rs
  BY RequestsFacts
<1>9. CASE run.inflight = {}
  <2> DEFINE done == [run EXCEPT !.told = "success"]
  <2>1. runs' = Append(before, done) /\ LoadData
    BY <1>1, <1>9
  <2>2. /\ done \in Runs /\ done.told = "success" /\ done.kind = kind /\ done.asked = asked
        /\ done.inflight = {} /\ done.performed = {} /\ done.answered = {}
    BY <1>2, <1>9 DEF Runs
  <2>3. RunFits(done)
    <3>1. Rows(done.performed) = {}
      BY <2>2 DEF Rows
    <3> HIDE DEF done
    <3> QED BY <1>2, <1>9, <2>2, <3>1 DEF RunFits, Excused
  <2> HIDE DEF done
  <2>4. /\ runs' \in Seq(Runs)
        /\ \A r \in DOMAIN runs' : (r \in DOMAIN before /\ runs'[r] = before[r]) \/ runs'[r] = done
    BY <1>6, <2>1, <2>2
  <2>5. RunsInv'
    <3> SUFFICES ASSUME NEW r \in DOMAIN runs' PROVE RunFits(runs'[r])
      BY DEF RunsInv
    <3> QED BY <1>5, <1>6, <2>3, <2>4
  <2> QED BY <1>7, <2>1, <2>4, <2>5, LoadFacts, LoadAwaits
<1>10. CASE run.inflight # {}
  <2>1. runs' = Append(before, run) /\ UNCHANGED <<lists, isLoading, dataShown, selectedRows>>
    BY <1>1, <1>10 DEF NoLoad
  <2>2. RunFits(run)
    <3>1. run.queue \union SentRequests(run) = Requests(kind, rs)
      BY <1>2 DEF SentRequests
    <3> QED BY <1>2, <1>8, <1>10, <3>1 DEF RunFits, Excused
  <2>3. /\ runs' \in Seq(Runs) /\ Len(runs') = Len(before) + 1 /\ runs'[Len(runs')] = run
        /\ DOMAIN before \subseteq DOMAIN runs' /\ Len(runs') \in DOMAIN runs'
        /\ \A r \in DOMAIN before : runs'[r] = before[r]
        /\ \A r \in DOMAIN runs' : (r \in DOMAIN before /\ runs'[r] = before[r]) \/ runs'[r] = run
    BY <1>2, <1>6, <2>1
  <2>4. RunsInv'
    <3> SUFFICES ASSUME NEW r \in DOMAIN runs' PROVE RunFits(runs'[r])
      BY DEF RunsInv
    <3> QED BY <1>5, <1>6, <2>2, <2>3
  <2>5. SpinnerInv'
    <3>1. runs'[Len(runs')].told = "running"
      BY <1>2, <2>3
    <3>2. \E r \in DOMAIN runs' : runs'[r].told = "running"
      BY <2>3, <3>1
    <3> QED BY <1>3, <2>1, <3>2 DEF SpinnerInv, Running, Page
  <2>6. ShownInv'
    <3> SUFFICES ASSUME NEW i \in unshown, i \notin abandoned', i \notin overtaken
                 PROVE  Awaited(i)'
      BY <1>3 DEF ShownInv
    <3>1. Awaited(i) /\ i \notin abandoned
      BY <1>1 DEF ShownInv
    <3>2. ASSUME NEW r \in DOMAIN runs, Running(r), i \in Rows(runs[r].performed)
          PROVE  Running(r)' /\ i \in Rows(runs'[r].performed) /\ r \in DOMAIN runs'
      <4>1. r \notin ended
        BY <1>1, <3>2
      <4> QED BY <1>5, <1>6, <2>3, <3>2, <4>1 DEF Running
    <3> QED BY <1>3, <2>1, <3>1, <3>2 DEF Awaited
  <2> QED BY <1>7, <2>1, <2>3, <2>4, <2>5, <2>6 DEF BulkTypeOK
<1> QED BY <1>9, <1>10

-----------------------------------------------------------------------------
\* An answer moves a run from its queue to its end, and what it tells at the
\* end fits what it did (After, Outcome).
LEMMA AfterFacts ==
  ASSUME NEW x \in Runs, RunFits(x), x.told = "running", NEW q \in x.inflight, NEW ok \in BOOLEAN,
         ok => q \in x.performed, NEW next \in Waiting(x)
  PROVE  /\ After(x, q, ok, next) \in Runs /\ RunFits(After(x, q, ok, next))
         /\ After(x, q, ok, next).performed = x.performed
<1> DEFINE noted == [x EXCEPT !.inflight = @ \ {q},
                              !.answered = IF ok THEN @ \union {q} ELSE @,
                              !.failed = IF ok THEN @ ELSE @ \union {q}]
           moved == [noted EXCEPT !.inflight = @ \union next, !.queue = @ \ next]
           ended == [noted EXCEPT !.queue = {}, !.told = Outcome(noted)]
           last == [moved EXCEPT !.told = Outcome(moved)]
<1>1. /\ x.queue \in RequestSets /\ x.inflight \in RequestSets /\ x.performed \in RequestSets
      /\ x.answered \in RequestSets /\ x.failed \in RequestSets /\ x.told = "running"
      /\ x.kind \in Kinds /\ x.asked \in [rows : SUBSET Items, reloadedUnder : BOOLEAN]
  BY DEF Runs
<1>2. next \subseteq x.queue /\ (next = {} => x.queue = {})
  BY DEF Waiting
<1>3. /\ noted \in Runs /\ noted.kind = x.kind /\ noted.asked = x.asked /\ noted.queue = x.queue
      /\ noted.inflight = x.inflight \ {q} /\ noted.performed = x.performed
      /\ noted.answered = (IF ok THEN x.answered \union {q} ELSE x.answered)
      /\ noted.failed = (IF ok THEN x.failed ELSE x.failed \union {q})
      /\ noted.told = "running"
  <2>1. /\ x.inflight \ {q} \in RequestSets
        /\ (IF ok THEN x.answered \union {q} ELSE x.answered) \in RequestSets
        /\ (IF ok THEN x.failed ELSE x.failed \union {q}) \in RequestSets
    BY <1>1 DEF RequestSets
  <2> QED BY <1>1, <2>1 DEF Runs
<1>4. /\ moved \in Runs /\ moved.kind = x.kind /\ moved.asked = x.asked
      /\ moved.queue = x.queue \ next /\ moved.inflight = (x.inflight \ {q}) \union next
      /\ moved.performed = x.performed /\ moved.answered = noted.answered
      /\ moved.failed = noted.failed /\ moved.told = "running"
  <2>1. x.queue \ next \in RequestSets /\ (x.inflight \ {q}) \union next \in RequestSets
    BY <1>1, <1>2 DEF RequestSets
  <2> HIDE DEF noted
  <2> QED BY <1>3, <2>1 DEF Runs
<1>5. After(x, q, ok, next) = IF ~ok /\ ~Collects(x.kind) THEN ended
                              ELSE IF moved.inflight = {} THEN last ELSE moved
  BY DEF After
<1>6. \A y : Outcome(y) \in {"success", "submitted", "both", "error"}
  BY DEF Outcome
<1> HIDE DEF noted, moved
<1>7. SentRequests(moved) \union moved.queue = SentRequests(x) \union x.queue
  BY <1>2, <1>3, <1>4 DEF SentRequests
<1>8. SentRequests(x) \subseteq SentRequests(moved)
  BY <1>3, <1>4 DEF SentRequests
<1>9. /\ x.answered \subseteq x.performed /\ x.performed \subseteq SentRequests(x)
      /\ Excused(x) \/ Rows(x.queue \union SentRequests(x)) = x.asked.rows
  BY DEF RunFits
<1>10. moved.answered \subseteq moved.performed
  BY <1>3, <1>4, <1>9
<1>11. Excused(moved) <=> Excused(x)
  BY <1>4 DEF Excused
<1>12. CASE ~ok /\ ~Collects(x.kind)
  <2>1. Outcome(noted) = "error"
    BY <1>3, <1>12 DEF Outcome, Collects
  <2>2. /\ ended \in Runs /\ ended.told = "error" /\ ended.performed = x.performed
        /\ ended.answered = x.answered /\ ended.failed # {}
    <3>1. {} \in RequestSets
      BY DEF RequestSets
    <3> QED BY <1>3, <1>12, <2>1, <3>1 DEF Runs
  <2> HIDE DEF ended
  <2>3. RunFits(ended)
    BY <1>9, <2>2 DEF RunFits
  <2> QED BY <1>5, <1>12, <2>2, <2>3
<1>13. CASE ~(~ok /\ ~Collects(x.kind)) /\ moved.inflight = {}
  <2>1. moved.queue = {} /\ x.queue = {}
    BY <1>2, <1>4, <1>13
  <2>2. moved.performed \subseteq moved.answered \union moved.failed
    BY <1>4, <1>8, <1>9, <1>13 DEF SentRequests
  <2>3. Excused(x) \/ Rows(moved.answered \union moved.failed) = x.asked.rows
    <3>1. moved.answered \union moved.failed = x.queue \union SentRequests(x)
      BY <1>7, <1>13, <2>1 DEF SentRequests
    <3> QED BY <1>9, <3>1
  <2>4. Outcome(moved) \in {"success", "submitted"} =>
          \/ Excused(x) \/ Rows(moved.performed) = x.asked.rows
          \/ x.kind = "retryBatches" /\ moved.failed # {}
    <3>1. CASE moved.failed = {}
      <4>1. moved.performed = moved.answered \union moved.failed
        BY <1>10, <2>2, <3>1
      <4> QED BY <2>3, <4>1
    <3>2. CASE moved.failed # {}
      BY <1>4, <3>2 DEF Outcome
    <3> QED BY <3>1, <3>2
  <2>5. /\ Outcome(moved) \in {"error", "both"} => moved.failed # {}
        /\ Outcome(moved) = "both" => moved.answered # {}
    BY DEF Outcome
  <2>6. /\ last \in Runs /\ last.told = Outcome(moved) /\ last.kind = x.kind /\ last.asked = x.asked
        /\ last.inflight = {} /\ last.performed = x.performed /\ last.answered = moved.answered
        /\ last.failed = moved.failed /\ last.performed = moved.performed
    BY <1>4, <1>6, <1>13 DEF Runs
  <2> HIDE DEF last
  <2>7. last.told # "running"
    BY <1>6, <2>6
  <2>8. RunFits(last)
    BY <1>10, <2>4, <2>5, <2>6, <2>7 DEF RunFits, Excused
  <2> QED BY <1>5, <1>13, <2>6, <2>8
<1>14. CASE ~(~ok /\ ~Collects(x.kind)) /\ moved.inflight # {}
  <2>1. RunFits(moved)
    BY <1>4, <1>7, <1>8, <1>9, <1>10, <1>11, <1>14 DEF RunFits
  <2> QED BY <1>4, <1>5, <1>14, <2>1
<1> QED BY <1>12, <1>13, <1>14

\* The runs when one of them moves.
LEMMA OneRunMoves ==
  ASSUME BulkTypeOK, RunsInv, NEW r \in DOMAIN runs, NEW x \in Runs, RunFits(x),
         runs' = [runs EXCEPT ![r] = x]
  PROVE  /\ runs' \in Seq(Runs) /\ RunsInv' /\ DOMAIN runs' = DOMAIN runs /\ runs'[r] = x
         /\ \A p \in DOMAIN runs : p # r => runs'[p] = runs[p]
<1>1. runs' \in Seq(Runs)
  BY DEF BulkTypeOK
<1>2. /\ DOMAIN runs' = DOMAIN runs /\ runs'[r] = x
      /\ \A p \in DOMAIN runs : p # r => runs'[p] = runs[p]
  BY DEF BulkTypeOK
<1>3. RunsInv'
  <2> SUFFICES ASSUME NEW p \in DOMAIN runs' PROVE RunFits(runs'[p])
    BY DEF RunsInv
  <2> QED BY <1>2 DEF RunsInv
<1> QED BY <1>1, <1>2, <1>3

\* The engine carries out a request: the run it belongs to shows it at its
\* end, or nobody does (Perform).
LEMMA PerformInv ==
  ASSUME BulkInv, part' = part, NEW r \in DOMAIN runs, NEW q \in runs[r].inflight, Perform(r, q)
  PROVE  BulkInv'
<1> USE DEF BulkInv
<1> DEFINE x == [runs[r] EXCEPT !.performed = @ \union {q}]
           later(load) == IF load.read THEN [load EXCEPT !.missing = @ \union q] ELSE load
<1>1. /\ q \notin runs[r].performed /\ runs' = [runs EXCEPT ![r] = x]
      /\ unshown' = unshown \union q
      /\ abandoned' = IF Running(r) /\ ~Submitted(runs[r].kind, q) THEN abandoned
                      ELSE abandoned \union q
      /\ lists' = [k \in DOMAIN lists |-> later(lists[k])]
      /\ UNCHANGED <<selectedRows, asking, callbacks, isLoading, dataShown, listFailed, overtaken,
                     reloadedUnder>>
  BY DEF Perform, Changed
<1>2. runs[r] \in Runs /\ RunFits(runs[r])
  BY DEF BulkTypeOK, RunsInv
<1>3. q \in SUBSET Items /\ runs[r].performed \union {q} \in RequestSets
  BY <1>2 DEF Runs, RequestSets
<1>4. /\ x \in Runs /\ x.performed = runs[r].performed \union {q} /\ x.told = runs[r].told
      /\ x.kind = runs[r].kind /\ x.asked = runs[r].asked /\ x.queue = runs[r].queue
      /\ x.inflight = runs[r].inflight /\ x.answered = runs[r].answered
      /\ x.failed = runs[r].failed
  BY <1>2, <1>3 DEF Runs
<1> HIDE DEF x
<1>5. SentRequests(x) = SentRequests(runs[r]) /\ q \in SentRequests(x)
  BY <1>4 DEF SentRequests
<1>6. RunFits(x)
  BY <1>2, <1>4, <1>5 DEF RunFits, Excused
<1>7. /\ runs' \in Seq(Runs) /\ RunsInv' /\ DOMAIN runs' = DOMAIN runs /\ runs'[r] = x
      /\ \A p \in DOMAIN runs : p # r => runs'[p] = runs[p]
  BY <1>1, <1>4, <1>6, OneRunMoves
<1>8. \A p \in DOMAIN runs : /\ Running(p)' <=> Running(p)
                            /\ Rows(runs[p].performed) \subseteq Rows(runs'[p].performed)
  BY <1>4, <1>7 DEF Running, Rows
<1>9. ASSUME NEW k \in DOMAIN lists
      PROVE  /\ later(lists[k]) \in Loads /\ later(lists[k]).old = lists[k].old
             /\ \A i \in Items \ q : i \in later(lists[k]).missing <=> i \in lists[k].missing
  <2>1. lists[k] \in Loads
    BY DEF BulkTypeOK
  <2>2. lists[k].missing \union q \in SUBSET Items
    BY <1>3, <2>1 DEF Loads
  <2> QED BY <2>1, <2>2 DEF Loads
<1> HIDE DEF later
<1>10. /\ lists' \in Seq(Loads) /\ DOMAIN lists' = DOMAIN lists /\ Len(lists') = Len(lists)
       /\ \A k \in DOMAIN lists : lists'[k] = later(lists[k])
  BY <1>1, <1>9 DEF BulkTypeOK
<1>11. BulkTypeOK'
  BY <1>1, <1>3, <1>7, <1>10 DEF BulkTypeOK
<1>12. DialogRowsInv'
  BY <1>1 DEF DialogRowsInv
<1>13. lists = <<>> <=> lists' = <<>>
  BY <1>10 DEF BulkTypeOK
<1>14. SpinnerInv'
  BY <1>1, <1>7, <1>8, <1>13 DEF SpinnerInv, Page
<1>15. ShownInv'
  <2> SUFFICES ASSUME NEW i \in unshown', i \notin abandoned', i \notin overtaken
               PROVE  Awaited(i)'
    BY <1>1 DEF ShownInv
  <2>1. CASE i \in q
    <3>1. Running(r)' /\ i \in Rows(runs'[r].performed)
      BY <1>1, <1>4, <1>7, <1>8, <2>1 DEF Rows
    <3> QED BY <1>7, <3>1 DEF Awaited
  <2>2. CASE i \notin q
    <3>1. Awaited(i) /\ i \in Items
      BY <1>1, <2>2 DEF ShownInv, BulkTypeOK
    <3>2. \A k \in DOMAIN lists : /\ i \in lists'[k].missing <=> i \in lists[k].missing
                                  /\ lists'[k].old = lists[k].old
      BY <1>9, <1>10, <2>2, <3>1
    <3>3. lists # <<>> => Len(lists) \in DOMAIN lists
      BY DEF BulkTypeOK
    <3> QED BY <1>1, <1>7, <1>8, <1>10, <1>13, <3>1, <3>2, <3>3 DEF Awaited
  <2> QED BY <2>1, <2>2
<1> QED BY <1>7, <1>11, <1>12, <1>14, <1>15

\* An answer: the run goes on, has the list loaded now or later, or gives
\* its changes up (Answer, Tell).
LEMMA AnswerInv ==
  ASSUME BulkInv, part' = part, NEW r \in DOMAIN runs, NEW q \in runs[r].inflight,
         NEW ok \in BOOLEAN, Answer(r, q, ok)
  PROVE  BulkInv'
<1> USE DEF BulkInv
<1>1. PICK next \in Waiting(runs[r]) :
        LET run == After(runs[r], q, ok, next)
        IN /\ runs' = [runs EXCEPT ![r] = run]
           /\ IF run.told = "running"
              THEN NoLoad /\ UNCHANGED <<callbacks, abandoned>> ELSE Tell(run)
  BY DEF Answer
<1> DEFINE x == After(runs[r], q, ok, next)
<1>2. /\ runs' = [runs EXCEPT ![r] = x]
      /\ \/ x.told = "running" /\ NoLoad /\ UNCHANGED <<callbacks, abandoned>>
         \/ x.told # "running" /\ Tell(x)
  BY <1>1
<1>3. /\ Running(r) /\ (ok => q \in runs[r].performed)
      /\ reloadedUnder' = (reloadedUnder \/ (asking # Absent /\ selectedRows' # selectedRows))
      /\ UNCHANGED <<asking, listFailed, unshown, overtaken>>
  BY DEF Answer
<1>4. runs[r] \in Runs /\ RunFits(runs[r]) /\ runs[r].told = "running"
  BY <1>3 DEF BulkTypeOK, RunsInv, Running
<1>5. x \in Runs /\ RunFits(x) /\ x.performed = runs[r].performed
  BY <1>3, <1>4, AfterFacts
<1> HIDE DEF x
<1>6. /\ runs' \in Seq(Runs) /\ RunsInv' /\ DOMAIN runs' = DOMAIN runs /\ runs'[r] = x
      /\ \A p \in DOMAIN runs : p # r => runs'[p] = runs[p]
  BY <1>2, <1>5, OneRunMoves
<1>7. /\ lists' \in Seq(Loads) /\ isLoading' \in BOOLEAN /\ dataShown' \in BOOLEAN
      /\ selectedRows' \in SUBSET Items /\ callbacks' \in Nat /\ abandoned' \in SUBSET Items
      /\ SpinnerInv' /\ ShownInv'
  <2>1. CASE x.told = "running"
    <3>1. UNCHANGED <<lists, isLoading, dataShown, selectedRows, callbacks, abandoned>>
      BY <1>2, <2>1 DEF NoLoad
    <3>2. \A p \in DOMAIN runs : /\ Running(p) => Running(p)'
                                /\ runs'[p].performed = runs[p].performed
      BY <1>5, <1>6, <2>1 DEF Running
    <3>3. SpinnerInv'
      BY <1>3, <1>6, <3>1, <3>2 DEF SpinnerInv, Page
    <3>4. ShownInv'
      BY <1>3, <1>6, <3>1, <3>2 DEF ShownInv, Awaited
    <3> QED BY <3>1, <3>3, <3>4 DEF BulkTypeOK
  <2>2. CASE x.told # "running"
    <3>1. Tell(x)
      BY <1>2, <2>2
    <3>2. abandoned' = IF GivesUp(x)
                       THEN abandoned \union (unshown \intersect Rows(x.performed)) ELSE abandoned
      BY <3>1 DEF Tell
    <3>3. abandoned' \in SUBSET Items
      BY <3>2 DEF BulkTypeOK
    <3>4. CASE LoadData /\ UNCHANGED callbacks
      BY <3>3, <3>4, LoadFacts, LoadAwaits DEF BulkTypeOK
    <3>5. CASE callbacks' = callbacks + 1 /\ NoLoad
      <4>1. callbacks' \in Nat /\ callbacks' > 0
        BY <3>5 DEF BulkTypeOK
      <4>2. UNCHANGED <<lists, isLoading, dataShown, selectedRows>>
        BY <3>5 DEF NoLoad
      <4>3. SpinnerInv'
        BY <1>3, <4>1, <4>2 DEF SpinnerInv, Page
      <4>4. ShownInv'
        BY <4>1 DEF ShownInv, Awaited
      <4> QED BY <3>3, <4>1, <4>2, <4>3, <4>4 DEF BulkTypeOK
    <3>6. CASE /\ Reload(x) = "none" /\ isLoading' = (isLoading /\ Page # "batchList")
               /\ UNCHANGED <<callbacks, lists, dataShown, selectedRows>>
      <4>1. GivesUp(x)
        BY <3>6 DEF Reload
      <4>2. SpinnerInv'
        BY <1>3, <3>6 DEF SpinnerInv, Page
      <4>3. ShownInv'
        <5> SUFFICES ASSUME NEW i \in unshown, i \notin abandoned', i \notin overtaken
                     PROVE  Awaited(i)'
          BY <1>3 DEF ShownInv
        <5>1. Awaited(i) /\ i \notin Rows(runs[r].performed)
          BY <1>5, <3>2, <4>1 DEF ShownInv
        <5>2. \A p \in DOMAIN runs : Running(p) /\ i \in Rows(runs[p].performed)
                                       => Running(p)' /\ i \in Rows(runs'[p].performed)
          BY <1>6, <5>1 DEF Running
        <5> QED BY <1>3, <1>6, <3>6, <5>1, <5>2 DEF Awaited
      <4> QED BY <3>3, <3>6, <4>2, <4>3 DEF BulkTypeOK
    <3> QED BY <3>1, <3>4, <3>5, <3>6 DEF Tell
  <2> QED BY <2>1, <2>2
<1>8. BulkTypeOK'
  BY <1>3, <1>6, <1>7 DEF BulkTypeOK
<1>9. DialogRowsInv'
  BY <1>3 DEF DialogRowsInv
<1> QED BY <1>6, <1>7, <1>8, <1>9

\* The last load to answer shows all it has read; a change it missed is
\* missed by the page as well (ListAnswered).
LEMMA ListAnsweredInv ==
  ASSUME BulkInv, part' = part, NEW k \in DOMAIN lists, ListAnswered(k)
  PROVE  BulkInv'
<1> USE DEF BulkInv
<1>1. /\ lists' = RemoveAt(lists, k) /\ isLoading' = FALSE /\ dataShown' = TRUE /\ selectedRows' = {}
      /\ listFailed' = (listFailed /\ lists[k].old)
      /\ unshown' = lists[k].missing /\ abandoned' = abandoned \intersect lists[k].missing
      /\ overtaken' = lists[k].missing \ (unshown \ overtaken)
      /\ reloadedUnder' = (asking # Absent)
      /\ UNCHANGED <<asking, runs, callbacks>>
  BY DEF ListAnswered
<1>2. lists \in Seq(Loads) /\ lists[k] \in Loads
  BY DEF BulkTypeOK
<1>3. /\ lists' \in Seq(Loads) /\ Len(lists') = Len(lists) - 1
      /\ \A j \in DOMAIN lists' : \E m \in DOMAIN lists : lists'[j] = lists[m]
      /\ \A j \in 1 .. Len(lists) - 1 : lists'[j] = IF j < k THEN lists[j] ELSE lists[j + 1]
  <2>1. /\ RemoveAt(lists, k) \in Seq(Loads) /\ Len(RemoveAt(lists, k)) = Len(lists) - 1
        /\ \A j \in DOMAIN RemoveAt(lists, k) : \E m \in DOMAIN lists : RemoveAt(lists, k)[j] = lists[m]
        /\ \A j \in 1 .. Len(lists) - 1 :
             RemoveAt(lists, k)[j] = IF j < k THEN lists[j] ELSE lists[j + 1]
    BY ONLY <1>2, k \in DOMAIN lists, RemoveAtKeeps
  <2> QED BY ONLY <1>1, <2>1
<1>4. /\ lists[k].missing \in SUBSET Items /\ lists[k].old \in BOOLEAN
      /\ lists[k].missing \ (unshown \ overtaken) \in SUBSET Items
  BY <1>2 DEF Loads
<1>5. BulkTypeOK'
  BY <1>1, <1>3, <1>4 DEF BulkTypeOK
<1>6. DialogRowsInv' /\ SpinnerInv'
  BY <1>1 DEF DialogRowsInv, SpinnerInv
<1>7. RunsInv'
  BY <1>1 DEF RunsInv
<1>8. ShownInv'
  <2> SUFFICES ASSUME NEW i \in unshown', i \notin abandoned', i \notin overtaken'
               PROVE  Awaited(i)'
    BY DEF ShownInv
  <2>1. Awaited(i) /\ i \in lists[k].missing
    BY <1>1 DEF ShownInv
  <2>2. CASE lists # <<>> /\ i \notin lists[Len(lists)].missing
    <3>1. k # Len(lists) /\ k \in 1 .. Len(lists)
      BY <1>2, <2>1, <2>2
    <3>2. Len(lists') \in 1 .. Len(lists) - 1 /\ ~(Len(lists') < k) /\ Len(lists') + 1 = Len(lists)
      BY <1>2, <1>3, <3>1
    <3>3. lists'[Len(lists')] = lists[Len(lists)]
      BY <1>3, <3>2
    <3>4. lists' # <<>>
      BY <1>3, <3>2
    <3> QED BY <2>2, <3>3, <3>4 DEF Awaited
  <2>3. CASE listFailed /\ \A j \in DOMAIN lists : i \in lists[j].missing => lists[j].old
    BY <1>1, <1>3, <2>1, <2>3 DEF Awaited
  <2>4. CASE \/ callbacks > 0
             \/ \E r \in DOMAIN runs : Running(r) /\ i \in Rows(runs[r].performed)
    BY <1>1, <2>4 DEF Awaited, Running
  <2> QED BY <2>1, <2>2, <2>3, <2>4 DEF Awaited
<1> QED BY <1>5, <1>6, <1>7, <1>8

\* A load fails: what it would have shown is left to the loads sent after it,
\* or to the user (ListFailed).
LEMMA ListFailedInv ==
  ASSUME BulkInv, part' = part, NEW k \in DOMAIN lists, ListFailed(k)
  PROVE  BulkInv'
<1> USE DEF BulkInv
<1> DEFINE aged == [j \in DOMAIN lists |->
                      IF j < k THEN [lists[j] EXCEPT !.old = TRUE] ELSE lists[j]]
<1>1. /\ lists' = RemoveAt(aged, k) /\ listFailed' = TRUE
      /\ reloadedUnder' = (reloadedUnder \/ (asking # Absent /\ selectedRows' # selectedRows))
      /\ UNCHANGED <<asking, runs, callbacks, unshown, abandoned, overtaken>>
  BY DEF ListFailed
<1>2. isLoading' \in BOOLEAN /\ dataShown' \in BOOLEAN /\ selectedRows' \in SUBSET Items
  BY DEF ListFailed, BulkTypeOK
<1>3. lists \in Seq(Loads) /\ k \in 1 .. Len(lists) /\ DOMAIN lists = 1 .. Len(lists)
  BY DEF BulkTypeOK
<1>4. ASSUME NEW j \in DOMAIN lists
      PROVE  /\ aged[j] \in Loads /\ aged[j].missing = lists[j].missing
             /\ lists[j].old \/ j < k => aged[j].old
  <2>1. lists[j] \in Loads
    BY <1>3
  <2> QED BY <2>1 DEF Loads
<1>5. aged \in Seq(Loads) /\ Len(aged) = Len(lists) /\ DOMAIN aged = DOMAIN lists
  BY <1>3, <1>4
<1> HIDE DEF aged
<1>6. /\ lists' \in Seq(Loads) /\ Len(lists') = Len(lists) - 1
      /\ \A j \in DOMAIN lists' : \E m \in DOMAIN lists : lists'[j] = aged[m]
      /\ \A j \in 1 .. Len(lists) - 1 : lists'[j] = IF j < k THEN aged[j] ELSE aged[j + 1]
  <2>1. aged \in Seq(Loads) /\ k \in DOMAIN aged
    BY <1>5
  <2>2. /\ RemoveAt(aged, k) \in Seq(Loads) /\ Len(RemoveAt(aged, k)) = Len(aged) - 1
        /\ \A j \in DOMAIN RemoveAt(aged, k) : \E m \in DOMAIN aged : RemoveAt(aged, k)[j] = aged[m]
        /\ \A j \in 1 .. Len(aged) - 1 :
             RemoveAt(aged, k)[j] = IF j < k THEN aged[j] ELSE aged[j + 1]
    BY ONLY <2>1, RemoveAtKeeps
  <2> QED BY <1>1, <1>5, <2>2
<1>7. BulkTypeOK'
  BY <1>1, <1>2, <1>6 DEF BulkTypeOK
<1>8. DialogRowsInv' /\ SpinnerInv'
  BY <1>1 DEF DialogRowsInv, SpinnerInv
<1>9. RunsInv'
  BY <1>1 DEF RunsInv
<1>10. ShownInv'
  <2> SUFFICES ASSUME NEW i \in unshown, i \notin abandoned, i \notin overtaken
               PROVE  Awaited(i)'
    BY <1>1 DEF ShownInv
  <2>1. Awaited(i)
    BY DEF ShownInv
  <2>2. CASE lists # <<>> /\ i \notin lists[Len(lists)].missing /\ k # Len(lists)
    <3>1. Len(lists') \in 1 .. Len(lists) - 1 /\ ~(Len(lists') < k) /\ Len(lists') + 1 = Len(lists)
      BY <1>3, <1>6, <2>2
    <3>2. lists'[Len(lists')] = aged[Len(lists)]
      BY <1>6, <3>1
    <3>3. lists' # <<>> /\ Len(lists) \in DOMAIN lists
      BY <1>3, <1>6, <3>1
    <3> QED BY <1>4, <2>2, <3>2, <3>3 DEF Awaited
  <2>3. CASE k = Len(lists)
    <3>1. \A j \in DOMAIN lists' : lists'[j].old
      <4> TAKE j \in DOMAIN lists'
      <4>1. j \in 1 .. Len(lists) - 1 /\ j < k /\ j \in DOMAIN lists
        BY <1>3, <1>6, <2>3
      <4> QED BY <1>4, <1>6, <4>1
    <3> QED BY <1>1, <3>1 DEF Awaited
  <2>4. CASE listFailed /\ \A j \in DOMAIN lists : i \in lists[j].missing => lists[j].old
    <3>1. ASSUME NEW j \in DOMAIN lists', i \in lists'[j].missing PROVE lists'[j].old
      <4>1. PICK m \in DOMAIN lists : lists'[j] = aged[m]
        BY <1>6
      <4> QED BY <1>4, <2>4, <3>1, <4>1
    <3> QED BY <1>1, <3>1 DEF Awaited
  <2>5. CASE \/ callbacks > 0
             \/ \E r \in DOMAIN runs : Running(r) /\ i \in Rows(runs[r].performed)
    BY <1>1, <2>5 DEF Awaited, Running
  <2> QED BY <2>1, <2>2, <2>3, <2>4, <2>5 DEF Awaited
<1> QED BY <1>7, <1>8, <1>9, <1>10

\* The inductive invariant.
THEOREM BulkInvariant == Spec => []BulkInv
<1>1. BulkInit => BulkInv
  <2> SUFFICES ASSUME BulkInit PROVE BulkInv
    OBVIOUS
  <2>1. runs \in Seq(Runs) /\ lists \in Seq(Loads)
    <3>1. <<>> \in Seq(Runs) /\ <<>> \in Seq(Loads)
      OBVIOUS
    <3> QED BY <3>1 DEF BulkInit
  <2>2. BulkTypeOK
    BY <2>1 DEF BulkInit, BulkTypeOK
  <2>3. DialogRowsInv /\ SpinnerInv /\ ShownInv
    BY DEF BulkInit, DialogRowsInv, SpinnerInv, ShownInv
  <2>4. RunsInv
    BY DEF BulkInit, RunsInv
  <2> QED BY <2>2, <2>3, <2>4 DEF BulkInv
<1>2. BulkInv /\ part' = part /\ [BulkNext]_bulkVars => BulkInv'
  <2> SUFFICES ASSUME BulkInv, part' = part, [BulkNext]_bulkVars PROVE BulkInv'
    OBVIOUS
  <2> USE DEF BulkInv
  <2>1. ASSUME NEW rs \in Subsets, SelectRows(rs) PROVE BulkInv'
    <3>1. /\ asking = Absent /\ selectedRows' = rs /\ rs \in SUBSET Items
          /\ UNCHANGED <<asking, runs, callbacks, lists, isLoading, dataShown, listFailed, unshown,
                         abandoned, overtaken, reloadedUnder>>
      BY <2>1 DEF SelectRows, Subsets
    <3>2. BulkTypeOK' /\ DialogRowsInv'
      BY <3>1 DEF BulkTypeOK, DialogRowsInv
    <3> QED BY <3>1, <3>2 DEF RunsInv, SpinnerInv, ShownInv, Awaited, Running, Page
  <2>2. ASSUME NEW kind \in Kinds, AskToConfirm(kind) PROVE BulkInv'
    <3>1. /\ asking' = [kind |-> kind, rows |-> selectedRows] /\ reloadedUnder' = FALSE
          /\ isLoading' = (isLoading \/ Page = "batchList")
          /\ UNCHANGED <<selectedRows, runs, callbacks, lists, dataShown, listFailed, unshown,
                         abandoned, overtaken>>
      BY <2>2 DEF AskToConfirm
    <3>2. asking' \in Dialogs /\ asking' # Absent
      BY <3>1, BulkActionsAssumption DEF BulkTypeOK, Dialogs
    <3>3. BulkTypeOK'
      BY <3>1, <3>2 DEF BulkTypeOK
    <3>4. DialogRowsInv'
      BY <3>1 DEF DialogRowsInv
    <3>5. SpinnerInv'
      BY <3>1, <3>2 DEF SpinnerInv, Running, Page
    <3> QED BY <3>1, <3>3, <3>4, <3>5 DEF RunsInv, ShownInv, Awaited, Running
  <2>3. CASE DismissDialog
    <3>1. /\ asking' = Absent /\ isLoading' = (isLoading /\ Page # "batchList")
          /\ UNCHANGED <<selectedRows, runs, callbacks, lists, dataShown, listFailed, unshown,
                         abandoned, overtaken, reloadedUnder>>
      BY <2>3 DEF DismissDialog
    <3>2. BulkTypeOK' /\ DialogRowsInv'
      BY <3>1 DEF BulkTypeOK, DialogRowsInv
    <3>3. SpinnerInv'
      BY <3>1 DEF SpinnerInv, Page
    <3> QED BY <3>1, <3>2, <3>3 DEF RunsInv, ShownInv, Awaited, Running
  <2>4. CASE Confirm
    <3> DEFINE asked == [rows |-> asking.rows, reloadedUnder |-> reloadedUnder]
    <3>1. /\ asking \in Dialogs /\ asking # Absent /\ asking' = Absent
          /\ Starts(asking.kind, asked, ActedOn(asking)) /\ reloadedUnder' = reloadedUnder
      BY <2>4 DEF Confirm, Starts, BulkTypeOK
    <3>2. asking.kind \in Kinds /\ asking.rows \in SUBSET Items
      BY <3>1 DEF Dialogs
    <3>3. asked \in [rows : SUBSET Items, reloadedUnder : BOOLEAN] /\ ActedOn(asking) \in SUBSET Items
      BY <3>2 DEF BulkTypeOK, ActedOn
    <3>4. asked.rows = ActedOn(asking) \/ (asking.kind = "deleteJobs" /\ asked.reloadedUnder)
      BY <3>1 DEF ActedOn, DialogRowsInv, BulkTypeOK
    <3> HIDE DEF asked
    <3>5. /\ runs' \in Seq(Runs) /\ lists' \in Seq(Loads) /\ isLoading' \in BOOLEAN
          /\ dataShown' \in BOOLEAN /\ selectedRows' \in SUBSET Items /\ abandoned' \in SUBSET Items
          /\ RunsInv' /\ SpinnerInv' /\ ShownInv'
      BY <3>1, <3>2, <3>3, <3>4, BeginInv
    <3>6. UNCHANGED <<callbacks, listFailed, unshown, overtaken>>
      BY <3>1 DEF Starts
    <3> QED BY <3>1, <3>5, <3>6 DEF BulkTypeOK, DialogRowsInv
  <2>5. CASE SetRetries
    <3> DEFINE asked == [rows |-> selectedRows, reloadedUnder |-> FALSE]
    <3>1. /\ Starts("retryJobs", asked, selectedRows) /\ asking = Absent
          /\ UNCHANGED <<asking, reloadedUnder>>
      BY <2>5 DEF SetRetries, Starts
    <3>2. asked \in [rows : SUBSET Items, reloadedUnder : BOOLEAN] /\ asked.rows = selectedRows
      BY DEF BulkTypeOK
    <3>3. "retryJobs" \in Kinds /\ selectedRows \in SUBSET Items
      BY DEF Kinds, KindsOf, ActionPages, BulkTypeOK
    <3> HIDE DEF asked
    <3>4. /\ runs' \in Seq(Runs) /\ lists' \in Seq(Loads) /\ isLoading' \in BOOLEAN
          /\ dataShown' \in BOOLEAN /\ selectedRows' \in SUBSET Items /\ abandoned' \in SUBSET Items
          /\ RunsInv' /\ SpinnerInv' /\ ShownInv'
      BY <3>1, <3>2, <3>3, BeginInv
    <3>5. UNCHANGED <<callbacks, listFailed, unshown, overtaken>>
      BY <3>1 DEF Starts
    <3> QED BY <3>1, <3>4, <3>5 DEF BulkTypeOK, DialogRowsInv
  <2>6. ASSUME NEW r \in DOMAIN runs, NEW q \in runs[r].inflight, Perform(r, q) PROVE BulkInv'
    BY <2>6, PerformInv
  <2>7. ASSUME NEW r \in DOMAIN runs, NEW q \in runs[r].inflight, RequestAnswered(r, q)
        PROVE  BulkInv'
    <3>1. TRUE \in BOOLEAN /\ Answer(r, q, TRUE)
      BY <2>7 DEF RequestAnswered
    <3> QED BY <3>1, AnswerInv
  <2>8. ASSUME NEW r \in DOMAIN runs, NEW q \in runs[r].inflight, RequestFailed(r, q)
        PROVE  BulkInv'
    <3>1. FALSE \in BOOLEAN /\ Answer(r, q, FALSE)
      BY <2>8 DEF RequestFailed
    <3> QED BY <3>1, AnswerInv
  <2>9. ASSUME NEW r \in DOMAIN runs, NEW q \in runs[r].inflight, RequestDropped(r, q)
        PROVE  BulkInv'
    <3> DEFINE x == [runs[r] EXCEPT !.inflight = @ \ {q}]
    <3>1. /\ ~Running(r) /\ runs' = [runs EXCEPT ![r] = x]
          /\ UNCHANGED <<selectedRows, asking, callbacks, lists, isLoading, dataShown, listFailed,
                         unshown, abandoned, overtaken, reloadedUnder>>
      BY <2>9 DEF RequestDropped
    <3>2. runs[r] \in Runs /\ RunFits(runs[r])
      BY DEF BulkTypeOK, RunsInv
    <3>3. runs[r].inflight \ {q} \in RequestSets
      BY <3>2 DEF Runs, RequestSets
    <3>4. /\ x \in Runs /\ x.told = runs[r].told /\ x.kind = runs[r].kind /\ x.asked = runs[r].asked
          /\ x.inflight = runs[r].inflight \ {q} /\ x.performed = runs[r].performed
          /\ x.answered = runs[r].answered /\ x.failed = runs[r].failed
      BY <3>2, <3>3 DEF Runs
    <3> HIDE DEF x
    <3>5. RunFits(x)
      BY <3>1, <3>2, <3>4 DEF RunFits, Running, Excused
    <3>6. /\ runs' \in Seq(Runs) /\ RunsInv' /\ DOMAIN runs' = DOMAIN runs /\ runs'[r] = x
          /\ \A p \in DOMAIN runs : p # r => runs'[p] = runs[p]
      BY <3>1, <3>4, <3>5, OneRunMoves
    <3>7. \A p \in DOMAIN runs : Running(p) => Running(p)' /\ runs'[p].performed = runs[p].performed
      BY <3>1, <3>6 DEF Running
    <3>8. BulkTypeOK' /\ DialogRowsInv'
      BY <3>1, <3>6 DEF BulkTypeOK, DialogRowsInv
    <3>9. SpinnerInv'
      BY <3>1, <3>6, <3>7 DEF SpinnerInv, Page
    <3>10. ShownInv'
      BY <3>1, <3>6, <3>7 DEF ShownInv, Awaited
    <3> QED BY <3>6, <3>8, <3>9, <3>10
  <2>10. CASE DelayOver
    <3>1. /\ LoadData /\ callbacks > 0 /\ callbacks' = callbacks - 1
          /\ reloadedUnder' = (reloadedUnder \/ (asking # Absent /\ selectedRows' # selectedRows))
          /\ UNCHANGED <<asking, runs, listFailed, unshown, abandoned, overtaken>>
      BY <2>10 DEF DelayOver
    <3>2. BulkTypeOK'
      <4>1. callbacks' \in Nat
        BY <3>1 DEF BulkTypeOK
      <4>2. /\ lists' \in Seq(Loads) /\ isLoading' = TRUE /\ selectedRows' \in SUBSET Items
            /\ dataShown' \in BOOLEAN
        BY <3>1, LoadFacts
      <4> QED BY <3>1, <4>1, <4>2 DEF BulkTypeOK
    <3>3. DialogRowsInv' /\ RunsInv'
      BY <3>1 DEF DialogRowsInv, RunsInv
    <3> QED BY <3>1, <3>2, <3>3, LoadAwaits
  <2>11. CASE UserReload
    <3>1. /\ LoadData /\ asking = Absent
          /\ UNCHANGED <<asking, runs, callbacks, listFailed, unshown, abandoned, overtaken,
                         reloadedUnder>>
      BY <2>11 DEF UserReload
    <3>2. BulkTypeOK'
      BY <3>1, LoadFacts DEF BulkTypeOK
    <3>3. DialogRowsInv' /\ RunsInv'
      BY <3>1 DEF DialogRowsInv, RunsInv
    <3> QED BY <3>1, <3>2, <3>3, LoadAwaits
  <2>12. ASSUME NEW k \in DOMAIN lists, ListRead(k) PROVE BulkInv'
    <3>1. /\ lists' = [lists EXCEPT ![k].read = TRUE]
          /\ UNCHANGED <<selectedRows, asking, runs, callbacks, isLoading, dataShown, listFailed,
                         unshown, abandoned, overtaken, reloadedUnder>>
      BY <2>12 DEF ListRead
    <3>2. lists[k] \in Loads
      BY DEF BulkTypeOK
    <3>3. [lists[k] EXCEPT !.read = TRUE] \in Loads
      BY <3>2 DEF Loads
    <3>4. /\ lists' \in Seq(Loads) /\ DOMAIN lists' = DOMAIN lists /\ Len(lists') = Len(lists)
      BY <3>1, <3>3 DEF BulkTypeOK
    <3>5. \A j \in DOMAIN lists : /\ lists'[j].missing = lists[j].missing
                                  /\ lists'[j].old = lists[j].old
      BY <3>1, <3>2 DEF BulkTypeOK, Loads
    <3>6. lists # <<>> => lists' # <<>> /\ Len(lists) \in DOMAIN lists
      BY <3>4 DEF BulkTypeOK
    <3>7. BulkTypeOK' /\ DialogRowsInv'
      BY <3>1, <3>4 DEF BulkTypeOK, DialogRowsInv
    <3>8. SpinnerInv'
      BY <3>1, <3>6 DEF SpinnerInv, Page, Running
    <3>9. ShownInv'
      BY <3>1, <3>4, <3>5, <3>6 DEF ShownInv, Awaited, Running
    <3> QED BY <3>1, <3>7, <3>8, <3>9 DEF RunsInv
  <2>13. ASSUME NEW k \in DOMAIN lists, ListAnswered(k) PROVE BulkInv'
    BY <2>13, ListAnsweredInv
  <2>14. ASSUME NEW k \in DOMAIN lists, ListFailed(k) PROVE BulkInv'
    BY <2>14, ListFailedInv
  <2>15. CASE UNCHANGED bulkVars
    BY <2>15 DEF bulkVars, BulkTypeOK, DialogRowsInv, RunsInv, SpinnerInv, ShownInv, Awaited, Running,
                 Page
  <2> QED
    BY <2>1, <2>2, <2>3, <2>4, <2>5, <2>6, <2>7, <2>8, <2>9, <2>10, <2>11, <2>12, <2>13, <2>14, <2>15
    DEF BulkNext
<1>3. [ServicesNext]_serviceVars => part' = part
  BY DEF ServicesNext, serviceVars
<1> QED BY <1>1, <1>2, <1>3, AllMachinesStart, OneMachineMoves, PTL DEF Spec, serviceVars

\* A toast tells what happened to the rows the dialog listed, in every
\* interleaving of requests, answers and failures, but for the retries of
\* batches and the failed jobs tab (confirm-action.service.ts).
THEOREM ToastsTold == Spec => []ToastsTellTheTruth
<1>1. BulkInv => ToastsTellTheTruth
  <2> SUFFICES ASSUME BulkInv, NEW r \in DOMAIN runs
               PROVE  LET run == runs[r] IN
                      /\ run.told \in {"success", "submitted"} =>
                           \/ Rows(run.performed) = run.asked.rows
                           \/ run.kind = "retryBatches" /\ run.failed # {}
                           \/ run.kind = "deleteJobs" /\ run.asked.reloadedUnder
                      /\ run.told \in {"error", "both"} => run.failed # {}
                      /\ run.told = "both" => run.performed # {}
    BY DEF ToastsTellTheTruth
  <2>1. RunFits(runs[r])
    BY DEF BulkInv, RunsInv
  <2> QED BY <2>1 DEF RunFits, Excused
<1> QED BY <1>1, BulkInvariant, PTL

\* When nothing is under way, the page shows the changes the engine made for
\* it: no reload that was meant to show one is forgotten or overtaken for
\* good (Tell, DelayOver, ListAnswered).
THEOREM ChangesShown == Spec => []ChangesGetShown
<1>1. BulkInv => ChangesGetShown
  BY DEF BulkInv, ChangesGetShown, Quiet, ShownInv, Awaited
<1> QED BY <1>1, BulkInvariant, PTL

\* When nothing is under way, the spinner has ended, or a load has failed.
THEOREM SpinnerDone == Spec => []SpinnerEnds
<1>1. BulkInv => SpinnerEnds
  BY DEF BulkInv, SpinnerEnds, Quiet, SpinnerInv, BulkTypeOK
<1> QED BY <1>1, BulkInvariant, PTL

-----------------------------------------------------------------------------
(***************************************************************************)
(* The history of a definition, for pages of any size, any number of them  *)
(* at a time and any history.  The pages of one load are joined in the     *)
(* order of their numbers: by induction over them what is joined of a      *)
(* history that did not move is its beginning (JoinedPages).  Induction    *)
(* over numbers is induction over the intervals below them, which strict   *)
(* inclusion orders well.                                                  *)
(***************************************************************************)

\* Numbers have a least one among them.
LEMMA LeastNatural ==
  ASSUME NEW B, B \subseteq Nat, B # {}
  PROVE  \E m \in B : \A n \in B : m <= n
<1> DEFINE Below(n) == 0 .. n
           T == {Below(n) : n \in B}
<1>1. IsWellFoundedOn(StrictSubsetOrdering(Nat), FiniteSubsetsOf(Nat))
  BY FS_StrictSubsetOrderingWellFounded
<1>2. ASSUME NEW n \in B PROVE Below(n) \in FiniteSubsetsOf(Nat)
  <2>1. n \in Nat /\ 0 \in Int /\ n \in Int
    OBVIOUS
  <2>2. IsFiniteSet(0 .. n)
    BY <2>1, FS_Interval
  <2> QED BY <2>1, <2>2 DEF FiniteSubsetsOf
<1>3. T \subseteq FiniteSubsetsOf(Nat) /\ T # {}
  BY <1>2
<1>4. \E x \in T : \A y \in T : ~ (<<y, x>> \in StrictSubsetOrdering(Nat))
  <2> HIDE DEF T
  <2> QED BY <1>1, <1>3, WFMin
<1>5. PICK m \in B : \A n \in B : ~ (<<Below(n), Below(m)>> \in StrictSubsetOrdering(Nat))
  BY <1>4
<1>6. ASSUME NEW n \in B, n < m PROVE FALSE
  <2>1. m \in Nat /\ n \in Nat
    OBVIOUS
  <2>2. Below(n) \subseteq Below(m) /\ Below(n) # Below(m) /\ Below(n) \in SUBSET Nat /\ Below(m) \in SUBSET Nat
    <3>1. m \in Below(m) /\ m \notin Below(n)
      BY <2>1, <1>6
    <3> QED BY <2>1, <3>1, <1>6
  <2> HIDE DEF Below
  <2>3. <<Below(n), Below(m)>> \in StrictSubsetOrdering(Nat)
    BY <2>2 DEF StrictSubsetOrdering
  <2> QED BY <1>5, <2>3
<1> QED BY <1>6

\* f is the sequences joined so far, step by step
Joins(f, seqs, n) ==
  /\ Len(seqs) = n /\ f \in [1 .. n -> {f[i] : i \in 1 .. n}]
  /\ f[1] = seqs[1] /\ \A i \in 2 .. n : f[i] = f[i - 1] \o seqs[i]

\* A sequence of sequences is flattened step by step, to what has the same steps.
LEMMA FlattenedBySteps ==
  ASSUME NEW seqs, NEW n \in Nat \ {0}, NEW f, Joins(f, seqs, n)
  PROVE  FlattenSeq(seqs) = f[n]
<1> DEFINE X == {f[i] : i \in 1 .. n}
<1>0. /\ Len(seqs) = n /\ f \in [1 .. n -> X]
      /\ f[1] = seqs[1] /\ \A i \in 2 .. n : f[i] = f[i - 1] \o seqs[i]
  BY DEF Joins
<1> HIDE DEF X
<1> DEFINE Steps(h) == [i \in 1 .. n |-> IF i = 1 THEN seqs[i] ELSE h[i - 1] \o seqs[i]]
<1>a. \A i \in 2 .. n : i \in 1 .. n /\ i # 1
  OBVIOUS
<1>b. \A i \in 1 .. n : i = 1 \/ i \in 2 .. n
  OBVIOUS
<1>1. f = Steps(f)
  BY <1>0, <1>b
<1>2. ASSUME NEW g, g = Steps(g) PROVE g = f
  <2> DEFINE h == Steps(g)
             Y == {h[i] : i \in 1 .. n}
  <2>0. 1 \in 1 .. n
    OBVIOUS
  <2>1. h[1] = seqs[1]
    <3> HIDE <1>1, <2>0
    <3>1. \A i \in 1 .. n : h[i] = IF i = 1 THEN seqs[i] ELSE g[i - 1] \o seqs[i]
      BY Zenon
    <3> QED BY <2>0, <3>1, Zenon
  <2>5. h \in [1 .. n -> Y]
    <3>1. h = [i \in 1 .. n |-> h[i]]
      BY Zenon
    <3> HIDE DEF h
    <3> QED BY <3>1, Zenon
  <2>2. \A i \in 2 .. n : h[i] = g[i - 1] \o seqs[i]
    BY <1>a, Zenon
  <2>3. g = h
    BY <1>2
  <2> HIDE DEF h, Y
  <2>4. \A i \in 1 .. n : h[i] = f[i]
    <3> SUFFICES ASSUME NEW j \in 1 .. n, h[j] # f[j] PROVE FALSE
      OBVIOUS
    <3> DEFINE B == {i \in 1 .. n : h[i] # f[i]}
    <3>1. B \subseteq Nat /\ j \in B
      OBVIOUS
    <3>2. PICK m \in B : \A i \in B : m <= i
      BY <3>1, LeastNatural
    <3>3. m \in 1 .. n /\ h[m] # f[m]
      OBVIOUS
    <3>4. m # 1
      BY <1>0, <3>3, <2>1
    <3>5. m \in 2 .. n /\ m - 1 \in 1 .. n /\ m - 1 \notin B
      BY <3>2, <3>3, <3>4
    <3>6. h[m - 1] = f[m - 1]
      BY <3>5
    <3> QED BY <1>0, <3>3, <3>5, <3>6, <2>2, <2>3
  <2> QED BY <1>0, <2>5, <2>3, <2>4
<1>3. FlattenSeq(seqs) = (CHOOSE g : g = Steps(g))[n]
  BY <1>0 DEF FlattenSeq
<1>4. (CHOOSE g : g = Steps(g)) = f
  <2> HIDE DEF Steps
  <2> QED BY <1>1, <1>2
<1> QED BY <1>3, <1>4

\* Rounded up, so many pages hold all and the last is needed (Math.ceil).
LEMMA CeilFacts ==
  ASSUME NEW n \in Nat, NEW k \in Nat \ {0}
  PROVE  /\ Ceil(n, k) \in Nat /\ Ceil(n, k) * k >= n
         /\ Ceil(n, k) # 0 => (Ceil(n, k) - 1) * k < n
<1> DEFINE c == (n + k - 1) \div k
<1>1. n + k - 1 \in Nat
  OBVIOUS
<1>2. c \in Int /\ c * k <= n + k - 1 /\ n + k - 1 < (c + 1) * k
  BY <1>1
<1>3. (c + 1) * k = c * k + k /\ (c - 1) * k = c * k - k
  BY <1>2
<1> HIDE DEF c
<1>4. c >= 0
  BY <1>1, <1>2
<1>5. c * k >= n /\ (c - 1) * k < n
  <2>1. c * k \in Int
    BY <1>2
  <2> QED BY <1>2, <1>3, <2>1
<1> QED BY <1>4, <1>2, <1>5 DEF Ceil, c

\* The pages that are asked for begin within the history, and hold all of it or MaxTotal.
LEMMA PageCount ==
  ASSUME NEW total \in Nat
  PROVE  /\ PagesOf(total) \in Nat
         /\ PagesOf(total) * PageSize >= (IF total < MaxTotal THEN total ELSE MaxTotal)
         /\ PagesOf(total) # 0 => (PagesOf(total) - 1) * PageSize < total
<1>1. PageSize \in Nat \ {0} /\ MaxTotal \in Nat \ {0}
  BY HistoryCacheAssumption
<1> DEFINE wanted == IF total > MaxTotal THEN MaxTotal ELSE total
<1>2. wanted \in Nat /\ wanted <= total /\ wanted = IF total < MaxTotal THEN total ELSE MaxTotal
  BY <1>1
<1>3. PagesOf(total) = Ceil(wanted, PageSize)
  BY DEF PagesOf, CountedPages
<1> HIDE DEF wanted
<1> DEFINE c == Ceil(wanted, PageSize)
<1>4. c \in Nat /\ c * PageSize >= wanted /\ (c # 0 => (c - 1) * PageSize < wanted)
  BY <1>1, <1>2, CeilFacts
<1> HIDE DEF c
<1>5. c * PageSize \in Int /\ (c - 1) * PageSize \in Int
  BY <1>1, <1>4
<1> QED BY <1>2, <1>3, <1>4, <1>5 DEF c

\* Where the k-th page ends
End(list, k) == IF k * PageSize < Len(list) THEN k * PageSize ELSE Len(list)

\* The pages of one history, joined, are its beginning.
LEMMA JoinedPages ==
  ASSUME NEW list \in Seq(Nat), NEW n \in Nat, n # 0 => (n - 1) * PageSize < Len(list),
         NEW pages, DOMAIN pages = 1 .. n, \A k \in 1 .. n : pages[k] = PageOf(list, k)
  PROVE  FlattenSeq([k \in 1 .. n |-> pages[k]]) = SubSeq(list, 1, End(list, n))
<1> DEFINE seqs == [k \in 1 .. n |-> pages[k]]
           joined == [i \in 1 .. n |-> SubSeq(list, 1, End(list, i))]
<1>1. PageSize \in Nat \ {0} /\ Len(list) \in Nat
  BY HistoryCacheAssumption
<1>2. Len(seqs) = n
  OBVIOUS
<1>3. CASE n = 0
  <2>1. seqs = <<>> /\ FlattenSeq(seqs) = seqs
    BY <1>2, <1>3 DEF FlattenSeq
  <2>2. End(list, n) = 0
    BY <1>1, <1>3 DEF End
  <2>3. SubSeq(list, 1, 0) = <<>>
    BY SubSeqEmpty
  <2> QED BY <2>1, <2>2, <2>3
<1>4. CASE n # 0
  <2>1. ASSUME NEW i \in 1 .. n
        PROVE  joined[i] = IF i = 1 THEN seqs[i] ELSE joined[i - 1] \o seqs[i]
    <3>1. seqs[i] = SubSeq(list, (i - 1) * PageSize + 1, End(list, i))
      BY DEF PageOf, End
    <3>2. joined[i] = SubSeq(list, 1, End(list, i))
      OBVIOUS
    <3>3. CASE i = 1
      BY <1>1, <3>1, <3>2, <3>3
    <3>4. CASE i # 1
      <4>1. i \in Nat /\ i - 1 \in 1 .. n /\ i - 1 \in Nat \ {0}
        BY <3>4
      <4>2. (i - 1) * PageSize <= (n - 1) * PageSize /\ (i - 1) * PageSize < i * PageSize
        <5>1. i - 1 <= n - 1 /\ n - 1 \in Nat
          BY <1>4
        <5>2. (i - 1) * PageSize <= (n - 1) * PageSize
          BY <1>1, <4>1, <5>1
        <5>3. i * PageSize = (i - 1) * PageSize + PageSize /\ (i - 1) * PageSize \in Int
          BY <1>1, <4>1
        <5> QED BY <1>1, <5>2, <5>3
      <4> DEFINE m == (i - 1) * PageSize
      <4>3. m \in Nat /\ (n - 1) * PageSize \in Int /\ i * PageSize \in Int
        BY <1>1, <4>1
      <4>4. m < Len(list)
        <5> DEFINE last == (n - 1) * PageSize
        <5>1. last < Len(list) /\ m <= last /\ last \in Int
          BY <1>4, <4>2, <4>3
        <5> HIDE DEF m, last
        <5> QED BY <1>1, <4>3, <5>1
      <4>5. End(list, i - 1) = m
        BY <4>4 DEF End
      <4>6. End(list, i) \in m .. Len(list)
        BY <1>1, <4>2, <4>3, <4>4 DEF End
      <4>7. joined[i - 1] = SubSeq(list, 1, m)
        BY <4>1, <4>5
      <4> HIDE DEF m, joined, seqs
      <4>8. SubSeq(list, 1, m) \o SubSeq(list, m + 1, End(list, i)) = SubSeq(list, 1, End(list, i))
        <5>1. 1 \in 1 .. Len(list) + 1 /\ m \in 1 - 1 .. Len(list)
          BY <1>1, <4>3, <4>4
        <5> QED BY <5>1, <4>6, ConcatAdjacentSubSeq
      <4> QED BY <3>1, <3>2, <3>4, <4>7, <4>8 DEF m
    <3> QED BY <3>3, <3>4
  <2>2. n \in 1 .. n /\ n \in Nat \ {0} /\ 1 \in 1 .. n
    BY <1>4
  <2> DEFINE X == {joined[i] : i \in 1 .. n}
  <2>3. joined[n] = SubSeq(list, 1, End(list, n)) /\ joined \in [1 .. n -> X]
    BY <2>2
  <2>4. \A i \in 2 .. n : i \in 1 .. n /\ i # 1
    OBVIOUS
  <2> HIDE DEF joined, seqs, X
  <2>5. joined[1] = seqs[1] /\ \A i \in 2 .. n : joined[i] = joined[i - 1] \o seqs[i]
    BY <2>1, <2>2, <2>4
  <2>6. Joins(joined, seqs, n)
    BY <1>2, <2>3, <2>5 DEF Joins, X
  <2>7. FlattenSeq(seqs) = joined[n]
    BY <2>2, <2>6, FlattenedBySteps
  <2> QED BY <2>3, <2>7 DEF seqs
<1> QED BY <1>3, <1>4

\* What is loaded of a history that does not move is its beginning: all, or MaxTotal.
LEMMA LoadedIsWhole ==
  ASSUME NEW list \in Seq(Nat), NEW pages, DOMAIN pages = 1 .. PagesOf(Len(list)),
         \A k \in DOMAIN pages : pages[k] = PageOf(list, k)
  PROVE  LET all == FlattenSeq([k \in 1 .. PagesOf(Len(list)) |-> pages[k]])
         IN IsPrefix(all, list) /\ Len(all) >= Min({Len(list), MaxTotal})
<1> DEFINE n == PagesOf(Len(list))
           all == FlattenSeq([k \in 1 .. n |-> pages[k]])
           wanted == IF Len(list) < MaxTotal THEN Len(list) ELSE MaxTotal
<1>1. Len(list) \in Nat /\ PageSize \in Nat \ {0} /\ MaxTotal \in Nat
  BY HistoryCacheAssumption
<1>2. n \in Nat /\ n * PageSize >= wanted /\ (n # 0 => (n - 1) * PageSize < Len(list))
  BY <1>1, PageCount
<1>3. all = SubSeq(list, 1, End(list, n))
  <2> HIDE DEF n
  <2>1. DOMAIN pages = 1 .. n /\ \A k \in 1 .. n : pages[k] = PageOf(list, k)
    BY DEF n
  <2> QED BY <1>2, <2>1, JoinedPages
<1> HIDE DEF n
<1> DEFINE e == End(list, n)
<1>4. e \in 0 .. Len(list) /\ e >= wanted
  <2> DEFINE m == n * PageSize
  <2>1. m \in Nat /\ m >= wanted
    BY <1>1, <1>2
  <2> HIDE DEF m
  <2> QED BY <1>1, <2>1 DEF End, m
<1>5. Min({Len(list), MaxTotal}) = wanted
  <2>1. /\ wanted \in {Len(list), MaxTotal}
        /\ \A y \in {Len(list), MaxTotal} : wanted <= y
        /\ \A x \in {Len(list), MaxTotal} : (\A y \in {Len(list), MaxTotal} : x <= y) => x = wanted
    BY <1>1
  <2> HIDE DEF wanted
  <2> QED BY <2>1 DEF Min
<1> HIDE DEF e, all, wanted
<1>6. /\ Len(SubSeq(list, 1, e)) = e
      /\ SubSeq(SubSeq(list, 1, e), 1, e) = SubSeq(list, 1, e)
  BY <1>1, <1>4
<1>7. all = SubSeq(list, 1, e)
  BY <1>3 DEF e
<1>8. IsPrefix(all, list)
  BY <1>1, <1>4, <1>6, <1>7 DEF IsPrefix
<1>9. Len(all) >= Min({Len(list), MaxTotal})
  BY <1>4, <1>5, <1>6, <1>7
<1> QED BY <1>8, <1>9 DEF all, n

-----------------------------------------------------------------------------
(***************************************************************************)
(* A reader that saw nothing move since the count has counted the pages of *)
(* the history as it is, and holds pages of it under their numbers: that   *)
(* is ReaderFits, and what makes HistoryServedIsWhole inductive.           *)
(***************************************************************************)

Readers == [count : Nat \union {Absent}, pages : UNION {[D -> Seq(Nat)] : D \in SUBSET Nat},
            before : Seq(Nat), shifted : BOOLEAN]

ReaderFits(x, list) ==
  IF x.count = Absent
  THEN DOMAIN x.pages = {}
  ELSE /\ DOMAIN x.pages \subseteq 1 .. x.count
       /\ ~x.shifted => /\ x.before = list
                        /\ x.count = PagesOf(Len(list))
                        /\ \A k \in DOMAIN x.pages : x.pages[k] = PageOf(list, k)

ServedWhole(x) ==
  x # Absent =>
    /\ x = [history |-> x.history, before |-> x.before, shifted |-> x.shifted, age |-> x.age]
    /\ x.age \in 0 .. CacheTTL
    /\ x.shifted \/ /\ IsPrefix(x.history, x.before)
                    /\ Len(x.history) >= Min({Len(x.before), MaxTotal})

HistoryInv ==
  /\ activities \in Seq(Nat) /\ started \in Nat /\ readers \in Seq(Readers)
  /\ \A r \in DOMAIN readers : ReaderFits(readers[r], activities)
  /\ ServedWhole(cached) /\ ServedWhole(answer)

\* A reader, field by field.
LEMMA ReaderFields ==
  ASSUME NEW x \in Readers
  PROVE  x = [count |-> x.count, pages |-> x.pages, before |-> x.before, shifted |-> x.shifted]
<1> DEFINE P == UNION {[D -> Seq(Nat)] : D \in SUBSET Nat}
<1>1. x \in [count : Nat \union {Absent}, pages : P, before : Seq(Nat), shifted : BOOLEAN]
  BY DEF Readers
<1> HIDE DEF P
<1> QED BY <1>1

\* A reader that is told that the history moved.
LEMMA ReaderTold ==
  ASSUME NEW x \in Readers
  PROVE  [x EXCEPT !.shifted = TRUE] \in Readers
<1> DEFINE P == UNION {[D -> Seq(Nat)] : D \in SUBSET Nat}
<1>1. x \in [count : Nat \union {Absent}, pages : P, before : Seq(Nat), shifted : BOOLEAN]
  BY DEF Readers
<1>2. Readers = [count : Nat \union {Absent}, pages : P, before : Seq(Nat), shifted : BOOLEAN]
  BY DEF Readers
<1> HIDE DEF P
<1> QED BY <1>1, <1>2

\* A reader that gets its count.
LEMMA ReaderCounted ==
  ASSUME NEW x \in Readers, NEW list, NEW n, NEW s
  PROVE  [[[x EXCEPT !.before = list] EXCEPT !.shifted = s] EXCEPT !.count = n]
         = [count |-> n, pages |-> x.pages, before |-> list, shifted |-> s]
<1> DEFINE a == [x EXCEPT !.before = list]
           b == [a EXCEPT !.shifted = s]
           c == [b EXCEPT !.count = n]
<1>1. a = [count |-> x.count, pages |-> x.pages, before |-> list, shifted |-> x.shifted]
  BY ReaderFields
<1>2. b = [count |-> x.count, pages |-> x.pages, before |-> list, shifted |-> s]
  <2> HIDE DEF a
  <2> QED BY <1>1
<1>3. c = [count |-> n, pages |-> x.pages, before |-> list, shifted |-> s]
  <2> HIDE DEF a, b
  <2> QED BY <1>2
<1> QED BY <1>3, Zenon

\* A reader that gets a page.
LEMMA ReaderPaged ==
  ASSUME NEW x \in Readers, NEW p
  PROVE  [x EXCEPT !.pages = p]
         = [count |-> x.count, pages |-> p, before |-> x.before, shifted |-> x.shifted]
BY ReaderFields

\* A page is asked for only if it was counted.
LEMMA MissingWasCounted ==
  ASSUME NEW x \in Readers, x.count # Absent, DOMAIN x.pages \subseteq 1 .. x.count
  PROVE  Missing(x) \subseteq 1 .. x.count
<1>1. x.count \in Nat /\ MaxConcurrency \in Nat \ {0}
  BY HistoryCacheAssumption DEF Readers
<1>2. Cardinality(DOMAIN x.pages) \in Nat
  <2>1. IsFiniteSet(1 .. x.count)
    BY <1>1, FS_Interval
  <2> QED BY <2>1, FS_Subset, FS_CardinalityType
<1> DEFINE n == Cardinality(DOMAIN x.pages)
           q == n \div MaxConcurrency
<1>3. q \in Nat
  BY <1>1, <1>2
<1> HIDE DEF n, q
<1>4. q * MaxConcurrency \in Nat
  BY <1>1, <1>3
<1>5. Chunk(x) = (q * MaxConcurrency + 1) .. (IF q * MaxConcurrency + MaxConcurrency < x.count
                                              THEN q * MaxConcurrency + MaxConcurrency ELSE x.count)
  BY DEF Chunk, n, q
<1> DEFINE first == q * MaxConcurrency
<1>6. first \in Nat
  BY <1>4
<1> HIDE DEF first
<1> QED BY <1>1, <1>5, <1>6 DEF Missing, first

\* One of the readers is another, that fits; the history does not move.
LEMMA OtherReader ==
  ASSUME HistoryInv, activities' = activities, NEW r \in DOMAIN readers, NEW y \in Readers,
         ReaderFits(y, activities), readers' = [readers EXCEPT ![r] = y]
  PROVE  /\ readers' \in Seq(Readers)
         /\ \A i \in DOMAIN readers' : ReaderFits(readers'[i], activities')
<1>1. readers' \in Seq(Readers) /\ DOMAIN readers' = DOMAIN readers
  BY DEF HistoryInv
<1>2. \A i \in DOMAIN readers : readers'[i] = IF i = r THEN y ELSE readers[i]
  BY DEF HistoryInv
<1> HIDE DEF Readers
<1> QED BY <1>1, <1>2 DEF HistoryInv

\* One of the readers is gone; the history does not move.
LEMMA ReaderGone ==
  ASSUME HistoryInv, activities' = activities, NEW r \in DOMAIN readers,
         readers' = RemoveAt(readers, r)
  PROVE  /\ readers' \in Seq(Readers)
         /\ \A i \in DOMAIN readers' : ReaderFits(readers'[i], activities')
<1>1. readers \in Seq(Readers) /\ \A i \in DOMAIN readers : ReaderFits(readers[i], activities)
  BY DEF HistoryInv
<1>2. /\ readers' \in Seq(Readers)
      /\ \A j \in DOMAIN readers' : \E k \in DOMAIN readers : readers'[j] = readers[k]
  BY <1>1, RemoveAtKeeps
<1> QED BY <1>1, <1>2

\* The history moves, and each reader is told.
LEMMA ReadersTold ==
  ASSUME HistoryInv, readers' = AllShifted(readers)
  PROVE  /\ readers' \in Seq(Readers)
         /\ \A i \in DOMAIN readers' : ReaderFits(readers'[i], activities')
<1>1. readers \in Seq(Readers) /\ \A i \in DOMAIN readers : ReaderFits(readers[i], activities)
  BY DEF HistoryInv
<1>2. \A i \in DOMAIN readers : /\ readers[i] \in Readers
                                 /\ [readers[i] EXCEPT !.shifted = TRUE] \in Readers
  BY <1>1, ReaderTold
<1>3. DOMAIN readers' = DOMAIN readers /\ \A i \in DOMAIN readers : readers'[i] = [readers[i] EXCEPT !.shifted = TRUE]
  BY DEF AllShifted
<1>4. readers' \in Seq(Readers)
  <2> HIDE DEF Readers
  <2>1. readers' = [i \in 1 .. Len(readers) |-> [readers[i] EXCEPT !.shifted = TRUE]] /\ Len(readers) \in Nat
        /\ DOMAIN readers = 1 .. Len(readers)
    BY <1>1 DEF AllShifted
  <2> QED BY <1>2, <2>1
<1>5. ASSUME NEW i \in DOMAIN readers PROVE ReaderFits(readers'[i], activities')
  <2>1. /\ readers'[i].count = readers[i].count /\ readers'[i].pages = readers[i].pages
        /\ readers'[i].shifted
    BY <1>2, <1>3 DEF Readers
  <2> QED BY <1>1, <2>1 DEF ReaderFits
<1> QED BY <1>3, <1>4, <1>5

\* HistoryInv holds in every state.
THEOREM HistoryInvariant == Spec => []HistoryInv
<1>1. HistoryInit => HistoryInv
  <2> SUFFICES ASSUME HistoryInit PROVE HistoryInv
    OBVIOUS
  <2>1. started \in Nat /\ MaxStarts \in Nat
    BY HistoryCacheAssumption DEF HistoryInit
  <2>2. activities \in Seq(Nat)
    BY <2>1 DEF HistoryInit
  <2>3. readers = <<>> /\ cached = Absent /\ answer = Absent
    BY DEF HistoryInit
  <2> QED BY <2>1, <2>2, <2>3 DEF HistoryInv, ServedWhole
<1>2. HistoryInv /\ [HistoryNext]_historyVars => HistoryInv'
  <2> SUFFICES ASSUME HistoryInv, [HistoryNext]_historyVars PROVE HistoryInv'
    OBVIOUS
  <2>0. /\ activities \in Seq(Nat) /\ started \in Nat /\ readers \in Seq(Readers)
        /\ \A r \in DOMAIN readers : readers[r] \in Readers /\ ReaderFits(readers[r], activities)
        /\ ServedWhole(cached) /\ ServedWhole(answer)
    BY DEF HistoryInv
  <2>1. CASE ReadHistory
    <3>1. UNCHANGED <<activities, started, cached>> /\ ServedWhole(answer')
      BY <2>0, <2>1 DEF ReadHistory
    <3> DEFINE new == [count |-> Absent, pages |-> <<>>, before |-> <<>>, shifted |-> FALSE]
    <3>2. new \in Readers /\ ReaderFits(new, activities)
      <4>1. <<>> \in Seq(Nat) /\ <<>> \in [{} -> Seq(Nat)] /\ {} \in SUBSET Nat
        OBVIOUS
      <4>2. <<>> \in UNION {[D -> Seq(Nat)] : D \in SUBSET Nat}
        BY <4>1
      <4>3. DOMAIN <<>> = {}
        OBVIOUS
      <4> QED BY <4>1, <4>2, <4>3 DEF Readers, ReaderFits
    <3>3. readers' = readers \/ readers' = Append(readers, new)
      BY <2>1 DEF ReadHistory
    <3> HIDE DEF new
    <3>4. readers' \in Seq(Readers) /\ \A r \in DOMAIN readers' : ReaderFits(readers'[r], activities')
      <4>1. CASE readers' = readers
        BY <2>0, <3>1, <4>1
      <4>2. CASE readers' = Append(readers, new)
        BY <2>0, <3>1, <3>2, <4>2
      <4> QED BY <3>3, <4>1, <4>2
    <3> QED BY <2>0, <3>1, <3>4 DEF HistoryInv
  <2>2. ASSUME NEW r \in DOMAIN readers, CountAnswered(r) PROVE HistoryInv'
    <3> DEFINE y == [count |-> PagesOf(Len(activities)), pages |-> readers[r].pages,
                     before |-> activities, shifted |-> FALSE]
    <3>1. readers[r].count = Absent /\ UNCHANGED <<activities, started, cached, answer>>
      BY <2>2 DEF CountAnswered
    <3>2. readers' = [readers EXCEPT ![r] = y]
      <4>1. readers' = [readers EXCEPT ![r].before = activities, ![r].shifted = FALSE,
                                       ![r].count = PagesOf(Len(activities))]
        BY <2>2 DEF CountAnswered
      <4> DEFINE x == readers[r]
                 a == [x EXCEPT !.before = activities]
                 f == [readers EXCEPT ![r] = a]
                 b == [a EXCEPT !.shifted = FALSE]
                 g == [readers EXCEPT ![r] = b]
                 c == [b EXCEPT !.count = PagesOf(Len(activities))]
      <4>2. f[r] = a /\ g[r] = b
        BY <2>0
      <4>3. [f EXCEPT ![r] = b] = g
        <5> HIDE DEF a, b
        <5> QED BY <2>0
      <4>4. [g EXCEPT ![r] = c] = [readers EXCEPT ![r] = c]
        <5> HIDE DEF b, c
        <5> QED BY <2>0
      <4>5. c = y
        BY <2>0, ReaderCounted, Zenon
      <4>6. readers' = [g EXCEPT ![r] = [g[r] EXCEPT !.count = PagesOf(Len(activities))]]
        <5>1. readers' = [[f EXCEPT ![r] = [f[r] EXCEPT !.shifted = FALSE]] EXCEPT
                            ![r] = [[f EXCEPT ![r] = [f[r] EXCEPT !.shifted = FALSE]][r]
                                    EXCEPT !.count = PagesOf(Len(activities))]]
          BY <4>1, Zenon
        <5>2. [f[r] EXCEPT !.shifted = FALSE] = b
          BY <4>2, Zenon
        <5> HIDE DEF a, b, f, g
        <5> QED BY <4>3, <5>1, <5>2, Zenon
      <4>7. readers' = [g EXCEPT ![r] = c]
        <5> HIDE DEF a, b, f, g
        <5> QED BY <4>2, <4>6, Zenon
      <4> QED BY <4>4, <4>5, <4>7, Zenon
    <3>3. PagesOf(Len(activities)) \in Nat
      BY <2>0, PageCount
    <3>4. y \in Readers
      BY <2>0, <3>3 DEF Readers
    <3>5. DOMAIN readers[r].pages = {}
      BY <2>0, <3>1 DEF ReaderFits
    <3>6. ReaderFits(y, activities)
      BY <3>5 DEF ReaderFits
    <3> HIDE DEF y
    <3>7. readers' \in Seq(Readers) /\ \A i \in DOMAIN readers' : ReaderFits(readers'[i], activities')
      BY <3>1, <3>2, <3>4, <3>6, OtherReader
    <3> QED BY <2>0, <3>1, <3>7 DEF HistoryInv
  <2>3. ASSUME NEW r \in DOMAIN readers, NEW k \in Missing(readers[r]), PageAnswered(r, k)
        PROVE HistoryInv'
    <3> DEFINE x == readers[r]
               more == [j \in DOMAIN x.pages \union {k} |->
                          IF j = k THEN PageOf(activities, k) ELSE x.pages[j]]
               y == [count |-> x.count, pages |-> more, before |-> x.before, shifted |-> x.shifted]
    <3>1. x.count # Absent /\ UNCHANGED <<activities, started, cached, answer>>
      BY <2>3 DEF PageAnswered
    <3>2. x \in Readers /\ ReaderFits(x, activities)
      BY <2>0
    <3>3. DOMAIN x.pages \subseteq 1 .. x.count /\ k \in 1 .. x.count /\ x.count \in Nat
      <4>1. DOMAIN x.pages \subseteq 1 .. x.count /\ x.count \in Nat
        BY <3>1, <3>2 DEF ReaderFits, Readers
      <4> QED BY <3>1, <3>2, <4>1, MissingWasCounted
    <3>4. readers' = [readers EXCEPT ![r] = y]
      <4>1. readers' = [readers EXCEPT ![r].pages = more]
        BY <2>3 DEF PageAnswered
      <4> HIDE DEF more
      <4>2. [x EXCEPT !.pages = more] = y
        BY <3>2, ReaderPaged, Zenon
      <4> QED BY <4>1, <4>2
    <3>5. x.pages \in [DOMAIN x.pages -> Seq(Nat)] /\ DOMAIN x.pages \subseteq Nat
      BY <3>2 DEF Readers
    <3>6. PageOf(activities, k) \in Seq(Nat)
      <4>1. PageSize \in Nat \ {0} /\ Len(activities) \in Nat /\ k \in Nat \ {0}
        BY <2>0, <3>3, HistoryCacheAssumption
      <4>2. (k - 1) * PageSize \in Nat /\ k * PageSize \in Nat
        BY <4>1
      <4> DEFINE a == (k - 1) * PageSize
                 b == k * PageSize
      <4>3. a \in Nat /\ b \in Nat
        BY <4>2
      <4>4. PageOf(activities, k) = SubSeq(activities, a + 1, IF b < Len(activities) THEN b ELSE Len(activities))
        BY DEF PageOf
      <4> HIDE DEF a, b
      <4> QED BY <2>0, <4>1, <4>3, <4>4
    <3>7. more \in [DOMAIN x.pages \union {k} -> Seq(Nat)] /\ DOMAIN x.pages \union {k} \in SUBSET Nat
      BY <3>3, <3>5, <3>6
    <3>8. y \in Readers
      <4> HIDE DEF more
      <4>1. more \in UNION {[D -> Seq(Nat)] : D \in SUBSET Nat}
        BY <3>7
      <4> QED BY <3>2, <4>1 DEF Readers
    <3>9. ReaderFits(y, activities)
      <4>1. DOMAIN more = DOMAIN x.pages \union {k}
        OBVIOUS
      <4>2. \A j \in DOMAIN more : more[j] = IF j = k THEN PageOf(activities, k) ELSE x.pages[j]
        OBVIOUS
      <4> HIDE DEF more
      <4>3. y.count = x.count /\ y.pages = more /\ y.before = x.before /\ y.shifted = x.shifted
        OBVIOUS
      <4> QED BY <3>1, <3>2, <3>3, <4>1, <4>2, <4>3 DEF ReaderFits
    <3> HIDE DEF y
    <3>a. readers' \in Seq(Readers) /\ \A i \in DOMAIN readers' : ReaderFits(readers'[i], activities')
      BY <3>1, <3>4, <3>8, <3>9, OtherReader
    <3> QED BY <2>0, <3>1, <3>a DEF HistoryInv
  <2>4. ASSUME NEW r \in DOMAIN readers, HistoryLoaded(r) PROVE HistoryInv'
    <3> DEFINE x == readers[r]
    <3>1. /\ x.count # Absent /\ DOMAIN x.pages = 1 .. x.count
          /\ cached' = [history |-> Result(x), before |-> x.before, shifted |-> x.shifted, age |-> 0]
          /\ answer' = cached' /\ readers' = RemoveAt(readers, r) /\ UNCHANGED <<activities, started>>
      BY <2>4 DEF HistoryLoaded, AllPagesThere
    <3>2. x \in Readers /\ ReaderFits(x, activities)
      BY <2>0
    <3>3. ~x.shifted => /\ IsPrefix(Result(x), x.before)
                        /\ Len(Result(x)) >= Min({Len(x.before), MaxTotal})
      <4> SUFFICES ASSUME ~x.shifted
                   PROVE  /\ IsPrefix(Result(x), x.before)
                          /\ Len(Result(x)) >= Min({Len(x.before), MaxTotal})
        OBVIOUS
      <4>1. /\ x.before = activities /\ x.count = PagesOf(Len(activities))
            /\ \A k \in DOMAIN x.pages : x.pages[k] = PageOf(activities, k)
        BY <3>1, <3>2 DEF ReaderFits
      <4>2. Result(x) = FlattenSeq([k \in 1 .. PagesOf(Len(activities)) |-> x.pages[k]])
        BY <4>1 DEF Result
      <4> DEFINE pages == x.pages
      <4>3. /\ DOMAIN pages = 1 .. PagesOf(Len(activities))
            /\ \A k \in DOMAIN pages : pages[k] = PageOf(activities, k)
        BY <3>1, <4>1
      <4>4. Result(x) = FlattenSeq([k \in 1 .. PagesOf(Len(activities)) |-> pages[k]])
        BY <4>2
      <4> HIDE DEF pages
      <4>5. IsPrefix(Result(x), activities) /\ Len(Result(x)) >= Min({Len(activities), MaxTotal})
        BY <2>0, <4>3, <4>4, LoadedIsWhole
      <4> QED BY <4>1, <4>5
    <3>4. CacheTTL \in Nat
      BY HistoryCacheAssumption
    <3>5. ServedWhole(cached')
      BY <3>1, <3>3, <3>4 DEF ServedWhole
    <3>6. readers' \in Seq(Readers) /\ \A i \in DOMAIN readers' : ReaderFits(readers'[i], activities')
      BY <3>1, ReaderGone
    <3> QED BY <2>0, <3>1, <3>5, <3>6 DEF HistoryInv
  <2>5. ASSUME NEW r \in DOMAIN readers, LoadFails(r) PROVE HistoryInv'
    <3>1. readers' = RemoveAt(readers, r) /\ UNCHANGED <<activities, started, cached, answer>>
      BY <2>5 DEF LoadFails
    <3>2. readers' \in Seq(Readers) /\ \A i \in DOMAIN readers' : ReaderFits(readers'[i], activities')
      BY <3>1, ReaderGone
    <3> QED BY <2>0, <3>1, <3>2 DEF HistoryInv
  <2>6. CASE ActivityStarts
    <3>1. /\ started' = started + 1 /\ activities' = <<started + 1>> \o activities
          /\ readers' = AllShifted(readers) /\ UNCHANGED <<cached, answer>>
      BY <2>6 DEF ActivityStarts
    <3>2. activities' \in Seq(Nat) /\ started' \in Nat
      BY <2>0, <3>1
    <3>3. readers' \in Seq(Readers) /\ \A i \in DOMAIN readers' : ReaderFits(readers'[i], activities')
      BY <3>1, ReadersTold
    <3> QED BY <2>0, <3>1, <3>2, <3>3 DEF HistoryInv
  <2>7. CASE EngineCleansUp
    <3>1. /\ activities' = SubSeq(activities, 1, Len(activities) - 1) /\ Len(activities) > 0
          /\ readers' = AllShifted(readers) /\ UNCHANGED <<started, cached, answer>>
      BY <2>7 DEF EngineCleansUp
    <3>2. activities' \in Seq(Nat)
      BY <2>0, <3>1
    <3>3. readers' \in Seq(Readers) /\ \A i \in DOMAIN readers' : ReaderFits(readers'[i], activities')
      BY <3>1, ReadersTold
    <3> QED BY <2>0, <3>1, <3>2, <3>3 DEF HistoryInv
  <2>8. CASE HistoryTick
    <3>1. /\ cached # Absent
          /\ cached' = IF cached.age = CacheTTL THEN Absent ELSE [cached EXCEPT !.age = @ + 1]
          /\ UNCHANGED <<activities, started, readers, answer>>
      BY <2>8 DEF HistoryTick
    <3>2. CacheTTL \in Nat
      BY HistoryCacheAssumption
    <3>3. ServedWhole(cached')
      <4>1. CASE cached.age = CacheTTL
        BY <3>1, <4>1 DEF ServedWhole
      <4>2. CASE cached.age # CacheTTL
        <5>1. cached = [history |-> cached.history, before |-> cached.before,
                        shifted |-> cached.shifted, age |-> cached.age]
          BY <2>0, <3>1 DEF ServedWhole
        <5>2. cached' = [history |-> cached.history, before |-> cached.before,
                         shifted |-> cached.shifted, age |-> cached.age + 1]
          BY <3>1, <4>2, <5>1
        <5>3. cached.age + 1 \in 0 .. CacheTTL
          BY <2>0, <3>1, <3>2, <4>2 DEF ServedWhole
        <5> QED BY <2>0, <3>1, <5>2, <5>3 DEF ServedWhole
      <4> QED BY <4>1, <4>2
    <3> QED BY <2>0, <3>1, <3>3 DEF HistoryInv
  <2>9. CASE ClearCache
    <3>1. cached' = Absent /\ UNCHANGED <<activities, started, readers, answer>>
      BY <2>9 DEF ClearCache
    <3> QED BY <2>0, <3>1 DEF HistoryInv, ServedWhole
  <2>a. CASE UNCHANGED historyVars
    BY <2>0, <2>a DEF historyVars, HistoryInv
  <2> QED BY <2>1, <2>2, <2>3, <2>4, <2>5, <2>6, <2>7, <2>8, <2>9, <2>a DEF HistoryNext
<1>3. ServicesInit => HistoryInv
  BY <1>1, AllMachinesStart
<1>4. HistoryInv /\ [ServicesNext]_serviceVars => HistoryInv'
  BY <1>2, OneMachineMoves
<1> QED BY <1>3, <1>4, PTL DEF Spec, serviceVars

\* However many requests load at a time, in whatever order their pages come,
\* for any size of a page, any limit and any history: the history that a
\* request is answered with is not older than the cache allows and, when
\* nothing started or was removed under its load, is the newest part of the
\* history as it was counted, all of it or at least MaxTotal.
THEOREM HistoryWhole == Spec => []HistoryServedIsWhole
<1>1. HistoryInv => HistoryServedIsWhole
  <2>1. CacheTTL \in Nat
    BY HistoryCacheAssumption
  <2> QED BY <2>1 DEF HistoryInv, ServedWhole, HistoryServedIsWhole
<1> QED BY <1>1, HistoryInvariant, PTL
=============================================================================
