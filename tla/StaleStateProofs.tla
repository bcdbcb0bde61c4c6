-------------------------- MODULE StaleStateProofs --------------------------
(***************************************************************************)
(* Proofs about the two places where a process acts on what it read some   *)
(* time before: the handshakes and sessions in the cookies of a request    *)
(* (Login), and the entries and generations a fetch of the cache works     *)
(* with (Cache). Any number of browsers and requests, keys and callers.    *)
(***************************************************************************)
EXTENDS Login, Cache, FiniteSetTheorems, SequenceTheorems, TLAPS

(* The login handshake *)

CallFields == {"pc", "browser", "prov", "state", "code", "to", "token", "spent"}

LoginShape ==
  /\ DOMAIN call = Calls /\ \A x \in Calls : DOMAIN call[x] = CallFields
  /\ DOMAIN stateJar = Browsers /\ DOMAIN sessJar = Browsers
  /\ DOMAIN burnt = Browsers /\ DOMAIN ended = Browsers
  /\ \A b \in Browsers : DOMAIN stateJar[b] = Names /\ DOMAIN sessJar[b] = Names
  /\ \A b \in Browsers, n \in Names : DOMAIN stateJar[b][n] = {"attempt", "next"}

\* A handshake cookie is of an attempt its browser started, and not one that a
\* callback's response found there before.
HandshakeIn(b, n) ==
  /\ stateJar[b][n].attempt \in Nat
  /\ stateJar[b][n].attempt # 0 =>
       /\ stateJar[b][n].attempt <= Len(starter)
       /\ starter[stateJar[b][n].attempt] = b
       /\ stateJar[b][n].attempt \notin burnt[b]

JarInv ==
  /\ starter \in Seq(Browsers)
  /\ \A b \in Browsers, n \in Names : HandshakeIn(b, n)
  /\ \A b \in Browsers : \A a \in burnt[b] : a \in Nat /\ a <= Len(starter)

PastState == (Reasons \ {"expired"}) \cup {"exchange", "issue", "signed_in"}

\* Past the state check a call works on an attempt its browser started, which
\* was not spent when the call began.
StateOf(x) ==
  call[x].pc \in PastState =>
    /\ call[x].state \in 1..Len(starter)
    /\ starter[call[x].state] = call[x].browser
    /\ ~call[x].spent

\* A token is in one jar or on its way to one, or it was logged out, and a
\* session created now has another.
TokenInv ==
  /\ minted \in Nat
  /\ \A b \in Browsers, n \in Names :
       /\ sessJar[b][n] \in Nat /\ sessJar[b][n] <= minted
       /\ sessJar[b][n] # 0 => sessJar[b][n] \notin ended[b]
  /\ \A b \in Browsers : \A t \in ended[b] : t \in Nat /\ t <= minted

TokenOf(x) ==
  /\ call[x].token \in Nat /\ call[x].token <= minted
  /\ call[x].token # 0 =>
       /\ \A b \in Browsers : call[x].token \notin ended[b]
       /\ \A b \in Browsers, n \in Names : call[x].token # sessJar[b][n]
       /\ \A y \in Calls : y # x => call[y].token # call[x].token

BrowserOf(x) == call[x].pc # "idle" => call[x].browser \in Browsers

LoginInv ==
  /\ LoginShape /\ JarInv /\ TokenInv
  /\ \A x \in Calls : StateOf(x) /\ TokenOf(x) /\ BrowserOf(x)
-----------------------------------------------------------------------------
LEMMA IdleFacts ==
  DOMAIN Idle = CallFields /\ Idle.pc = "idle" /\ Idle.token = 0
BY DEF Idle, CallFields

LEMMA NoStateFacts == DOMAIN NoState = {"attempt", "next"} /\ NoState.attempt = 0
BY DEF NoState

LEMMA PastStateFacts ==
  PastState = {"refused", "not_exchanged", "server", "exchange", "issue", "signed_in"}
BY DEF PastState, Reasons

LEMMA BecomesFacts ==
  ASSUME LoginInv, NEW x \in Calls, NEW c, Becomes(x, c)
  PROVE  /\ DOMAIN call' = Calls /\ call'[x] = c
         /\ \A y \in Calls \ {x} : call'[y] = call[y]
BY DEF LoginInv, LoginShape, Becomes

\* A call that does not move, and one whose step is over.
LEMMA CallKeeps ==
  ASSUME NEW y \in Calls, StateOf(y), BrowserOf(y), call'[y] = call[y], Len(starter) \in Nat,
         Len(starter') \in Nat, Len(starter) <= Len(starter'),
         \A a \in 1..Len(starter) : starter'[a] = starter[a]
  PROVE  StateOf(y)' /\ BrowserOf(y)'
BY DEF StateOf, BrowserOf, PastState, Reasons

LEMMA IdleCall ==
  ASSUME NEW x \in Calls, call'[x] = Idle
  PROVE  StateOf(x)' /\ BrowserOf(x)'
BY IdleFacts, PastStateFacts DEF StateOf, BrowserOf

\* Calls whose tokens are those of before or none.
LEMMA TokensOfCalls ==
  ASSUME LoginInv, minted' \in Nat, minted <= minted',
         \A y \in Calls : call'[y].token = call[y].token \/ call'[y].token = 0,
         \A y \in Calls : call'[y].token # 0 =>
           /\ \A b \in Browsers : call'[y].token \notin ended'[b]
           /\ \A b \in Browsers, n \in Names : call'[y].token # sessJar'[b][n]
  PROVE  \A y \in Calls : TokenOf(y)'
<1> SUFFICES ASSUME NEW y \in Calls PROVE TokenOf(y)'
  OBVIOUS
<1>1. TokenOf(y) /\ minted \in Nat
  BY DEF LoginInv, TokenInv
<1>2. call'[y].token \in Nat /\ call'[y].token <= minted'
  BY <1>1 DEF TokenOf
<1>3. ASSUME call'[y].token # 0, NEW z \in Calls, z # y PROVE call'[z].token # call'[y].token
  BY <1>1, <1>3 DEF TokenOf
<1> QED BY <1>2, <1>3 DEF TokenOf

\* A step that leaves jars, store and histories alone and moves one call,
\* whose token stays or is dropped.
LEMMA OneCallMoves ==
  ASSUME LoginInv, NEW x \in Calls, NEW c, Becomes(x, c), DOMAIN c = CallFields,
         c.token = call[x].token \/ c.token = 0, StateOf(x)', BrowserOf(x)',
         UNCHANGED <<stateJar, sessJar, starter, minted, burnt, ended>>
  PROVE  LoginInv'
<1>1. /\ DOMAIN call' = Calls /\ call'[x] = c
      /\ \A y \in Calls \ {x} : call'[y] = call[y]
  BY BecomesFacts
<1>2. LoginShape'
  BY <1>1 DEF LoginInv, LoginShape
<1>3. JarInv' /\ TokenInv'
  BY DEF LoginInv, JarInv, HandshakeIn, TokenInv
<1>4. \A y \in Calls : TokenOf(y)'
  <2>1. minted' \in Nat /\ minted <= minted'
    BY DEF LoginInv, TokenInv
  <2>2. \A y \in Calls : call'[y].token = call[y].token \/ call'[y].token = 0
    BY <1>1
  <2>3. ASSUME NEW y \in Calls, call'[y].token # 0
        PROVE  /\ \A b \in Browsers : call'[y].token \notin ended'[b]
               /\ \A b \in Browsers, n \in Names : call'[y].token # sessJar'[b][n]
    BY <2>2, <2>3 DEF LoginInv, TokenOf
  <2> QED BY <2>1, <2>2, <2>3, TokensOfCalls
<1>5. ASSUME NEW y \in Calls \ {x} PROVE StateOf(y)' /\ BrowserOf(y)'
  <2>1. StateOf(y) /\ BrowserOf(y) /\ Len(starter) \in Nat
    BY DEF LoginInv, JarInv
  <2> QED BY <1>1, <2>1, CallKeeps
<1> QED BY <1>2, <1>3, <1>4, <1>5 DEF LoginInv

LEMMA LoginStarts == Init => LoginInv
<1> SUFFICES ASSUME Init PROVE LoginInv
  OBVIOUS
<1>1. LoginShape
  BY IdleFacts, NoStateFacts DEF Init, LoginShape
<1>2. JarInv
  BY NoStateFacts DEF Init, JarInv, HandshakeIn
<1>3. TokenInv
  BY DEF Init, TokenInv
<1>4. \A x \in Calls : StateOf(x) /\ TokenOf(x) /\ BrowserOf(x)
  BY IdleFacts, PastStateFacts DEF Init, StateOf, TokenOf, BrowserOf
<1> QED BY <1>1, <1>2, <1>3, <1>4 DEF LoginInv

\* What a browser's jar is after one cookie of it is set.
LEMMA CookieSet ==
  ASSUME NEW S, NEW N, NEW jar, DOMAIN jar = S, NEW b \in S, DOMAIN jar[b] = N, NEW n \in N,
         NEW v, NEW new, new = [jar EXCEPT ![b][n] = v]
  PROVE  /\ DOMAIN new = S /\ DOMAIN new[b] = N /\ new[b][n] = v
         /\ \A m \in N : m # n => new[b][m] = jar[b][m]
         /\ \A d \in S : d # b => new[d] = jar[d]
OBVIOUS

LEMMA CookieNameFacts == \A p : CookieName(p) \in Names
BY DEF CookieName, Names

LEMMA LoginKeeps ==
  ASSUME LoginInv, NEW b \in Browsers, NEW raw, Login(b, raw)
  PROVE  LoginInv'
<1> DEFINE n == CookieName(prov)
           v == [attempt |-> Len(starter'), next |-> SafeReturnPath(raw)]
<1>1. /\ stateJar' = [stateJar EXCEPT ![b][n] = v] /\ starter' = Append(starter, b)
      /\ UNCHANGED <<sessJar, minted, burnt, ended, call>>
  BY DEF Login, storeVars, histVars
<1>2. n \in Names
  BY CookieNameFacts
<1>3. DOMAIN v = {"attempt", "next"} /\ v.attempt = Len(starter')
  OBVIOUS
<1>4. /\ Len(starter) \in Nat /\ Len(starter') = Len(starter) + 1 /\ starter' \in Seq(Browsers)
      /\ \A a \in 1..Len(starter) : starter'[a] = starter[a]
      /\ starter'[Len(starter')] = b
  BY <1>1 DEF LoginInv, JarInv
<1> HIDE DEF n, v
<1>5. /\ DOMAIN stateJar' = Browsers /\ DOMAIN stateJar'[b] = Names /\ stateJar'[b][n] = v
      /\ \A m \in Names : m # n => stateJar'[b][m] = stateJar[b][m]
      /\ \A d \in Browsers : d # b => stateJar'[d] = stateJar[d]
  BY <1>1, <1>2, CookieSet DEF LoginInv, LoginShape
<1>6. LoginShape'
  BY <1>1, <1>3, <1>5 DEF LoginInv, LoginShape
<1>7. ASSUME NEW d \in Browsers, NEW m \in Names PROVE HandshakeIn(d, m)'
  <2>1. HandshakeIn(d, m) /\ \A a \in burnt[d] : a \in Nat /\ a <= Len(starter)
    BY DEF LoginInv, JarInv
  <2>2. CASE d = b /\ m = n
    <3>1. stateJar'[d][m].attempt = Len(starter) + 1
      BY <1>3, <1>4, <1>5, <2>2
    <3>2. Len(starter) + 1 \notin burnt[d]
      BY <1>4, <2>1
    <3> QED BY <1>1, <1>4, <2>2, <3>1, <3>2 DEF HandshakeIn
  <2>3. CASE ~(d = b /\ m = n)
    <3>1. stateJar'[d][m] = stateJar[d][m]
      BY <1>5, <2>3
    <3> QED BY <1>1, <1>4, <2>1, <3>1 DEF HandshakeIn
  <2> QED BY <2>2, <2>3
<1>8. ASSUME NEW d \in Browsers, NEW a \in burnt'[d] PROVE a \in Nat /\ a <= Len(starter')
  <2>1. a \in Nat /\ a <= Len(starter)
    BY <1>1 DEF LoginInv, JarInv
  <2> QED BY <1>4, <2>1
<1>9. JarInv'
  BY <1>4, <1>7, <1>8 DEF JarInv
<1>10. TokenInv'
  BY <1>1 DEF LoginInv, TokenInv
<1>11. ASSUME NEW y \in Calls PROVE StateOf(y)' /\ BrowserOf(y)' /\ TokenOf(y)'
  <2>1. StateOf(y) /\ BrowserOf(y) /\ TokenOf(y) /\ call'[y] = call[y]
    BY <1>1 DEF LoginInv
  <2>2. Len(starter) <= Len(starter') /\ Len(starter') \in Nat
    BY <1>4
  <2>3. StateOf(y)' /\ BrowserOf(y)'
    BY <1>4, <2>1, <2>2, CallKeeps
  <2> QED BY <1>1, <2>1, <2>3 DEF TokenOf
<1> QED BY <1>6, <1>9, <1>10, <1>11 DEF LoginInv

LEMMA CallbackBeginsKeeps ==
  ASSUME LoginInv, NEW x \in Calls, NEW b \in Browsers, NEW q \in Answer, CallbackBegins(x, b, q)
  PROVE  LoginInv'
<1> DEFINE cookie == stateJar[b][CookieName(prov)]
           outcome == CallbackOutcome(cookie, q)
           c == [pc |-> outcome, browser |-> b, prov |-> prov,
                 state |-> q.state, code |-> q.code,
                 to |-> IF outcome = "exchange" THEN SafeReturnPath(cookie.next) ELSE "here",
                 token |-> 0, spent |-> q.state \in burnt[b]]
<1>1. /\ Becomes(x, c)
      /\ UNCHANGED <<stateJar, sessJar, starter, minted, burnt, ended>>
  BY DEF CallbackBegins, idpVars, storeVars, histVars
<1>2. HandshakeIn(b, CookieName(prov)) /\ Len(starter) \in Nat
  BY CookieNameFacts DEF LoginInv, JarInv
<1>3. q.state \in Nat /\ q.state # 0
  BY LoginAssumption DEF Answer, Attempts
<1>4. outcome \in PastState => q.state = cookie.attempt
  BY PastStateFacts DEF CallbackOutcome
<1>5. DOMAIN c = CallFields
  BY DEF CallFields
<1>6. c.pc = outcome /\ c.browser = b /\ c.state = q.state /\ c.token = 0
  OBVIOUS
<1>7. c.spent <=> q.state \in burnt[b]
  OBVIOUS
<1> HIDE DEF c, outcome
<1>8. call'[x] = c
  BY <1>1, BecomesFacts
<1>9. StateOf(x)'
  <2> SUFFICES ASSUME outcome \in PastState
               PROVE  q.state \in 1..Len(starter) /\ starter[q.state] = b /\ q.state \notin burnt[b]
    BY <1>1, <1>6, <1>7, <1>8 DEF StateOf, PastState, Reasons
  <2> QED BY <1>2, <1>3, <1>4 DEF HandshakeIn
<1>10. BrowserOf(x)'
  BY <1>6, <1>8 DEF BrowserOf
<1> QED BY <1>1, <1>5, <1>6, <1>9, <1>10, OneCallMoves

LEMMA ExchangeKeeps ==
  ASSUME LoginInv, NEW x \in Calls, NEW ok, ExchangeSucceeds(x) \/ ExchangeFails(x, ok)
  PROVE  LoginInv'
<1>1. PICK s \in {"issue", "not_exchanged"}, to \in {"here", call[x].to} :
        Becomes(x, [call[x] EXCEPT !.pc = s, !.code = 0, !.to = to])
  <2>1. CASE ExchangeSucceeds(x)
    <3>1. DOMAIN call[x] = CallFields
      BY DEF LoginInv, LoginShape
    <3>2. [call[x] EXCEPT !.pc = "issue", !.code = 0] =
            [call[x] EXCEPT !.pc = "issue", !.code = 0, !.to = call[x].to]
      BY <3>1 DEF CallFields
    <3> QED BY <2>1, <3>2 DEF ExchangeSucceeds
  <2>2. CASE ExchangeFails(x, ok)
    BY <2>2 DEF ExchangeFails
  <2> QED BY <2>1, <2>2
<1>2. UNCHANGED <<stateJar, sessJar, starter, minted, burnt, ended>> /\ call[x].pc = "exchange"
  BY DEF ExchangeSucceeds, ExchangeFails, storeVars, histVars
<1> DEFINE c == [call[x] EXCEPT !.pc = s, !.code = 0, !.to = to]
<1>3. /\ DOMAIN c = CallFields /\ c.pc = s /\ c.browser = call[x].browser
      /\ c.state = call[x].state /\ c.token = call[x].token /\ c.spent = call[x].spent
  BY DEF LoginInv, LoginShape, CallFields
<1>4. Becomes(x, c)
  BY <1>1
<1> HIDE DEF c
<1>5. call'[x] = c
  BY <1>4, BecomesFacts
<1>6. StateOf(x) /\ BrowserOf(x)
  BY DEF LoginInv
<1>7. StateOf(x)' /\ BrowserOf(x)'
  BY <1>2, <1>3, <1>5, <1>6, PastStateFacts DEF StateOf, BrowserOf, PastState, Reasons
<1> QED BY <1>2, <1>3, <1>4, <1>7, OneCallMoves

LEMMA IssueSessionKeeps ==
  ASSUME LoginInv, NEW x \in Calls, NEW ok, IssueSession(x, ok)
  PROVE  LoginInv'
<1>1. UNCHANGED <<stateJar, sessJar, starter, burnt, ended>> /\ call[x].pc = "issue"
  BY DEF IssueSession, idpVars, histVars
<1>2. StateOf(x) /\ BrowserOf(x) /\ TokenOf(x) /\ DOMAIN call[x] = CallFields
  BY DEF LoginInv, LoginShape
<1>3. CASE ~ok
  <2> DEFINE c == [call[x] EXCEPT !.pc = "server", !.to = "here"]
  <2>1. /\ DOMAIN c = CallFields /\ c.pc = "server" /\ c.browser = call[x].browser
        /\ c.state = call[x].state /\ c.token = call[x].token /\ c.spent = call[x].spent
    BY <1>2 DEF CallFields
  <2>2. Becomes(x, c) /\ minted' = minted
    BY <1>3 DEF IssueSession
  <2> HIDE DEF c
  <2>3. call'[x] = c
    BY <2>2, BecomesFacts
  <2>4. StateOf(x)' /\ BrowserOf(x)'
    BY <1>1, <1>2, <2>1, <2>3, PastStateFacts DEF StateOf, BrowserOf, PastState, Reasons
  <2> QED BY <1>1, <2>1, <2>2, <2>4, OneCallMoves
<1>4. CASE ok
  <2> DEFINE c == [call[x] EXCEPT !.pc = "signed_in", !.token = minted']
  <2>1. /\ DOMAIN c = CallFields /\ c.pc = "signed_in" /\ c.browser = call[x].browser
        /\ c.state = call[x].state /\ c.token = minted' /\ c.spent = call[x].spent
    BY <1>2 DEF CallFields
  <2>2. Becomes(x, c) /\ minted' = minted + 1
    BY <1>4 DEF IssueSession
  <2> HIDE DEF c
  <2>3. /\ DOMAIN call' = Calls /\ call'[x] = c
        /\ \A y \in Calls \ {x} : call'[y] = call[y]
    BY <2>2, BecomesFacts
  <2>4. LoginShape'
    BY <1>1, <2>1, <2>3 DEF LoginInv, LoginShape
  <2>5. JarInv'
    BY <1>1 DEF LoginInv, JarInv, HandshakeIn
  <2>6. minted \in Nat /\ minted' \in Nat /\ minted < minted' /\ minted' # 0
    BY <2>2 DEF LoginInv, TokenInv
  <2>7. ASSUME NEW t \in Nat, t <= minted PROVE t <= minted' /\ t # minted'
    BY <2>6, <2>7
  <2>8. TokenInv'
    BY <1>1, <2>6, <2>7 DEF LoginInv, TokenInv
  <2>9. ASSUME NEW y \in Calls PROVE TokenOf(y)'
    <3>1. CASE y = x
      <4>1. call'[y].token = minted'
        BY <2>1, <2>3, <3>1
      <4>2. \A d \in Browsers : minted' \notin ended'[d]
        BY <1>1, <2>7 DEF LoginInv, TokenInv
      <4>3. \A d \in Browsers, n \in Names : minted' # sessJar'[d][n]
        BY <1>1, <2>7 DEF LoginInv, TokenInv
      <4>4. \A z \in Calls : z # y => call'[z].token # minted'
        BY <2>3, <2>7, <3>1 DEF LoginInv, TokenOf
      <4>5. minted' <= minted'
        BY <2>6
      <4> QED BY <2>6, <4>1, <4>2, <4>3, <4>4, <4>5 DEF TokenOf
    <3>2. CASE y # x
      <4>1. TokenOf(y) /\ call'[y] = call[y] /\ call[y].token \in Nat /\ call[y].token <= minted
        BY <2>3, <3>2 DEF LoginInv, TokenOf
      <4>2. call[y].token <= minted' /\ call[y].token # call'[x].token
        BY <2>1, <2>3, <2>7, <4>1
      <4>3. \A z \in Calls : z # y /\ call[y].token # 0 => call'[z].token # call[y].token
        BY <2>3, <4>1, <4>2 DEF TokenOf
      <4> QED BY <1>1, <4>1, <4>2, <4>3 DEF TokenOf
    <3> QED BY <3>1, <3>2
  <2>10. StateOf(x)' /\ BrowserOf(x)'
    BY <1>1, <1>2, <2>1, <2>3, PastStateFacts DEF StateOf, BrowserOf, PastState, Reasons
  <2>11. ASSUME NEW y \in Calls \ {x} PROVE StateOf(y)' /\ BrowserOf(y)'
    <3>1. StateOf(y) /\ BrowserOf(y) /\ Len(starter) \in Nat
      BY DEF LoginInv, JarInv
    <3> QED BY <1>1, <2>3, <3>1, CallKeeps
  <2> QED BY <2>4, <2>5, <2>8, <2>9, <2>10, <2>11 DEF LoginInv
<1> QED BY <1>3, <1>4

LEMMA LogoutDeletesKeeps ==
  ASSUME LoginInv, NEW x \in Calls, NEW b \in Browsers, NEW deleted, LogoutDeletes(x, b, deleted)
  PROVE  LoginInv'
<1> DEFINE c == [Idle EXCEPT !.pc = "logout", !.browser = b, !.prov = prov]
<1>1. Becomes(x, c) /\ UNCHANGED <<stateJar, sessJar, starter, minted, burnt, ended>>
  BY DEF LogoutDeletes, idpVars, histVars
<1>2. DOMAIN c = CallFields /\ c.pc = "logout" /\ c.browser = b /\ c.token = 0
  BY IdleFacts DEF CallFields
<1> HIDE DEF c
<1>3. call'[x] = c
  BY <1>1, BecomesFacts
<1>4. StateOf(x)' /\ BrowserOf(x)'
  BY <1>2, <1>3, PastStateFacts DEF StateOf, BrowserOf, PastState, Reasons
<1> QED BY <1>1, <1>2, <1>4, OneCallMoves

LEMMA ResponseLostKeeps ==
  ASSUME LoginInv, NEW x \in Calls, ResponseLost(x)
  PROVE  LoginInv'
<1>1. Becomes(x, Idle) /\ UNCHANGED <<stateJar, sessJar, starter, minted, burnt, ended>>
  BY DEF ResponseLost, idpVars, storeVars, histVars
<1>2. StateOf(x)' /\ BrowserOf(x)'
  BY <1>1, BecomesFacts, IdleCall
<1> QED BY <1>1, <1>2, IdleFacts, OneCallMoves

LEMMA CookieChangesKeeps ==
  ASSUME LoginInv, NEW b \in Browsers, NEW n \in Names, CookieChanges(b, n)
  PROVE  LoginInv'
<1>1. PICK v \in {NoState, [stateJar[b][n] EXCEPT !.next = "elsewhere"]} :
        stateJar' = [stateJar EXCEPT ![b][n] = v]
  BY DEF CookieChanges
<1>2. UNCHANGED <<sessJar, starter, minted, burnt, ended, call>>
  BY DEF CookieChanges, idpVars, storeVars, histVars
<1>3. DOMAIN v = {"attempt", "next"} /\ (v.attempt = 0 \/ v.attempt = stateJar[b][n].attempt)
  BY <1>1, NoStateFacts DEF LoginInv, LoginShape
<1>4. /\ DOMAIN stateJar' = Browsers /\ DOMAIN stateJar'[b] = Names /\ stateJar'[b][n] = v
      /\ \A m \in Names : m # n => stateJar'[b][m] = stateJar[b][m]
      /\ \A d \in Browsers : d # b => stateJar'[d] = stateJar[d]
  BY <1>1, CookieSet DEF LoginInv, LoginShape
<1>5. LoginShape'
  BY <1>2, <1>3, <1>4 DEF LoginInv, LoginShape
<1>6. ASSUME NEW d \in Browsers, NEW m \in Names PROVE HandshakeIn(d, m)'
  <2>1. HandshakeIn(d, m)
    BY DEF LoginInv, JarInv
  <2>2. stateJar'[d][m].attempt = 0 \/ stateJar'[d][m].attempt = stateJar[d][m].attempt
    BY <1>3, <1>4
  <2> QED BY <1>2, <2>1, <2>2 DEF HandshakeIn
<1>7. JarInv' /\ TokenInv'
  BY <1>2, <1>6 DEF LoginInv, JarInv, TokenInv
<1>8. ASSUME NEW y \in Calls PROVE StateOf(y)' /\ BrowserOf(y)' /\ TokenOf(y)'
  BY <1>2 DEF LoginInv, StateOf, BrowserOf, TokenOf, PastState, Reasons
<1> QED BY <1>5, <1>7, <1>8 DEF LoginInv

\* The calls after a response: the one that responded is over.
LEMMA OneCallEnds ==
  ASSUME LoginInv, NEW x \in Calls, Becomes(x, Idle), starter' = starter
  PROVE  \A y \in Calls : StateOf(y)' /\ BrowserOf(y)' /\ DOMAIN call'[y] = CallFields
<1> SUFFICES ASSUME NEW y \in Calls
             PROVE  StateOf(y)' /\ BrowserOf(y)' /\ DOMAIN call'[y] = CallFields
  OBVIOUS
<1>1. CASE y = x
  BY <1>1, BecomesFacts, IdleCall, IdleFacts
<1>2. CASE y # x
  <2>1. StateOf(y) /\ BrowserOf(y) /\ Len(starter) \in Nat /\ DOMAIN call[y] = CallFields
    BY DEF LoginInv, JarInv, LoginShape
  <2>2. call'[y] = call[y]
    BY <1>2, BecomesFacts
  <2> QED BY <2>1, <2>2, CallKeeps
<1> QED BY <1>1, <1>2

LEMMA CallbackRespondsKeeps ==
  ASSUME LoginInv, NEW x \in Calls, CallbackResponds(x)
  PROVE  LoginInv'
<1> DEFINE b == call[x].browser
           t == call[x].token
           n == CookieName(call[x].prov)
<1>1. /\ call[x].pc # "idle" /\ Becomes(x, Idle) /\ UNCHANGED <<starter, minted, ended>>
      /\ sessJar' = IF t = 0 THEN sessJar ELSE [sessJar EXCEPT ![b][n] = t]
      /\ burnt' = [burnt EXCEPT ![b] = @ \cup HandshakesOf(b)]
      /\ stateJar' = [stateJar EXCEPT ![b] = Cleared(@, NoState, call[x].prov)]
  BY DEF CallbackResponds, Reasons, idpVars, storeVars
<1>2. b \in Browsers /\ n \in Names /\ LoginShape
  BY <1>1, CookieNameFacts DEF LoginInv, BrowserOf
<1>3. /\ DOMAIN call' = Calls /\ call'[x] = Idle
      /\ \A y \in Calls \ {x} : call'[y] = call[y]
  BY <1>1, BecomesFacts
<1>4. /\ DOMAIN stateJar' = Browsers /\ DOMAIN burnt' = Browsers
      /\ stateJar'[b] = [m \in Names |-> NoState] /\ burnt'[b] = burnt[b] \cup HandshakesOf(b)
      /\ \A d \in Browsers : d # b => stateJar'[d] = stateJar[d] /\ burnt'[d] = burnt[d]
  BY <1>1, <1>2 DEF LoginShape, Cleared
<1>5. /\ DOMAIN sessJar' = Browsers /\ \A d \in Browsers : DOMAIN sessJar'[d] = Names
      /\ \A d \in Browsers, m \in Names :
           sessJar'[d][m] = sessJar[d][m] \/ (t # 0 /\ sessJar'[d][m] = t)
  <2>1. CASE t = 0
    BY <1>1, <1>2, <2>1 DEF LoginShape
  <2>2. CASE t # 0
    <3>1. sessJar' = [sessJar EXCEPT ![b][n] = t]
      BY <1>1, <2>2
    <3> HIDE DEF b, n, t
    <3>2. /\ DOMAIN sessJar' = Browsers /\ DOMAIN sessJar'[b] = Names /\ sessJar'[b][n] = t
          /\ \A m \in Names : m # n => sessJar'[b][m] = sessJar[b][m]
          /\ \A d \in Browsers : d # b => sessJar'[d] = sessJar[d]
      BY <1>2, <3>1, CookieSet DEF LoginShape
    <3> QED BY <1>2, <2>2, <3>2 DEF LoginShape
  <2> QED BY <2>1, <2>2
<1>6. \A y \in Calls : StateOf(y)' /\ BrowserOf(y)' /\ DOMAIN call'[y] = CallFields
  BY <1>1, OneCallEnds
<1>7. LoginShape'
  <2>1. \A d \in Browsers : DOMAIN stateJar'[d] = Names
    BY <1>2, <1>4 DEF LoginShape
  <2>2. \A d \in Browsers, m \in Names : DOMAIN stateJar'[d][m] = {"attempt", "next"}
    BY <1>2, <1>4, NoStateFacts DEF LoginShape
  <2> QED BY <1>1, <1>2, <1>3, <1>4, <1>5, <1>6, <2>1, <2>2 DEF LoginShape
<1>8. ASSUME NEW d \in Browsers, NEW m \in Names PROVE HandshakeIn(d, m)'
  <2>1. CASE d = b
    <3>1. stateJar'[d][m].attempt = 0
      BY <1>4, <2>1, NoStateFacts
    <3> QED BY <3>1 DEF HandshakeIn
  <2>2. CASE d # b
    BY <1>1, <1>4, <2>2 DEF LoginInv, JarInv, HandshakeIn
  <2> QED BY <2>1, <2>2
<1>9. ASSUME NEW d \in Browsers, NEW a \in burnt'[d] PROVE a \in Nat /\ a <= Len(starter')
  <2>1. CASE a \in burnt[d]
    BY <1>1, <2>1 DEF LoginInv, JarInv
  <2>2. CASE a \notin burnt[d]
    <3>1. a \in HandshakesOf(b)
      BY <1>4, <2>2
    <3>2. PICK m \in Names : a = stateJar[b][m].attempt /\ a # 0
      BY <3>1 DEF HandshakesOf
    <3> QED BY <1>1, <1>2, <3>2 DEF LoginInv, JarInv, HandshakeIn
  <2> QED BY <2>1, <2>2
<1>10. JarInv'
  BY <1>1, <1>8, <1>9 DEF LoginInv, JarInv
<1>11. TokenOf(x) /\ t \in Nat /\ t <= minted
  BY DEF LoginInv, TokenOf
<1>12. TokenInv'
  <2>1. ASSUME NEW d \in Browsers, NEW m \in Names
        PROVE  /\ sessJar'[d][m] \in Nat /\ sessJar'[d][m] <= minted
               /\ sessJar'[d][m] # 0 => sessJar'[d][m] \notin ended[d]
    <3>1. CASE sessJar'[d][m] = sessJar[d][m]
      BY <3>1 DEF LoginInv, TokenInv
    <3>2. CASE t # 0 /\ sessJar'[d][m] = t
      BY <1>11, <3>2 DEF TokenOf
    <3> QED BY <1>5, <3>1, <3>2
  <2> QED BY <1>1, <2>1 DEF LoginInv, TokenInv
<1>13. \A y \in Calls : TokenOf(y)'
  <2>1. minted' \in Nat /\ minted <= minted'
    BY <1>1 DEF LoginInv, TokenInv
  <2>2. \A y \in Calls : call'[y].token = call[y].token \/ call'[y].token = 0
    BY <1>3, IdleFacts
  <2>3. ASSUME NEW y \in Calls, call'[y].token # 0
        PROVE  /\ \A d \in Browsers : call'[y].token \notin ended'[d]
               /\ \A d \in Browsers, m \in Names : call'[y].token # sessJar'[d][m]
    <3>1. y # x /\ call'[y] = call[y] /\ call[y].token # 0
      BY <1>3, <2>3, IdleFacts
    <3>2. TokenOf(y)
      BY DEF LoginInv
    <3>3. call[y].token # t
      BY <3>1, <3>2 DEF TokenOf
    <3> QED BY <1>1, <1>5, <3>1, <3>2, <3>3 DEF TokenOf
  <2> QED BY <2>1, <2>2, <2>3, TokensOfCalls
<1> QED BY <1>6, <1>7, <1>10, <1>12, <1>13 DEF LoginInv

LEMMA LogoutRespondsKeeps ==
  ASSUME LoginInv, NEW x \in Calls, LogoutResponds(x)
  PROVE  LoginInv'
<1> DEFINE b == call[x].browser
<1>1. /\ call[x].pc # "idle" /\ Becomes(x, Idle) /\ UNCHANGED <<starter, minted, burnt, stateJar>>
      /\ ended' = [ended EXCEPT ![b] = @ \cup TokensOf(b)]
      /\ sessJar' = [sessJar EXCEPT ![b] = Cleared(@, 0, prov)]
  BY DEF LogoutResponds, idpVars, storeVars
<1>2. b \in Browsers /\ LoginShape
  BY <1>1 DEF LoginInv, BrowserOf
<1>3. /\ DOMAIN call' = Calls /\ call'[x] = Idle
      /\ \A y \in Calls \ {x} : call'[y] = call[y]
  BY <1>1, BecomesFacts
<1>4. /\ DOMAIN sessJar' = Browsers /\ DOMAIN ended' = Browsers
      /\ sessJar'[b] = [m \in Names |-> 0] /\ ended'[b] = ended[b] \cup TokensOf(b)
      /\ \A d \in Browsers : d # b => sessJar'[d] = sessJar[d] /\ ended'[d] = ended[d]
  BY <1>1, <1>2 DEF LoginShape, Cleared
<1>5. \A y \in Calls : StateOf(y)' /\ BrowserOf(y)' /\ DOMAIN call'[y] = CallFields
  BY <1>1, OneCallEnds
<1>6. LoginShape'
  <2>1. \A d \in Browsers : DOMAIN sessJar'[d] = Names
    BY <1>2, <1>4 DEF LoginShape
  <2> QED BY <1>1, <1>2, <1>3, <1>4, <1>5, <2>1 DEF LoginShape
<1>7. JarInv'
  BY <1>1 DEF LoginInv, JarInv, HandshakeIn
\* What a jar held becomes what was ended there.
<1>8. ASSUME NEW d \in Browsers, NEW t \in ended'[d]
      PROVE  t \in ended[d] \/ \E m \in Names : t = sessJar[b][m] /\ t # 0
  BY <1>4 DEF TokensOf
<1>9. \A d \in Browsers, m \in Names : sessJar'[d][m] = sessJar[d][m] \/ sessJar'[d][m] = 0
  BY <1>4
<1>10. TokenInv'
  <2>1. ASSUME NEW d \in Browsers, NEW m \in Names
        PROVE  /\ sessJar'[d][m] \in Nat /\ sessJar'[d][m] <= minted
               /\ sessJar'[d][m] # 0 => sessJar'[d][m] \notin ended'[d]
    <3>1. CASE d = b
      <4>1. sessJar'[d][m] = 0 /\ minted \in Nat
        BY <1>4, <3>1 DEF LoginInv, TokenInv
      <4> QED BY <4>1
    <3>2. CASE d # b
      BY <1>4, <3>2 DEF LoginInv, TokenInv
    <3> QED BY <3>1, <3>2
  <2>2. ASSUME NEW d \in Browsers, NEW t \in ended'[d] PROVE t \in Nat /\ t <= minted
    BY <1>2, <1>8 DEF LoginInv, TokenInv
  <2> QED BY <1>1, <2>1, <2>2 DEF LoginInv, TokenInv
<1>11. \A y \in Calls : TokenOf(y)'
  <2>1. minted' \in Nat /\ minted <= minted'
    BY <1>1 DEF LoginInv, TokenInv
  <2>2. \A y \in Calls : call'[y].token = call[y].token \/ call'[y].token = 0
    BY <1>3, IdleFacts
  <2>3. ASSUME NEW y \in Calls, call'[y].token # 0
        PROVE  /\ \A d \in Browsers : call'[y].token \notin ended'[d]
               /\ \A d \in Browsers, m \in Names : call'[y].token # sessJar'[d][m]
    <3>1. TokenOf(y) /\ call'[y].token = call[y].token /\ call[y].token # 0
      BY <2>2, <2>3 DEF LoginInv
    <3>2. ASSUME NEW d \in Browsers PROVE call[y].token \notin ended'[d]
      BY <1>2, <1>8, <3>1 DEF TokenOf
    <3>3. ASSUME NEW d \in Browsers, NEW m \in Names PROVE call[y].token # sessJar'[d][m]
      BY <1>9, <3>1 DEF TokenOf
    <3> QED BY <3>1, <3>2, <3>3
  <2> QED BY <2>1, <2>2, <2>3, TokensOfCalls
<1> QED BY <1>5, <1>6, <1>7, <1>10, <1>11 DEF LoginInv

LEMMA ConfigureKeeps ==
  ASSUME LoginInv, UNCHANGED <<stateJar, sessJar, starter, minted, burnt, ended, call>>
  PROVE  LoginInv'
<1>1. LoginShape'
  BY DEF LoginInv, LoginShape
<1>2. JarInv' /\ TokenInv'
  BY DEF LoginInv, JarInv, HandshakeIn, TokenInv
<1>3. \A x \in Calls : StateOf(x)' /\ TokenOf(x)' /\ BrowserOf(x)'
  BY DEF LoginInv, StateOf, TokenOf, BrowserOf, PastState, Reasons
<1> QED BY <1>1, <1>2, <1>3 DEF LoginInv

\* The inductive invariant of the handshake: what lies in which jar, what is on
\* its way there, and what was found there before.
THEOREM LoginInductive == Spec => []LoginInv
<1>1. Init => LoginInv
  BY LoginStarts
<1>2. LoginInv /\ [Next]_vars => LoginInv'
  <2> SUFFICES ASSUME LoginInv, [Next]_vars PROVE LoginInv'
    OBVIOUS
  <2>1. ASSUME NEW b \in Browsers, NEW raw, Login(b, raw) PROVE LoginInv'
    BY <2>1, LoginKeeps
  <2>2. ASSUME NEW x \in Calls, NEW b \in Browsers, NEW q \in Answer, CallbackBegins(x, b, q)
        PROVE  LoginInv'
    BY <2>2, CallbackBeginsKeeps
  <2>3. ASSUME NEW x \in Calls, NEW b \in Browsers, NEW deleted, LogoutDeletes(x, b, deleted)
        PROVE  LoginInv'
    BY <2>3, LogoutDeletesKeeps
  <2>4. ASSUME NEW x \in Calls, Handles(x) PROVE LoginInv'
    BY <2>4, ExchangeKeeps, IssueSessionKeeps, CallbackRespondsKeeps, LogoutRespondsKeeps,
       ResponseLostKeeps DEF Handles
  <2>5. ASSUME NEW b \in Browsers, NEW n \in Names, CookieChanges(b, n) PROVE LoginInv'
    BY <2>5, CookieChangesKeeps
  <2>6. ASSUME NEW p, Configure(p) PROVE LoginInv'
    BY <2>6, ConfigureKeeps DEF Configure, idpVars, storeVars, histVars
  <2>7. CASE UNCHANGED vars
    BY <2>7, ConfigureKeeps DEF vars, idpVars, storeVars, histVars
  <2> QED BY <2>1, <2>2, <2>3, <2>4, <2>5, <2>6, <2>7 DEF Next
<1> QED BY <1>1, <1>2, PTL DEF Spec

\* callbackHandler's comparison of state and cookie: only the browser that
\* started a login gets past it, however many callback URLs are opened where.
THEOREM OwnHandshakeCorrect == Spec => []OwnHandshake
<1>1. LoginInv => OwnHandshake
  BY DEF LoginInv, StateOf, PastState, OwnHandshake
<1> QED BY <1>1, LoginInductive, PTL

\* Every callback's response clears the handshake under both names, so no later
\* callback of the browser gets past the check with it.
THEOREM SingleUseCorrect == Spec => []SingleUse
<1>1. LoginInv => SingleUse
  BY DEF LoginInv, StateOf, PastState, SingleUse
<1> QED BY <1>1, LoginInductive, PTL

\* logoutHandler clears the session under both names, and what a callback still
\* under way sets afterwards is a session of its own.
THEOREM LogoutSignsOutCorrect == Spec => []LogoutSignsOut
<1>1. LoginInv => LogoutSignsOut
  BY DEF LoginInv, TokenInv, TokensOf, LogoutSignsOut
<1> QED BY <1>1, LoginInductive, PTL
-----------------------------------------------------------------------------
(* The cache *)

EntryFields == {"val", "typ", "fresh", "loaded", "refreshing", "failed", "gen"}
Working == {"load", "queue", "recheck", "gen", "fn", "publish"}

CacheShape ==
  /\ DOMAIN pc = Procs /\ DOMAIN key = Procs /\ DOMAIN obj = Procs
  /\ DOMAIN gen = Procs /\ DOMAIN got = Procs
  /\ DOMAIN entries = Keys /\ DOMAIN origin = Keys /\ DOMAIN sealed = Keys
  /\ DOMAIN floor = Callers /\ DOMAIN objs = 1..MaxObjs
  /\ \A o \in 1..MaxObjs : DOMAIN objs[o] = EntryFields

\* Values and generations are numbers; an entry not allocated yet is empty.
ObjsInv ==
  /\ nobj \in Nat /\ nobj <= MaxObjs
  /\ \A o \in 1..MaxObjs :
       /\ objs[o].val \in Nat /\ objs[o].gen \in Nat
       /\ objs[o].loaded => o <= nobj

\* No two keys share an entry; what was sealed has been written.
MapInv ==
  /\ \A k \in Keys :
       /\ origin[k] \in Nat /\ sealed[k] \in Nat /\ sealed[k] <= origin[k]
       /\ entries[k] \in Nat /\ entries[k] <= nobj
  /\ \A j, k \in Keys : entries[j] = entries[k] /\ entries[j] # 0 => j = k

\* A process works on an entry of its own key, evicted or not, and knows a
\* generation of it that is not ahead of it.
ProcOf(p) ==
  /\ obj[p] \in Nat /\ obj[p] <= nobj /\ gen[p] \in Nat /\ got[p] \in Nat
  /\ pc[p] \in Working =>
       /\ key[p] \in Keys /\ obj[p] # 0
       /\ \A k \in Keys : entries[k] = obj[p] => key[p] = k
  /\ pc[p] \in {"fn", "publish"} => gen[p] <= objs[obj[p]].gen
  /\ pc[p] \in {"invalidate", "drop"} => key[p] \in Keys /\ got[p] <= origin[key[p]]
  /\ pc[p] = "drop" => obj[p] # 0

Agree ==
  \A p, q \in Procs :
    pc[p] \in Working /\ pc[q] \in Working /\ obj[p] = obj[q] => key[p] = key[q]

\* An entry hands out nothing older than v, and nothing older is on its way
\* into it that its generation would let in.
AtLeast(o, v) ==
  /\ objs[o].loaded => objs[o].val >= v
  /\ \A p \in Procs :
       pc[p] = "publish" /\ obj[p] = o /\ gen[p] = objs[o].gen => got[p] >= v

\* The entry in the map is as new as the last Invalidate that returned.
Current == \A k \in Keys : entries[k] # 0 => AtLeast(entries[k], sealed[k])

\* The entry a Fetch looks at is as new as it was when the Fetch began; what it
\* fetched itself is newer.
ReaderOf(c) ==
  /\ floor[c] \in Nat
  /\ pc[c] \in Working \ {"publish"} => got[c] = 0 /\ floor[c] <= sealed[key[c]]
  /\ pc[c] \in {"load", "queue", "recheck"} => AtLeast(obj[c], floor[c])
  /\ pc[c] = "publish" => got[c] >= floor[c]
  /\ pc[c] = "done" => got[c] = 0 \/ got[c] >= floor[c]

\* If the entry an Invalidate found was evicted in between, the one in the map
\* was filled after the mutation.
DropperOf(c) ==
  pc[c] = "drop" /\ entries[key[c]] # 0 /\ entries[key[c]] # obj[c] =>
    AtLeast(entries[key[c]], got[c])

CacheInv ==
  /\ CacheShape /\ ObjsInv /\ MapInv
  /\ \A p \in Procs : ProcOf(p)
  /\ Agree /\ Current
  /\ \A c \in Callers : ReaderOf(c) /\ DropperOf(c)

\* A revalidation in flight holds the claim of its entry, alone.
RefreshInv ==
  /\ \A r \in Revalidators : pc[r] \in {"gen", "fn", "publish"} => objs[obj[r]].refreshing
  /\ \A r, s \in Revalidators :
       pc[r] \in {"gen", "fn", "publish"} /\ pc[s] \in {"gen", "fn", "publish"}
       /\ obj[r] = obj[s] => r = s

\* AtLeast after a step, of what it was said of before the step.
AtLeastNext(o, v) ==
  /\ objs'[o].loaded => objs'[o].val >= v
  /\ \A p \in Procs :
       pc'[p] = "publish" /\ obj'[p] = o /\ gen'[p] = objs'[o].gen => got'[p] >= v
-----------------------------------------------------------------------------
LEMMA NewEntryFacts ==
  /\ DOMAIN NewEntry = EntryFields /\ NewEntry.val = 0 /\ NewEntry.gen = 0
  /\ NewEntry.loaded = FALSE
BY DEF NewEntry, EntryFields

LEMMA CacheStarts == CacheInit => CacheInv /\ RefreshInv
<1> SUFFICES ASSUME CacheInit PROVE CacheInv /\ RefreshInv
  OBVIOUS
<1>1. CacheShape
  BY NewEntryFacts DEF CacheInit, CacheShape
<1>2. ObjsInv
  BY NewEntryFacts, CacheAssumption DEF CacheInit, ObjsInv
<1>3. MapInv
  BY DEF CacheInit, MapInv
<1>4. \A p \in Procs : pc[p] = "idle" /\ obj[p] = 0 /\ gen[p] = 0 /\ got[p] = 0
  BY DEF CacheInit
<1>5. (\A p \in Procs : ProcOf(p)) /\ Agree
  BY <1>4 DEF CacheInit, ProcOf, Agree, Working
<1>6. Current
  BY DEF CacheInit, Current
<1>7. \A c \in Callers : ReaderOf(c) /\ DropperOf(c)
  BY <1>4 DEF CacheInit, ReaderOf, DropperOf, Working, Procs
<1>8. RefreshInv
  BY <1>4 DEF RefreshInv, Procs
<1> QED BY <1>1, <1>2, <1>3, <1>5, <1>6, <1>7, <1>8 DEF CacheInv

\* What a step that neither fills an entry nor brings a value to publish keeps.
LEMMA AtLeastKeeps ==
  ASSUME NEW o, NEW v, AtLeast(o, v), objs'[o].gen = objs[o].gen,
         objs'[o].loaded => objs[o].loaded /\ objs'[o].val = objs[o].val,
         \A q \in Procs : pc'[q] = "publish" /\ obj'[q] = o =>
           pc[q] = "publish" /\ obj[q] = o /\ gen'[q] = gen[q] /\ got'[q] = got[q]
  PROVE  AtLeastNext(o, v)
BY DEF AtLeast, AtLeastNext

\* A step of one process on the entry it holds, between two of its states.
LEMMA OneProcMoves ==
  ASSUME CacheInv, NEW p \in Procs,
         UNCHANGED <<origin, entries, nobj, key, obj, sealed, floor>>,
         CacheShape', ObjsInv',
         \A q \in Procs \ {p} : pc'[q] = pc[q] /\ gen'[q] = gen[q] /\ got'[q] = got[q],
         pc[p] \in Working, pc'[p] \in Working \cup {"idle", "done"},
         gen'[p] \in Nat, got'[p] \in Nat,
         pc'[p] \in {"fn", "publish"} => gen'[p] <= objs[obj[p]].gen,
         \A o \in 1..MaxObjs : objs'[o].gen = objs[o].gen,
         \A o \in 1..MaxObjs, v \in Nat :
           AtLeast(o, v) /\ (o = obj[p] => v <= origin[key[p]]) => AtLeastNext(o, v),
         p \in Callers => ReaderOf(p)'
  PROVE  CacheInv'
<1>1. MapInv'
  BY DEF CacheInv, MapInv
<1>2. ASSUME NEW q \in Procs PROVE ProcOf(q)'
  <2>1. ProcOf(q) /\ obj'[q] = obj[q] /\ key'[q] = key[q] /\ nobj \in Nat /\ nobj <= MaxObjs
        /\ MaxObjs \in Nat
    BY CacheAssumption DEF CacheInv, ObjsInv
  <2>2. pc[q] \in Working => obj[q] \in 1..MaxObjs
    BY <2>1 DEF ProcOf
  <2>3. CASE q # p
    BY <2>1, <2>2, <2>3 DEF ProcOf, Working
  <2>4. CASE q = p
    BY <2>1, <2>2, <2>4 DEF ProcOf, Working
  <2> QED BY <2>3, <2>4
<1>3. Agree'
  BY DEF CacheInv, Agree, Working
<1>4. \A k \in Keys : entries[k] # 0 => entries[k] \in 1..MaxObjs
  BY CacheAssumption DEF CacheInv, MapInv, ObjsInv
<1>5. ProcOf(p)
  BY DEF CacheInv
<1>6. Current'
  <2> SUFFICES ASSUME NEW k \in Keys, entries[k] # 0 PROVE AtLeastNext(entries[k], sealed[k])
    BY DEF Current, AtLeast, AtLeastNext
  <2>1. AtLeast(entries[k], sealed[k]) /\ sealed[k] \in Nat /\ sealed[k] <= origin[k]
    BY DEF CacheInv, Current, MapInv
  <2>2. entries[k] = obj[p] => key[p] = k
    BY <1>5 DEF ProcOf
  <2> QED BY <1>4, <2>1, <2>2
<1>7. ASSUME NEW c \in Callers, c # p PROVE ReaderOf(c)'
  <2>1. /\ ReaderOf(c) /\ ProcOf(c) /\ pc'[c] = pc[c] /\ got'[c] = got[c] /\ obj'[c] = obj[c]
        /\ c \in Procs
    BY <1>7 DEF CacheInv, Procs
  <2>2. ASSUME pc[c] \in {"load", "queue", "recheck"} PROVE AtLeastNext(obj[c], floor[c])
    <3>1. /\ AtLeast(obj[c], floor[c]) /\ floor[c] \in Nat /\ floor[c] <= sealed[key[c]]
          /\ key[c] \in Keys /\ obj[c] \in 1..MaxObjs
      BY <2>1, <2>2, CacheAssumption DEF ReaderOf, ProcOf, Working, CacheInv, ObjsInv
    <3>2. obj[c] = obj[p] => key[p] = key[c]
      BY <2>1, <2>2 DEF CacheInv, Agree, Working
    <3>3. floor[c] <= origin[key[c]]
      <4>1. sealed[key[c]] \in Nat /\ origin[key[c]] \in Nat /\ sealed[key[c]] <= origin[key[c]]
        BY <3>1 DEF CacheInv, MapInv
      <4> QED BY <3>1, <4>1
    <3> QED BY <3>1, <3>2, <3>3
  <2>3. pc[c] \in {"load", "queue", "recheck"} => AtLeast(obj[c], floor[c])'
    BY <2>2 DEF AtLeast, AtLeastNext
  <2> QED BY <2>1, <2>3 DEF ReaderOf, Working
<1>8. ASSUME NEW c \in Callers PROVE DropperOf(c)'
  <2>1. c \in Procs
    BY DEF Procs
  <2>2. CASE c = p
    BY <2>2 DEF DropperOf, Working
  <2>3. CASE c # p
    <3>1. DropperOf(c) /\ ProcOf(c) /\ pc'[c] = pc[c] /\ got'[c] = got[c] /\ obj'[c] = obj[c]
      BY <2>1, <2>3 DEF CacheInv
    <3>2. ASSUME pc[c] = "drop", entries[key[c]] # 0, entries[key[c]] # obj[c]
          PROVE  AtLeastNext(entries[key[c]], got[c])
      <4>1. /\ AtLeast(entries[key[c]], got[c]) /\ key[c] \in Keys /\ got[c] \in Nat
            /\ got[c] <= origin[key[c]]
        BY <3>1, <3>2 DEF DropperOf, ProcOf
      <4>2. entries[key[c]] = obj[p] => key[p] = key[c]
        BY <1>5, <4>1 DEF ProcOf
      <4> QED BY <1>4, <3>2, <4>1, <4>2
    <3> QED BY <3>1, <3>2 DEF DropperOf, AtLeast, AtLeastNext
  <2> QED BY <2>2, <2>3
<1> QED BY <1>1, <1>2, <1>3, <1>6, <1>7, <1>8 DEF CacheInv

\* A caller goes on, or gives up, with nothing in hand.
LEMMA CallerWalks ==
  ASSUME CacheInv, NEW c \in Callers, pc[c] \in Working \ {"publish"},
         NEW s \in {"queue", "recheck", "gen", "done"}, Goto(c, s),
         s \in {"queue", "recheck"} => pc[c] \in {"load", "queue"},
         UNCHANGED <<origin, mapVars, objs, locVars, sealed, floor>>
  PROVE  CacheInv'
<1>1. /\ UNCHANGED <<origin, entries, nobj, objs, key, obj, gen, got, sealed, floor>> /\ c \in Procs
      /\ DOMAIN pc' = Procs /\ pc'[c] = s /\ \A q \in Procs \ {c} : pc'[q] = pc[q]
  BY DEF mapVars, locVars, Goto, CacheInv, CacheShape, Procs
<1>2. CacheShape' /\ ObjsInv'
  BY <1>1 DEF CacheInv, CacheShape, ObjsInv
<1>3. ASSUME NEW o, NEW v, AtLeast(o, v) PROVE AtLeastNext(o, v)
  BY <1>1, <1>3, AtLeastKeeps
<1>4. ReaderOf(c) /\ ProcOf(c)
  BY <1>1 DEF CacheInv
<1>5. s \in {"queue", "recheck"} => AtLeast(obj[c], floor[c])'
  <2>1. s \in {"queue", "recheck"} => AtLeastNext(obj[c], floor[c])
    BY <1>3, <1>4 DEF ReaderOf
  <2> QED BY <1>1, <2>1 DEF AtLeast, AtLeastNext
<1>6. ReaderOf(c)'
  BY <1>1, <1>4, <1>5 DEF ReaderOf, Working
<1>7. gen'[c] \in Nat /\ got'[c] \in Nat
  BY <1>1, <1>4 DEF ProcOf
<1> QED BY <1>1, <1>2, <1>3, <1>6, <1>7, OneProcMoves DEF Working

LEMMA WalksKeep ==
  ASSUME CacheInv, NEW c \in Callers,
         FetchMismatch(c) \/ FetchQueues(c) \/ FetchLocks(c) \/ RecheckMisses(c) \/ FnFailsCold(c)
  PROVE  CacheInv'
<1>1. CASE FetchMismatch(c)
  BY <1>1, CallerWalks DEF FetchMismatch, Working
<1>2. CASE FetchQueues(c)
  BY <1>2, CallerWalks DEF FetchQueues, Working
<1>3. CASE FetchLocks(c)
  BY <1>3, CallerWalks DEF FetchLocks, Working
<1>4. CASE RecheckMisses(c)
  BY <1>4, CallerWalks DEF RecheckMisses, Working
<1>5. CASE FnFailsCold(c)
  BY <1>5, CallerWalks DEF FnFailsCold, Working
<1> QED BY <1>1, <1>2, <1>3, <1>4, <1>5

LEMMA ReadsGenKeeps ==
  ASSUME CacheInv, NEW p \in Procs, ReadsGen(p)
  PROVE  CacheInv'
<1>1. /\ UNCHANGED <<origin, entries, nobj, objs, key, obj, got, sealed, floor>> /\ pc[p] = "gen"
      /\ DOMAIN pc' = Procs /\ pc'[p] = "fn" /\ DOMAIN gen' = Procs /\ gen'[p] = objs[obj[p]].gen
      /\ \A q \in Procs \ {p} : pc'[q] = pc[q] /\ gen'[q] = gen[q]
  BY DEF ReadsGen, E, mapVars, Goto, CacheInv, CacheShape
<1>2. CacheShape' /\ ObjsInv'
  BY <1>1 DEF CacheInv, CacheShape, ObjsInv
<1>3. ASSUME NEW o, NEW v, AtLeast(o, v) PROVE AtLeastNext(o, v)
  BY <1>1, <1>3, AtLeastKeeps
<1>4. ProcOf(p) /\ nobj \in Nat /\ nobj <= MaxObjs
  BY DEF CacheInv, ObjsInv
<1>5. obj[p] \in 1..MaxObjs
  BY <1>1, <1>4, CacheAssumption DEF ProcOf, Working
<1>6. gen'[p] \in Nat /\ got'[p] \in Nat /\ gen'[p] <= objs[obj[p]].gen
  BY <1>1, <1>4, <1>5 DEF ProcOf, CacheInv, ObjsInv
<1>7. p \in Callers => ReaderOf(p)'
  BY <1>1 DEF CacheInv, ReaderOf, Working
<1> QED BY <1>1, <1>2, <1>3, <1>6, <1>7, OneProcMoves DEF Working

LEMMA FnReadsKeeps ==
  ASSUME CacheInv, NEW p \in Procs, FnReads(p)
  PROVE  CacheInv'
<1>1. /\ UNCHANGED <<origin, entries, nobj, objs, key, obj, gen, sealed, floor>> /\ pc[p] = "fn"
      /\ DOMAIN pc' = Procs /\ pc'[p] = "publish" /\ DOMAIN got' = Procs
      /\ got'[p] = origin[key[p]]
      /\ \A q \in Procs \ {p} : pc'[q] = pc[q] /\ got'[q] = got[q]
  BY DEF FnReads, mapVars, Goto, CacheInv, CacheShape
<1>2. CacheShape' /\ ObjsInv'
  BY <1>1 DEF CacheInv, CacheShape, ObjsInv
<1>3. ProcOf(p) /\ key[p] \in Keys
  BY <1>1 DEF CacheInv, ProcOf, Working
<1>4. origin[key[p]] \in Nat /\ sealed[key[p]] \in Nat /\ sealed[key[p]] <= origin[key[p]]
  BY <1>3 DEF CacheInv, MapInv
<1>5. ASSUME NEW o \in 1..MaxObjs, NEW v \in Nat, AtLeast(o, v), o = obj[p] => v <= origin[key[p]]
      PROVE  AtLeastNext(o, v)
  <2>1. ASSUME NEW q \in Procs, pc'[q] = "publish", obj'[q] = o, gen'[q] = objs'[o].gen
        PROVE  got'[q] >= v
    <3>1. CASE q = p
      BY <1>1, <1>4, <1>5, <2>1, <3>1
    <3>2. CASE q # p
      BY <1>1, <1>5, <2>1, <3>2 DEF AtLeast
    <3> QED BY <3>1, <3>2
  <2>2. objs'[o].loaded => objs'[o].val >= v
    BY <1>1, <1>5 DEF AtLeast
  <2> QED BY <2>1, <2>2 DEF AtLeastNext
<1>6. gen'[p] \in Nat /\ got'[p] \in Nat /\ gen'[p] <= objs[obj[p]].gen
  BY <1>1, <1>3, <1>4 DEF ProcOf
<1>7. p \in Callers => ReaderOf(p)'
  <2> SUFFICES ASSUME p \in Callers PROVE ReaderOf(p)'
    OBVIOUS
  <2>1. floor[p] \in Nat /\ floor[p] <= sealed[key[p]]
    BY <1>1 DEF CacheInv, ReaderOf, Working
  <2>2. got'[p] >= floor[p]
    BY <1>1, <1>4, <2>1
  <2> QED BY <1>1, <2>1, <2>2 DEF ReaderOf, Working
<1> QED BY <1>1, <1>2, <1>5, <1>6, <1>7, OneProcMoves DEF Working

\* Writing back the entry a process works on.
LEMMA StoreFacts ==
  ASSUME CacheInv, NEW p \in Procs, pc[p] \in Working \cup {"drop"}, NEW e, Store(p, e),
         DOMAIN e = EntryFields
  PROVE  /\ obj[p] \in 1..MaxObjs /\ obj[p] <= nobj /\ DOMAIN objs' = 1..MaxObjs
         /\ objs'[obj[p]] = e /\ \A o \in 1..MaxObjs : o # obj[p] => objs'[o] = objs[o]
         /\ \A o \in 1..MaxObjs : DOMAIN objs'[o] = EntryFields
<1>1. ProcOf(p) /\ nobj \in Nat /\ nobj <= MaxObjs /\ MaxObjs \in Nat
  BY CacheAssumption DEF CacheInv, ObjsInv
<1>2. obj[p] \in 1..MaxObjs /\ obj[p] <= nobj
  BY <1>1 DEF ProcOf
<1> QED BY <1>2 DEF Store, CacheInv, CacheShape

LEMMA EFacts ==
  ASSUME CacheInv, NEW p \in Procs, pc[p] \in Working \cup {"drop"}
  PROVE  /\ obj[p] \in 1..MaxObjs /\ obj[p] <= nobj /\ E(p) = objs[obj[p]]
         /\ DOMAIN E(p) = EntryFields /\ E(p).val \in Nat /\ E(p).gen \in Nat
<1>1. ProcOf(p) /\ nobj \in Nat /\ nobj <= MaxObjs /\ MaxObjs \in Nat
  BY CacheAssumption DEF CacheInv, ObjsInv
<1>2. obj[p] \in 1..MaxObjs /\ obj[p] <= nobj
  BY <1>1 DEF ProcOf
<1> QED BY <1>2 DEF E, CacheInv, CacheShape, ObjsInv

\* Entries that differ from those before in nothing a value depends on.
SameValues ==
  \A o \in 1..MaxObjs :
    /\ objs'[o].gen = objs[o].gen /\ objs'[o].val = objs[o].val
    /\ objs'[o].loaded <=> objs[o].loaded

LEMMA ClaimFacts ==
  ASSUME CacheInv, NEW p \in Procs, pc[p] \in Working, Store(p, Claimed(E(p)))
  PROVE  /\ SameValues /\ DOMAIN objs' = 1..MaxObjs
         /\ \A o \in 1..MaxObjs : DOMAIN objs'[o] = EntryFields
<1> DEFINE e == Claimed(E(p))
<1>1. /\ obj[p] \in 1..MaxObjs /\ E(p) = objs[obj[p]] /\ DOMAIN E(p) = EntryFields
  BY EFacts
<1>2. DOMAIN e = EntryFields /\ e.gen = E(p).gen /\ e.val = E(p).val /\ e.loaded = E(p).loaded
  BY <1>1 DEF Claimed, EntryFields
<1>3. Store(p, e)
  OBVIOUS
<1> HIDE DEF e
<1>4. /\ DOMAIN objs' = 1..MaxObjs /\ objs'[obj[p]] = e
      /\ \A o \in 1..MaxObjs : o # obj[p] => objs'[o] = objs[o]
      /\ \A o \in 1..MaxObjs : DOMAIN objs'[o] = EntryFields
  BY <1>2, <1>3, StoreFacts
<1> QED BY <1>1, <1>2, <1>4 DEF SameValues

\* A caller is answered from the entry.
LEMMA CallerHits ==
  ASSUME CacheInv, NEW c \in Callers, pc[c] \in {"load", "recheck"}, Hit(c),
         got' = [got EXCEPT ![c] = E(c).val], Goto(c, "done"), CacheShape', SameValues,
         UNCHANGED <<origin, entries, nobj, key, obj, gen, sealed, floor>>
  PROVE  CacheInv'
<1>1. /\ c \in Procs /\ pc'[c] = "done" /\ got'[c] = E(c).val
      /\ \A q \in Procs \ {c} : pc'[q] = pc[q] /\ got'[q] = got[q]
  BY DEF Goto, CacheInv, CacheShape, Procs
<1>2. ObjsInv'
  BY DEF CacheInv, ObjsInv, SameValues
<1>3. ASSUME NEW o \in 1..MaxObjs, NEW v \in Nat, AtLeast(o, v) PROVE AtLeastNext(o, v)
  <2>1. ASSUME NEW q \in Procs, pc'[q] = "publish" PROVE pc[q] = "publish" /\ got'[q] = got[q]
    BY <1>1, <2>1
  <2> QED BY <1>3, <2>1, AtLeastKeeps DEF SameValues
<1>4. ReaderOf(c) /\ ProcOf(c) /\ E(c) = objs[obj[c]] /\ E(c).val \in Nat
  BY <1>1, EFacts DEF CacheInv, Working
<1>5. E(c).val >= floor[c] /\ floor[c] \in Nat
  BY <1>4 DEF ReaderOf, Hit, AtLeast
<1>6. ReaderOf(c)'
  BY <1>1, <1>5 DEF ReaderOf, Working
<1>7. gen'[c] \in Nat
  BY <1>4 DEF ProcOf
<1> QED BY <1>1, <1>2, <1>3, <1>4, <1>6, <1>7, OneProcMoves DEF Working, SameValues

LEMMA HitsKeep ==
  ASSUME CacheInv, NEW c \in Callers, FetchHits(c) \/ RecheckClaims(c)
  PROVE  CacheInv'
<1>1. c \in Procs /\ DOMAIN pc' = Procs /\ DOMAIN got' = Procs
  BY DEF FetchHits, RecheckClaims, Goto, Procs, CacheInv, CacheShape
<1>2. CASE FetchHits(c)
  <2>1. CacheShape' /\ SameValues
    BY <1>1, <1>2 DEF FetchHits, mapVars, CacheInv, CacheShape, SameValues
  <2> QED BY <1>2, <2>1, CallerHits DEF FetchHits, mapVars
<1>3. CASE RecheckClaims(c)
  <2>1. /\ SameValues /\ DOMAIN objs' = 1..MaxObjs
        /\ \A o \in 1..MaxObjs : DOMAIN objs'[o] = EntryFields
    BY <1>1, <1>3, ClaimFacts DEF RecheckClaims, Working
  <2>2. CacheShape'
    BY <1>1, <1>3, <2>1 DEF RecheckClaims, mapVars, CacheInv, CacheShape
  <2> QED BY <1>3, <2>1, <2>2, CallerHits DEF RecheckClaims, mapVars, Stale
<1> QED BY <1>2, <1>3

LEMMA PublishedFacts ==
  ASSUME CacheInv, NEW p \in Procs, pc[p] = "publish"
  PROVE  /\ DOMAIN Published(p) = EntryFields /\ Published(p).gen = E(p).gen
         /\ \/ Published(p).val = E(p).val /\ Published(p).loaded = E(p).loaded
            \/ Published(p).val = got[p] /\ Published(p).loaded = TRUE /\ E(p).gen = gen[p]
         /\ Published(p).refreshing = E(p).refreshing
<1>1. DOMAIN E(p) = EntryFields
  BY EFacts DEF Working
<1> QED BY <1>1 DEF Published, EntryFields

\* A fetch or a revalidation ends by writing its entry back: as it was, or with
\* a value whose generation is still the entry's.
LEMMA ProcEnds ==
  ASSUME CacheInv, NEW p \in Procs, pc[p] \in {"fn", "publish"}, NEW e, Store(p, e),
         DOMAIN e = EntryFields, e.gen = E(p).gen,
         \/ e.val = E(p).val /\ e.loaded = E(p).loaded
         \/ pc[p] = "publish" /\ e.val = got[p] /\ E(p).gen = gen[p],
         NEW s \in {"idle", "done"}, s = "done" => pc[p] = "publish", Goto(p, s),
         UNCHANGED <<origin, mapVars, locVars, sealed, floor>>
  PROVE  CacheInv'
<1>1. /\ UNCHANGED <<origin, entries, nobj, key, obj, gen, got, sealed, floor>>
      /\ DOMAIN pc' = Procs /\ pc'[p] = s /\ \A q \in Procs \ {p} : pc'[q] = pc[q]
  BY DEF mapVars, locVars, Goto, CacheInv, CacheShape
<1>2. /\ DOMAIN objs' = 1..MaxObjs /\ objs'[obj[p]] = e
      /\ \A o \in 1..MaxObjs : o # obj[p] => objs'[o] = objs[o]
      /\ \A o \in 1..MaxObjs : DOMAIN objs'[o] = EntryFields
  BY StoreFacts DEF Working
<1>3. /\ obj[p] \in 1..MaxObjs /\ obj[p] <= nobj /\ E(p) = objs[obj[p]]
      /\ E(p).val \in Nat /\ E(p).gen \in Nat
  BY EFacts DEF Working
<1>4. ProcOf(p)
  BY DEF CacheInv
<1>5. CacheShape'
  BY <1>1, <1>2 DEF CacheInv, CacheShape
<1>6. ObjsInv'
  <2>1. ASSUME NEW o \in 1..MaxObjs
        PROVE  /\ objs'[o].val \in Nat /\ objs'[o].gen \in Nat
               /\ objs'[o].loaded => o <= nobj
    <3>1. CASE o = obj[p]
      BY <1>2, <1>3, <1>4, <3>1 DEF ProcOf
    <3>2. CASE o # obj[p]
      BY <1>2, <3>2 DEF CacheInv, ObjsInv
    <3> QED BY <3>1, <3>2
  <2> QED BY <1>1, <2>1 DEF CacheInv, ObjsInv
<1>7. \A o \in 1..MaxObjs : objs'[o].gen = objs[o].gen
  BY <1>2, <1>3
<1>8. ASSUME NEW o \in 1..MaxObjs, NEW v \in Nat, AtLeast(o, v) PROVE AtLeastNext(o, v)
  <2>1. ASSUME NEW q \in Procs, pc'[q] = "publish", obj'[q] = o, gen'[q] = objs'[o].gen
        PROVE  got'[q] >= v
    <3>1. q # p
      BY <1>1, <2>1
    <3> QED BY <1>1, <1>7, <1>8, <2>1, <3>1 DEF AtLeast
  <2>2. ASSUME objs'[o].loaded PROVE objs'[o].val >= v
    <3>1. CASE o # obj[p]
      BY <1>2, <1>8, <2>2, <3>1 DEF AtLeast
    <3>2. CASE o = obj[p]
      BY <1>2, <1>3, <1>8, <2>2, <3>2 DEF AtLeast
    <3> QED BY <3>1, <3>2
  <2> QED BY <2>1, <2>2 DEF AtLeastNext
<1>9. p \in Callers => ReaderOf(p)'
  BY <1>1 DEF CacheInv, ReaderOf, Working
<1> QED BY <1>1, <1>4, <1>5, <1>6, <1>7, <1>8, <1>9, OneProcMoves DEF Working, ProcOf

LEMMA FetchPublishesKeeps ==
  ASSUME CacheInv, NEW c \in Callers, FetchPublishes(c)
  PROVE  CacheInv'
<1> DEFINE e == Published(c)
<1>1. c \in Procs /\ pc[c] = "publish"
  BY DEF FetchPublishes, Procs
<1>2. /\ DOMAIN e = EntryFields /\ e.gen = E(c).gen
      /\ \/ e.val = E(c).val /\ e.loaded = E(c).loaded
         \/ e.val = got[c] /\ E(c).gen = gen[c]
  BY <1>1, PublishedFacts
<1>3. Store(c, e) /\ Goto(c, "done") /\ UNCHANGED <<origin, mapVars, locVars, sealed, floor>>
  BY DEF FetchPublishes
<1> HIDE DEF e
<1> QED BY <1>1, <1>2, <1>3, ProcEnds

LEMMA RevalidateEndsKeeps ==
  ASSUME CacheInv, NEW r \in Revalidators, RevalidateEnds(r)
  PROVE  CacheInv'
<1> DEFINE e == [Published(r) EXCEPT !.refreshing = FALSE]
<1>1. r \in Procs /\ pc[r] = "publish"
  BY DEF RevalidateEnds, Procs
<1>2. /\ DOMAIN e = EntryFields /\ e.gen = E(r).gen
      /\ \/ e.val = E(r).val /\ e.loaded = E(r).loaded
         \/ e.val = got[r] /\ E(r).gen = gen[r]
  BY <1>1, PublishedFacts DEF EntryFields
<1>3. Store(r, e) /\ Goto(r, "idle") /\ UNCHANGED <<origin, mapVars, locVars, sealed, floor>>
  BY DEF RevalidateEnds
<1> HIDE DEF e
<1> QED BY <1>1, <1>2, <1>3, ProcEnds

LEMMA RevalidateFailsKeeps ==
  ASSUME CacheInv, NEW r \in Revalidators, RevalidateFails(r)
  PROVE  CacheInv'
<1> DEFINE e == IF E(r).gen # gen[r] THEN [E(r) EXCEPT !.refreshing = FALSE]
                ELSE [E(r) EXCEPT !.refreshing = FALSE, !.failed = TRUE, !.fresh = TRUE]
<1>1. r \in Procs /\ pc[r] = "fn"
  BY DEF RevalidateFails, Procs
<1>2. DOMAIN E(r) = EntryFields
  BY <1>1, EFacts DEF Working
<1>3. DOMAIN e = EntryFields /\ e.gen = E(r).gen /\ e.val = E(r).val /\ e.loaded = E(r).loaded
  BY <1>2 DEF EntryFields
<1>4. Store(r, e) /\ Goto(r, "idle") /\ UNCHANGED <<origin, mapVars, locVars, sealed, floor>>
  BY DEF RevalidateFails
<1> HIDE DEF e
<1> QED BY <1>1, <1>3, <1>4, ProcEnds

\* Entries age, and nothing moves.
LEMMA NoProcMoves ==
  ASSUME CacheInv, CacheShape', SameValues,
         UNCHANGED <<origin, entries, nobj, pc, key, obj, gen, got, sealed, floor>>
  PROVE  CacheInv'
<1>1. ObjsInv' /\ MapInv' /\ Agree'
  BY DEF CacheInv, ObjsInv, MapInv, Agree, SameValues, Working
<1>2. nobj \in Nat /\ nobj <= MaxObjs /\ MaxObjs \in Nat
  BY CacheAssumption DEF CacheInv, ObjsInv
<1>3. ASSUME NEW p \in Procs PROVE ProcOf(p)'
  <2>1. ProcOf(p) /\ (pc[p] \in Working => obj[p] \in 1..MaxObjs)
    BY <1>2 DEF CacheInv, ProcOf
  <2> QED BY <2>1 DEF ProcOf, SameValues, Working
<1>4. ASSUME NEW o \in 1..MaxObjs, NEW v, AtLeast(o, v) PROVE AtLeastNext(o, v)
  BY <1>4, AtLeastKeeps DEF SameValues
<1>5. \A k \in Keys : entries[k] # 0 => entries[k] \in 1..MaxObjs
  BY <1>2 DEF CacheInv, MapInv
<1>6. Current'
  <2> SUFFICES ASSUME NEW k \in Keys, entries[k] # 0 PROVE AtLeastNext(entries[k], sealed[k])
    BY DEF Current, AtLeast, AtLeastNext
  <2> QED BY <1>4, <1>5 DEF CacheInv, Current
<1>7. ASSUME NEW c \in Callers PROVE ReaderOf(c)' /\ DropperOf(c)'
  <2>1. ReaderOf(c) /\ DropperOf(c) /\ ProcOf(c)
    BY DEF CacheInv, Procs
  <2>2. pc[c] \in {"load", "queue", "recheck"} => AtLeast(obj[c], floor[c])'
    <3>1. pc[c] \in {"load", "queue", "recheck"} => obj[c] \in 1..MaxObjs
      BY <1>2, <2>1 DEF ProcOf, Working
    <3>2. pc[c] \in {"load", "queue", "recheck"} => AtLeastNext(obj[c], floor[c])
      BY <1>4, <2>1, <3>1 DEF ReaderOf
    <3> QED BY <3>2 DEF AtLeast, AtLeastNext
  <2>3. ReaderOf(c)'
    BY <2>1, <2>2 DEF ReaderOf, Working
  <2>4. ASSUME pc[c] = "drop", entries[key[c]] # 0, entries[key[c]] # obj[c]
        PROVE  AtLeastNext(entries[key[c]], got[c])
    <3>1. key[c] \in Keys /\ AtLeast(entries[key[c]], got[c])
      BY <2>1, <2>4 DEF ProcOf, DropperOf
    <3> QED BY <1>4, <1>5, <2>4, <3>1
  <2>5. DropperOf(c)'
    BY <2>4 DEF DropperOf, AtLeast, AtLeastNext
  <2> QED BY <2>3, <2>5
<1> QED BY <1>1, <1>3, <1>6, <1>7 DEF CacheInv

LEMMA ExpiresKeeps ==
  ASSUME CacheInv, NEW o \in 1..nobj, Expires(o)
  PROVE  CacheInv'
<1>1. o \in 1..MaxObjs
  BY CacheAssumption DEF CacheInv, ObjsInv
<1>2. /\ UNCHANGED <<origin, entries, nobj, pc, key, obj, gen, got, sealed, floor>>
      /\ objs' = [objs EXCEPT ![o].fresh = FALSE]
  BY DEF Expires, mapVars, locVars
<1>3. /\ DOMAIN objs' = 1..MaxObjs /\ objs'[o] = [objs[o] EXCEPT !.fresh = FALSE]
      /\ \A n \in 1..MaxObjs : n # o => objs'[n] = objs[n]
  BY <1>1, <1>2 DEF CacheInv, CacheShape
<1>4. DOMAIN objs[o] = EntryFields
  BY <1>1 DEF CacheInv, CacheShape
<1>5. /\ DOMAIN objs'[o] = EntryFields /\ objs'[o].gen = objs[o].gen
      /\ objs'[o].val = objs[o].val /\ objs'[o].loaded = objs[o].loaded
  BY <1>3, <1>4 DEF EntryFields
<1>6. CacheShape' /\ SameValues
  BY <1>2, <1>3, <1>5 DEF CacheInv, CacheShape, SameValues
<1> QED BY <1>2, <1>6, NoProcMoves

LEMMA FetchSpawnsKeeps ==
  ASSUME CacheInv, NEW c \in Callers, NEW r \in Revalidators, FetchSpawns(c, r)
  PROVE  CacheInv'
<1>1. c \in Procs /\ r \in Procs /\ r # c /\ r \notin Callers
  BY CacheAssumption DEF Procs
<1>2. /\ pc[c] = "load" /\ pc[r] = "idle" /\ Hit(c)
      /\ UNCHANGED <<origin, entries, nobj, gen, sealed, floor>>
  BY DEF FetchSpawns, Stale, mapVars
<1>3. /\ DOMAIN pc' = Procs /\ DOMAIN key' = Procs /\ DOMAIN obj' = Procs /\ DOMAIN got' = Procs
      /\ pc'[c] = "done" /\ pc'[r] = "gen" /\ key'[r] = key[c] /\ obj'[r] = obj[c]
      /\ got'[c] = E(c).val
      /\ \A q \in Procs \ {c, r} : pc'[q] = pc[q]
      /\ \A q \in Procs \ {r} : key'[q] = key[q] /\ obj'[q] = obj[q]
      /\ \A q \in Procs \ {c} : got'[q] = got[q]
  BY <1>1 DEF FetchSpawns, CacheInv, CacheShape
<1>4. /\ SameValues /\ DOMAIN objs' = 1..MaxObjs
      /\ \A o \in 1..MaxObjs : DOMAIN objs'[o] = EntryFields
  BY <1>1, <1>2, ClaimFacts DEF FetchSpawns, Working
<1>5. CacheShape' /\ ObjsInv' /\ MapInv'
  <2>1. CacheShape'
    BY <1>2, <1>3, <1>4 DEF CacheInv, CacheShape
  <2> QED BY <1>2, <1>4, <2>1 DEF CacheInv, ObjsInv, MapInv, SameValues
<1>6. nobj \in Nat /\ nobj <= MaxObjs /\ MaxObjs \in Nat
  BY CacheAssumption DEF CacheInv, ObjsInv
<1>7. ProcOf(c) /\ E(c) = objs[obj[c]] /\ E(c).val \in Nat
  BY <1>1, <1>2, EFacts DEF CacheInv, Working
<1>8. ASSUME NEW p \in Procs PROVE ProcOf(p)'
  <2>1. ProcOf(p) /\ (pc[p] \in Working => obj[p] \in 1..MaxObjs)
    BY <1>6 DEF CacheInv, ProcOf
  <2>2. CASE p = c
    BY <1>1, <1>2, <1>3, <1>7, <2>1, <2>2 DEF ProcOf, Working
  <2>3. CASE p = r
    BY <1>1, <1>2, <1>3, <1>7, <2>1, <2>3 DEF ProcOf, Working
  <2>4. CASE p \notin {c, r}
    <3>1. /\ pc'[p] = pc[p] /\ key'[p] = key[p] /\ obj'[p] = obj[p] /\ got'[p] = got[p]
          /\ gen'[p] = gen[p]
      BY <1>2, <1>3, <2>4
    <3> QED BY <1>2, <1>4, <2>1, <3>1 DEF ProcOf, SameValues, Working
  <2> QED BY <2>2, <2>3, <2>4
<1>9. Agree'
  <2> SUFFICES ASSUME NEW p \in Procs, NEW q \in Procs, pc'[p] \in Working, pc'[q] \in Working,
                      obj'[p] = obj'[q]
               PROVE  key'[p] = key'[q]
    BY DEF Agree, Working
  <2>1. /\ \A x \in Procs \ {c, r} : pc'[x] = pc[x] /\ key'[x] = key[x] /\ obj'[x] = obj[x]
        /\ p # c /\ q # c /\ pc[c] \in Working
    BY <1>2, <1>3 DEF Working
  <2>2. \A x, y \in Procs : pc[x] \in Working /\ pc[y] \in Working /\ obj[x] = obj[y] => key[x] = key[y]
    BY DEF CacheInv, Agree
  <2> QED BY <1>1, <1>3, <2>1, <2>2
<1>10. ASSUME NEW o \in 1..MaxObjs, NEW v, AtLeast(o, v) PROVE AtLeastNext(o, v)
  <2>1. ASSUME NEW q \in Procs, pc'[q] = "publish", obj'[q] = o
        PROVE  pc[q] = "publish" /\ obj[q] = o /\ gen'[q] = gen[q] /\ got'[q] = got[q]
    BY <1>2, <1>3, <2>1
  <2> QED BY <1>4, <1>10, <2>1, AtLeastKeeps DEF SameValues
<1>11. \A k \in Keys : entries[k] # 0 => entries[k] \in 1..MaxObjs
  BY <1>6 DEF CacheInv, MapInv
<1>12. Current'
  <2> SUFFICES ASSUME NEW k \in Keys, entries[k] # 0 PROVE AtLeastNext(entries[k], sealed[k])
    BY <1>2 DEF Current, AtLeast, AtLeastNext
  <2> QED BY <1>10, <1>11 DEF CacheInv, Current
<1>13. ASSUME NEW d \in Callers PROVE ReaderOf(d)' /\ DropperOf(d)'
  <2>1. ReaderOf(d) /\ DropperOf(d) /\ ProcOf(d) /\ d \in Procs /\ d # r
    BY <1>1 DEF CacheInv, Procs
  <2>2. CASE d = c
    <3>1. E(c).val >= floor[c] /\ floor[c] \in Nat
      BY <1>2, <1>7, <2>1, <2>2 DEF ReaderOf, Hit, AtLeast
    <3> QED BY <1>2, <1>3, <2>2, <3>1 DEF ReaderOf, DropperOf, Working
  <2>3. CASE d # c
    <3>1. pc'[d] = pc[d] /\ key'[d] = key[d] /\ obj'[d] = obj[d] /\ got'[d] = got[d]
      BY <1>3, <2>1, <2>3
    <3>2. pc[d] \in {"load", "queue", "recheck"} => AtLeast(obj[d], floor[d])'
      <4>1. pc[d] \in {"load", "queue", "recheck"} => obj[d] \in 1..MaxObjs
        BY <1>6, <2>1 DEF ProcOf, Working
      <4>2. pc[d] \in {"load", "queue", "recheck"} => AtLeastNext(obj[d], floor[d])
        BY <1>10, <2>1, <4>1 DEF ReaderOf
      <4> QED BY <1>2, <3>1, <4>2 DEF AtLeast, AtLeastNext
    <3>3. ReaderOf(d)'
      BY <1>2, <2>1, <3>1, <3>2 DEF ReaderOf, Working
    <3>4. ASSUME pc[d] = "drop", entries[key[d]] # 0, entries[key[d]] # obj[d]
          PROVE  AtLeastNext(entries[key[d]], got[d])
      <4>1. key[d] \in Keys /\ AtLeast(entries[key[d]], got[d])
        BY <2>1, <3>4 DEF ProcOf, DropperOf
      <4> QED BY <1>10, <1>11, <3>4, <4>1
    <3>5. DropperOf(d)'
      BY <1>2, <3>1, <3>4 DEF DropperOf, AtLeast, AtLeastNext
    <3> QED BY <3>3, <3>5
  <2> QED BY <2>2, <2>3
<1> QED BY <1>5, <1>8, <1>9, <1>12, <1>13 DEF CacheInv

\* entryFor: the key has an entry after it, its own or a new one, and other
\* keys keep theirs or have lost it.
LEMMA EntryForFacts ==
  ASSUME CacheInv, NEW k \in Keys, EntryFor(k)
  PROVE  /\ DOMAIN entries' = Keys /\ nobj' \in Nat /\ nobj <= nobj' /\ nobj' <= MaxObjs
         /\ entries'[k] \in Nat /\ entries'[k] # 0
         /\ \A j \in Keys :
              \/ entries'[j] = entries[j]
              \/ entries'[j] = 0
              \/ j = k /\ nobj' = nobj + 1 /\ entries'[j] = nobj + 1
<1>1. nobj \in Nat /\ nobj <= MaxObjs /\ MaxObjs \in Nat /\ DOMAIN entries = Keys
      /\ entries[k] \in Nat
  BY CacheAssumption DEF CacheInv, ObjsInv, CacheShape, MapInv
<1>2. CASE entries[k] # 0
  BY <1>1, <1>2 DEF EntryFor, mapVars
<1>3. CASE entries[k] = 0
  <2> DEFINE added == Append(order, k)
             over == Len(added) > MaxEntries
  <2>1. /\ nobj < MaxObjs /\ nobj' = nobj + 1
        /\ entries' = [j \in Keys |-> IF j = k THEN nobj'
                                      ELSE IF over /\ j = Head(added) THEN 0 ELSE entries[j]]
    BY <1>3 DEF EntryFor
  <2> HIDE DEF added, over
  <2>2. /\ DOMAIN entries' = Keys /\ entries'[k] = nobj + 1
        /\ \A j \in Keys : j # k => entries'[j] = 0 \/ entries'[j] = entries[j]
    BY <2>1
  <2>3. nobj + 1 \in Nat /\ nobj + 1 # 0 /\ nobj <= nobj + 1 /\ nobj + 1 <= MaxObjs
    BY <1>1, <2>1
  <2> QED BY <2>1, <2>2, <2>3
<1> QED BY <1>2, <1>3

\* A Fetch begins, or an Invalidate finds its entry.
LEMMA CallerEnters ==
  ASSUME CacheInv, NEW c \in Callers, pc[c] \notin Working, NEW k \in Keys, EntryFor(k),
         NEW s \in {"load", "drop"}, Goto(c, s), obj' = [obj EXCEPT ![c] = entries'[k]],
         CacheShape', key'[c] = k, got'[c] \in Nat, floor'[c] \in Nat,
         \A q \in Procs \ {c} : key'[q] = key[q] /\ got'[q] = got[q],
         \A d \in Callers \ {c} : floor'[d] = floor[d],
         s = "load" => got'[c] = 0 /\ floor'[c] = sealed[k],
         s = "drop" => got'[c] <= origin[k],
         UNCHANGED <<origin, objs, gen, sealed>>
  PROVE  CacheInv'
<1>1. /\ DOMAIN entries' = Keys /\ nobj' \in Nat /\ nobj <= nobj' /\ nobj' <= MaxObjs
      /\ entries'[k] \in Nat /\ entries'[k] # 0
      /\ \A j \in Keys :
           \/ entries'[j] = entries[j]
           \/ entries'[j] = 0
           \/ j = k /\ nobj' = nobj + 1 /\ entries'[j] = nobj + 1
  BY EntryForFacts
<1>2. /\ c \in Procs /\ pc'[c] = s /\ obj'[c] = entries'[k]
      /\ \A q \in Procs \ {c} : pc'[q] = pc[q] /\ obj'[q] = obj[q]
  BY DEF Goto, Procs, CacheInv, CacheShape
<1>3. nobj \in Nat /\ nobj <= MaxObjs /\ MaxObjs \in Nat
  BY CacheAssumption DEF CacheInv, ObjsInv
<1>4. ObjsInv'
  BY <1>1, <1>3 DEF CacheInv, ObjsInv
<1>5. \A j \in Keys : entries[j] \in Nat /\ entries[j] <= nobj
  BY DEF CacheInv, MapInv
<1>6. MapInv'
  <2>1. ASSUME NEW j \in Keys PROVE entries'[j] \in Nat /\ entries'[j] <= nobj'
    BY <1>1, <1>3, <1>5
  <2>2. ASSUME NEW i \in Keys, NEW j \in Keys, entries'[i] = entries'[j], entries'[i] # 0
        PROVE  i = j
    <3>1. entries[i] = entries[j] /\ entries[i] # 0 => i = j
      BY DEF CacheInv, MapInv
    <3>2. entries[i] # nobj + 1 /\ entries[j] # nobj + 1
      BY <1>3, <1>5
    <3> QED BY <1>1, <2>2, <3>1, <3>2
  <2> QED BY <2>1, <2>2 DEF CacheInv, MapInv
<1>7. ASSUME NEW q \in Procs, q # c PROVE ProcOf(q)'
  <2>1. /\ ProcOf(q) /\ pc'[q] = pc[q] /\ obj'[q] = obj[q] /\ key'[q] = key[q] /\ got'[q] = got[q]
        /\ gen'[q] = gen[q]
    BY <1>2, <1>7 DEF CacheInv
  <2>2. obj[q] \in Nat /\ obj[q] <= nobj' /\ obj[q] # nobj + 1
    BY <1>1, <1>3, <2>1 DEF ProcOf
  <2>3. ASSUME pc[q] \in Working, NEW j \in Keys, entries'[j] = obj[q] PROVE key[q] = j
    BY <1>1, <2>1, <2>2, <2>3 DEF ProcOf
  <2> QED BY <2>1, <2>2, <2>3 DEF ProcOf, Working
<1>8. ProcOf(c)'
  <2>1. ProcOf(c)
    BY <1>2 DEF CacheInv
  <2>2. \A j \in Keys : entries'[j] = entries'[k] => j = k
    BY <1>1, <1>6 DEF MapInv
  <2>3. obj'[c] \in Nat /\ obj'[c] <= nobj' /\ obj'[c] # 0
    BY <1>1, <1>2, <1>6 DEF MapInv
  <2> QED BY <1>2, <2>1, <2>2, <2>3 DEF ProcOf, Working
<1>9. Agree'
  <2>1. ASSUME NEW q \in Procs \ {c}, pc[q] \in Working, obj[q] = entries'[k] PROVE key[q] = k
    <3>1. ProcOf(q) /\ obj[q] # nobj + 1
      BY <1>3 DEF CacheInv, ProcOf
    <3> QED BY <1>1, <2>1, <3>1 DEF ProcOf
  <2> SUFFICES ASSUME NEW p \in Procs, NEW q \in Procs, pc'[p] \in Working, pc'[q] \in Working,
                      obj'[p] = obj'[q]
               PROVE  key'[p] = key'[q]
    BY DEF Agree, Working
  <2>2. CASE p # c /\ q # c
    BY <1>2, <2>2 DEF CacheInv, Agree
  <2>3. CASE p = c \/ q = c
    BY <1>2, <2>1, <2>3
  <2> QED BY <2>2, <2>3
<1>10. ASSUME NEW o, NEW v, AtLeast(o, v) PROVE AtLeastNext(o, v)
  <2>1. ASSUME NEW q \in Procs, pc'[q] = "publish", obj'[q] = o
        PROVE  pc[q] = "publish" /\ obj[q] = o /\ gen'[q] = gen[q] /\ got'[q] = got[q]
    BY <1>2, <2>1
  <2> QED BY <1>10, <2>1, AtLeastKeeps
\* A new entry is empty and nobody works on it.
<1>11. ASSUME nobj' = nobj + 1, NEW v PROVE AtLeastNext(nobj + 1, v)
  <2>1. nobj + 1 \in 1..MaxObjs /\ ~(nobj + 1 <= nobj)
    BY <1>1, <1>3, <1>11
  <2>2. ~objs'[nobj + 1].loaded
    BY <2>1 DEF CacheInv, ObjsInv
  <2>3. ASSUME NEW q \in Procs, pc'[q] = "publish" PROVE obj'[q] # nobj + 1
    <3>1. q # c /\ ProcOf(q)
      BY <1>2, <2>3 DEF CacheInv
    <3> QED BY <1>2, <1>3, <3>1 DEF ProcOf
  <2> QED BY <2>2, <2>3 DEF AtLeastNext
<1>12. ASSUME NEW j \in Keys, entries'[j] # 0 PROVE AtLeastNext(entries'[j], sealed[j])
  <2>1. entries[j] # 0 => AtLeast(entries[j], sealed[j])
    BY DEF CacheInv, Current
  <2>2. CASE entries'[j] = entries[j]
    BY <1>10, <1>12, <2>1, <2>2
  <2>3. CASE nobj' = nobj + 1 /\ entries'[j] = nobj + 1
    BY <1>11, <2>3
  <2> QED BY <1>1, <1>12, <2>2, <2>3
<1>13. Current'
  BY <1>12 DEF Current, AtLeast, AtLeastNext
<1>14. ASSUME NEW d \in Callers, d # c PROVE ReaderOf(d)' /\ DropperOf(d)'
  <2>1. /\ ReaderOf(d) /\ DropperOf(d) /\ ProcOf(d) /\ pc'[d] = pc[d] /\ key'[d] = key[d]
        /\ obj'[d] = obj[d] /\ got'[d] = got[d] /\ floor'[d] = floor[d]
    BY <1>2, <1>14 DEF CacheInv, Procs
  <2>2. pc[d] \in {"load", "queue", "recheck"} => AtLeastNext(obj[d], floor[d])
    BY <1>10, <2>1 DEF ReaderOf
  <2>3. ReaderOf(d)'
    BY <2>1, <2>2 DEF ReaderOf, Working, AtLeast, AtLeastNext
  <2>4. ASSUME pc[d] = "drop", entries'[key[d]] # 0, entries'[key[d]] # obj[d]
        PROVE  AtLeastNext(entries'[key[d]], got[d])
    <3>1. key[d] \in Keys
      BY <2>1, <2>4 DEF ProcOf
    <3>2. CASE entries'[key[d]] = entries[key[d]]
      BY <1>10, <2>1, <2>4, <3>2 DEF DropperOf
    <3>3. CASE nobj' = nobj + 1 /\ entries'[key[d]] = nobj + 1
      BY <1>11, <3>3
    <3> QED BY <1>1, <2>4, <3>1, <3>2, <3>3
  <2>5. DropperOf(d)'
    BY <2>1, <2>4 DEF DropperOf, AtLeast, AtLeastNext
  <2> QED BY <2>3, <2>5
<1>15. ReaderOf(c)' /\ DropperOf(c)'
  <2>1. AtLeastNext(entries'[k], sealed[k]) /\ sealed[k] \in Nat /\ sealed[k] <= sealed[k]
    BY <1>1, <1>12 DEF CacheInv, MapInv
  <2>2. s = "load" => AtLeast(obj[c], floor[c])'
    BY <1>2, <2>1 DEF AtLeast, AtLeastNext
  <2>3. ReaderOf(c)'
    BY <1>2, <2>1, <2>2 DEF ReaderOf, Working
  <2>4. DropperOf(c)'
    BY <1>2 DEF DropperOf
  <2> QED BY <2>3, <2>4
<1> QED BY <1>4, <1>6, <1>7, <1>8, <1>9, <1>13, <1>14, <1>15 DEF CacheInv

LEMMA FetchBeginsKeeps ==
  ASSUME CacheInv, NEW c \in Callers, NEW k \in Keys, FetchBegins(c, k)
  PROVE  CacheInv'
<1>1. /\ c \in Procs /\ pc[c] \notin Working /\ EntryFor(k) /\ Goto(c, "load")
      /\ obj' = [obj EXCEPT ![c] = entries'[k]] /\ UNCHANGED <<origin, objs, gen, sealed>>
  BY DEF FetchBegins, Working, Procs
<1>2. DOMAIN entries' = Keys
  BY <1>1, EntryForFacts
<1>3. /\ key'[c] = k /\ got'[c] = 0 /\ floor'[c] = sealed[k]
      /\ \A q \in Procs \ {c} : key'[q] = key[q] /\ got'[q] = got[q]
      /\ \A d \in Callers \ {c} : floor'[d] = floor[d]
  BY <1>1 DEF FetchBegins, CacheInv, CacheShape
<1>4. CacheShape'
  BY <1>1, <1>2 DEF FetchBegins, Goto, CacheInv, CacheShape
<1>5. got'[c] \in Nat /\ floor'[c] \in Nat
  BY <1>3 DEF CacheInv, MapInv
<1> QED BY <1>1, <1>3, <1>4, <1>5, CallerEnters

LEMMA InvalidateFindsKeeps ==
  ASSUME CacheInv, NEW c \in Callers, InvalidateFinds(c)
  PROVE  CacheInv'
<1>1. /\ c \in Procs /\ pc[c] \notin Working /\ EntryFor(key[c]) /\ Goto(c, "drop")
      /\ obj' = [obj EXCEPT ![c] = entries'[key[c]]]
      /\ UNCHANGED <<origin, objs, gen, sealed, key, got, floor>>
  BY DEF InvalidateFinds, Working, Procs
<1>2. key[c] \in Keys /\ got[c] \in Nat /\ got[c] <= origin[key[c]] /\ floor[c] \in Nat
  BY <1>1 DEF InvalidateFinds, CacheInv, ProcOf, ReaderOf
<1>3. DOMAIN entries' = Keys
  BY <1>1, <1>2, EntryForFacts
<1>4. CacheShape'
  BY <1>1, <1>3 DEF Goto, CacheInv, CacheShape
<1> DEFINE k == key[c]
<1>5. k \in Keys /\ EntryFor(k) /\ obj' = [obj EXCEPT ![c] = entries'[k]] /\ key'[c] = k
      /\ got'[c] <= origin[k]
  BY <1>1, <1>2
<1> HIDE DEF k
<1> QED BY <1>1, <1>2, <1>4, <1>5, CallerEnters

LEMMA MutatesKeeps ==
  ASSUME CacheInv, NEW c \in Callers, NEW k \in Keys, Mutates(c, k)
  PROVE  CacheInv'
<1>1. /\ c \in Procs /\ pc[c] \in {"idle", "done"}
      /\ UNCHANGED <<entries, nobj, objs, obj, gen, sealed, floor>>
  BY DEF Mutates, mapVars, Procs
<1>2. /\ DOMAIN origin' = Keys /\ origin'[k] = origin[k] + 1
      /\ \A j \in Keys \ {k} : origin'[j] = origin[j]
      /\ DOMAIN pc' = Procs /\ DOMAIN key' = Procs /\ DOMAIN got' = Procs
      /\ pc'[c] = "invalidate" /\ key'[c] = k /\ got'[c] = origin'[k]
      /\ \A q \in Procs \ {c} : pc'[q] = pc[q] /\ key'[q] = key[q] /\ got'[q] = got[q]
  BY <1>1 DEF Mutates, Goto, CacheInv, CacheShape
<1>3. \A j \in Keys : origin'[j] \in Nat /\ origin[j] \in Nat /\ origin[j] <= origin'[j]
  BY <1>2 DEF CacheInv, MapInv
<1>4. CacheShape' /\ ObjsInv'
  BY <1>1, <1>2 DEF CacheInv, CacheShape, ObjsInv
<1>5. MapInv'
  <2>1. ASSUME NEW j \in Keys PROVE sealed[j] <= origin'[j]
    <3>1. sealed[j] \in Nat /\ sealed[j] <= origin[j]
      BY DEF CacheInv, MapInv
    <3> QED BY <1>3, <3>1
  <2> QED BY <1>1, <1>3, <2>1 DEF CacheInv, MapInv
<1>6. ASSUME NEW q \in Procs PROVE ProcOf(q)'
  <2>1. ProcOf(q)
    BY DEF CacheInv
  <2>2. CASE q = c
    <3>1. got'[c] <= origin'[k] /\ got'[c] \in Nat
      BY <1>2, <1>3
    <3> QED BY <1>1, <1>2, <2>1, <2>2, <3>1 DEF ProcOf, Working
  <2>3. CASE q # c
    <3>1. pc[q] \in {"invalidate", "drop"} => key[q] \in Keys /\ got[q] <= origin'[key[q]]
      <4> SUFFICES ASSUME pc[q] \in {"invalidate", "drop"}
                   PROVE  key[q] \in Keys /\ got[q] <= origin'[key[q]]
        OBVIOUS
      <4>1. key[q] \in Keys /\ got[q] \in Nat /\ got[q] <= origin[key[q]]
        BY <2>1 DEF ProcOf
      <4> QED BY <1>3, <4>1
    <3> QED BY <1>1, <1>2, <2>1, <2>3, <3>1 DEF ProcOf, Working
  <2> QED BY <2>2, <2>3
<1>7. Agree'
  BY <1>1, <1>2 DEF CacheInv, Agree, Working
<1>8. ASSUME NEW o, NEW v, AtLeast(o, v) PROVE AtLeastNext(o, v)
  <2>1. ASSUME NEW q \in Procs, pc'[q] = "publish" PROVE pc[q] = "publish" /\ got'[q] = got[q]
    BY <1>2, <2>1
  <2> QED BY <1>1, <1>8, <2>1, AtLeastKeeps
<1>9. Current'
  <2> SUFFICES ASSUME NEW j \in Keys, entries[j] # 0 PROVE AtLeastNext(entries[j], sealed[j])
    BY <1>1 DEF Current, AtLeast, AtLeastNext
  <2> QED BY <1>8 DEF CacheInv, Current
<1>10. ASSUME NEW d \in Callers PROVE ReaderOf(d)' /\ DropperOf(d)'
  <2>1. ReaderOf(d) /\ DropperOf(d) /\ d \in Procs
    BY DEF CacheInv, Procs
  <2>2. CASE d = c
    BY <1>1, <1>2, <2>1, <2>2 DEF ReaderOf, DropperOf, Working
  <2>3. CASE d # c
    <3>1. pc'[d] = pc[d] /\ key'[d] = key[d] /\ got'[d] = got[d]
      BY <1>2, <2>1, <2>3
    <3>2. pc[d] \in {"load", "queue", "recheck"} => AtLeastNext(obj[d], floor[d])
      BY <1>8, <2>1 DEF ReaderOf
    <3>3. ReaderOf(d)'
      BY <1>1, <2>1, <3>1, <3>2 DEF ReaderOf, Working, AtLeast, AtLeastNext
    <3>4. pc[d] = "drop" /\ entries[key[d]] # 0 /\ entries[key[d]] # obj[d] =>
            AtLeastNext(entries[key[d]], got[d])
      BY <1>8, <2>1 DEF DropperOf
    <3>5. DropperOf(d)'
      BY <1>1, <3>1, <3>4 DEF DropperOf, AtLeast, AtLeastNext
    <3> QED BY <3>3, <3>5
  <2> QED BY <2>2, <2>3
<1> QED BY <1>4, <1>5, <1>6, <1>7, <1>9, <1>10 DEF CacheInv

\* The step that seals a mutation: a fetch that read the entry's generation
\* before it cannot publish any more, and if the entry was replaced meanwhile,
\* the one in the map is new enough.
LEMMA InvalidateDropsKeeps ==
  ASSUME CacheInv, NEW c \in Callers, InvalidateDrops(c)
  PROVE  CacheInv'
<1> DEFINE o == obj[c]
           k == key[c]
           e == Invalidated(E(c))
<1>1. /\ c \in Procs /\ pc[c] = "drop" /\ Store(c, e)
      /\ UNCHANGED <<origin, entries, nobj, key, obj, gen, got, floor>>
  BY DEF InvalidateDrops, mapVars, locVars, Procs
<1>2. ProcOf(c) /\ k \in Keys /\ got[c] \in Nat /\ got[c] <= origin[k]
  BY <1>1 DEF CacheInv, ProcOf
<1>3. /\ DOMAIN sealed' = Keys /\ \A j \in Keys \ {k} : sealed'[j] = sealed[j]
      /\ sealed'[k] = IF got[c] > sealed[k] THEN got[c] ELSE sealed[k]
      /\ DOMAIN pc' = Procs /\ pc'[c] = "idle" /\ \A q \in Procs \ {c} : pc'[q] = pc[q]
  BY <1>1, <1>2 DEF InvalidateDrops, Goto, CacheInv, CacheShape
<1>4. /\ o \in 1..MaxObjs /\ E(c) = objs[o] /\ DOMAIN E(c) = EntryFields
      /\ E(c).val \in Nat /\ E(c).gen \in Nat
  BY <1>1, EFacts
<1>5. DOMAIN e = EntryFields /\ e.loaded = FALSE /\ e.val = E(c).val /\ e.gen = E(c).gen + 1
  BY <1>4 DEF Invalidated, EntryFields
<1> HIDE DEF e
<1>6. /\ DOMAIN objs' = 1..MaxObjs /\ objs'[o] = e
      /\ \A n \in 1..MaxObjs : n # o => objs'[n] = objs[n]
      /\ \A n \in 1..MaxObjs : DOMAIN objs'[n] = EntryFields
  BY <1>1, <1>5, StoreFacts
<1> HIDE DEF o, k
<1>7. CacheShape'
  BY <1>1, <1>3, <1>6 DEF CacheInv, CacheShape
<1>8. ObjsInv'
  <2>1. ASSUME NEW n \in 1..MaxObjs
        PROVE  /\ objs'[n].val \in Nat /\ objs'[n].gen \in Nat /\ objs[n].gen \in Nat
               /\ objs[n].gen <= objs'[n].gen
               /\ objs'[n].loaded => n <= nobj
    <3>1. CASE n = o
      BY <1>4, <1>5, <1>6, <3>1
    <3>2. CASE n # o
      BY <1>6, <3>2 DEF CacheInv, ObjsInv
    <3> QED BY <3>1, <3>2
  <2> QED BY <1>1, <2>1 DEF CacheInv, ObjsInv
<1>9. /\ \A j \in Keys : sealed'[j] \in Nat /\ sealed[j] \in Nat /\ sealed[j] <= sealed'[j]
      /\ \A j \in Keys : sealed'[j] <= origin[j]
  <2>1. ASSUME NEW j \in Keys
        PROVE  /\ sealed'[j] \in Nat /\ sealed[j] \in Nat /\ sealed[j] <= sealed'[j]
               /\ sealed'[j] <= origin[j]
    <3>1. sealed[j] \in Nat /\ sealed[j] <= origin[j]
      BY DEF CacheInv, MapInv
    <3>2. CASE j = k
      BY <1>2, <1>3, <3>1, <3>2
    <3>3. CASE j # k
      BY <1>3, <3>1, <3>3
    <3> QED BY <3>2, <3>3
  <2> QED BY <2>1
<1>10. MapInv'
  BY <1>1, <1>9 DEF CacheInv, MapInv
<1>11. ASSUME NEW q \in Procs PROVE ProcOf(q)'
  <2>1. ProcOf(q) /\ nobj \in Nat /\ nobj <= MaxObjs /\ MaxObjs \in Nat
    BY CacheAssumption DEF CacheInv, ObjsInv
  <2>2. pc[q] \in {"fn", "publish"} => gen[q] <= objs'[obj[q]].gen
    <3> SUFFICES ASSUME pc[q] \in {"fn", "publish"} PROVE gen[q] <= objs'[obj[q]].gen
      OBVIOUS
    <3>1. obj[q] \in 1..MaxObjs /\ gen[q] \in Nat /\ gen[q] <= objs[obj[q]].gen
      BY <2>1 DEF ProcOf, Working
    <3>2. CASE obj[q] # o
      BY <1>6, <3>1, <3>2
    <3>3. CASE obj[q] = o
      BY <1>4, <1>5, <1>6, <3>1, <3>3
    <3> QED BY <3>2, <3>3
  <2> QED BY <1>1, <1>3, <2>1, <2>2 DEF ProcOf, Working
<1>12. Agree'
  BY <1>1, <1>3 DEF CacheInv, Agree, Working
<1>13. ASSUME NEW v PROVE AtLeastNext(o, v)
  <2>1. ASSUME NEW q \in Procs, pc'[q] = "publish", obj'[q] = o PROVE gen'[q] # objs'[o].gen
    <3>1. ProcOf(q) /\ pc[q] = "publish" /\ obj[q] = o
      BY <1>1, <1>3, <2>1 DEF CacheInv
    <3>2. gen[q] \in Nat /\ gen[q] <= objs[o].gen
      BY <3>1 DEF ProcOf
    <3> QED BY <1>1, <1>4, <1>5, <1>6, <3>2
  <2> QED BY <1>5, <1>6, <2>1 DEF AtLeastNext
<1>14. ASSUME NEW n \in 1..MaxObjs, NEW v, AtLeast(n, v) PROVE AtLeastNext(n, v)
  <2>1. CASE n = o
    BY <1>13, <2>1
  <2>2. CASE n # o
    <3>1. ASSUME NEW q \in Procs, pc'[q] = "publish" PROVE pc[q] = "publish"
      BY <1>3, <3>1
    <3> QED BY <1>1, <1>6, <1>14, <2>2, <3>1, AtLeastKeeps
  <2> QED BY <2>1, <2>2
<1>15. \A j \in Keys : entries[j] # 0 => entries[j] \in 1..MaxObjs
  BY CacheAssumption DEF CacheInv, MapInv, ObjsInv
<1>16. Current'
  <2> SUFFICES ASSUME NEW j \in Keys, entries[j] # 0 PROVE AtLeastNext(entries[j], sealed'[j])
    BY <1>1 DEF Current, AtLeast, AtLeastNext
  <2>1. AtLeast(entries[j], sealed[j])
    BY DEF CacheInv, Current
  <2>2. CASE j # k
    BY <1>3, <1>14, <1>15, <2>1, <2>2
  <2>3. CASE j = k /\ entries[j] = o
    BY <1>13, <2>3
  <2>4. CASE j = k /\ entries[j] # o
    <3>1. AtLeast(entries[j], got[c])
      BY <1>1, <2>4 DEF CacheInv, DropperOf, k, o
    <3> QED BY <1>3, <1>14, <1>15, <2>1, <2>4, <3>1
  <2> QED BY <2>2, <2>3, <2>4
<1>17. ASSUME NEW d \in Callers PROVE ReaderOf(d)' /\ DropperOf(d)'
  <2>1. ReaderOf(d) /\ DropperOf(d) /\ ProcOf(d) /\ d \in Procs
    BY DEF CacheInv, Procs
  <2>2. CASE d = c
    BY <1>1, <1>3, <2>1, <2>2 DEF ReaderOf, DropperOf, Working
  <2>3. CASE d # c
    <3>1. pc'[d] = pc[d] /\ nobj \in Nat /\ nobj <= MaxObjs /\ MaxObjs \in Nat
      BY <1>3, <2>1, <2>3, CacheAssumption DEF CacheInv, ObjsInv
    <3>2. pc[d] \in {"load", "queue", "recheck"} => AtLeastNext(obj[d], floor[d])
      <4>1. pc[d] \in {"load", "queue", "recheck"} => obj[d] \in 1..MaxObjs
        BY <2>1, <3>1 DEF ProcOf, Working
      <4> QED BY <1>14, <2>1, <4>1 DEF ReaderOf
    <3>3. pc[d] \in Working \ {"publish"} => floor[d] <= sealed'[key[d]]
      <4> SUFFICES ASSUME pc[d] \in Working \ {"publish"} PROVE floor[d] <= sealed'[key[d]]
        OBVIOUS
      <4>1. floor[d] \in Nat /\ floor[d] <= sealed[key[d]] /\ key[d] \in Keys
        BY <2>1 DEF ReaderOf, ProcOf
      <4> QED BY <1>9, <4>1
    <3>4. ReaderOf(d)'
      BY <1>1, <2>1, <3>1, <3>2, <3>3 DEF ReaderOf, Working, AtLeast, AtLeastNext
    <3>5. ASSUME pc[d] = "drop", entries[key[d]] # 0, entries[key[d]] # obj[d]
          PROVE  AtLeastNext(entries[key[d]], got[d])
      <4>1. key[d] \in Keys /\ AtLeast(entries[key[d]], got[d])
        BY <2>1, <3>5 DEF ProcOf, DropperOf
      <4> QED BY <1>14, <1>15, <3>5, <4>1
    <3>6. DropperOf(d)'
      BY <1>1, <3>1, <3>5 DEF DropperOf, AtLeast, AtLeastNext
    <3> QED BY <3>4, <3>6
  <2> QED BY <2>2, <2>3
<1> QED BY <1>7, <1>8, <1>10, <1>11, <1>12, <1>16, <1>17 DEF CacheInv

-----------------------------------------------------------------------------
InFlight == {"gen", "fn", "publish"}

\* The entry of a revalidation in flight exists.
LEMMA InFlightFacts ==
  ASSUME CacheInv, NEW r \in Revalidators, pc[r] \in InFlight
  PROVE  r \in Procs /\ obj[r] \in 1..MaxObjs
<1>1. r \in Procs
  BY DEF Procs
<1> QED BY <1>1, EFacts DEF InFlight, Working

\* Nothing is spawned and no claim is dropped but by the one that held it.
LEMMA ClaimsStay ==
  ASSUME RefreshInv,
         \A r \in Revalidators : pc'[r] \in InFlight =>
           /\ pc[r] \in InFlight /\ obj'[r] = obj[r]
           /\ objs[obj[r]].refreshing => objs'[obj[r]].refreshing
  PROVE  RefreshInv'
BY DEF RefreshInv, InFlight

\* A step of a caller that spawns nothing writes back at most the entry it
\* works on, with the claim that was on it.
LEMMA CallerKeepsClaims ==
  ASSUME CacheInv, RefreshInv, NEW c \in Callers,
         \A r \in Procs \ {c} : pc'[r] = pc[r] /\ obj'[r] = obj[r],
         \A o \in 1..MaxObjs : objs[o].refreshing => objs'[o].refreshing
  PROVE  RefreshInv'
<1>1. ASSUME NEW r \in Revalidators, pc'[r] \in InFlight
      PROVE  /\ pc[r] \in InFlight /\ obj'[r] = obj[r]
             /\ objs[obj[r]].refreshing => objs'[obj[r]].refreshing
  <2>1. r \in Procs /\ r # c
    BY CacheAssumption DEF Procs
  <2>2. pc[r] \in InFlight /\ obj'[r] = obj[r]
    BY <1>1, <2>1
  <2> QED BY <2>2, InFlightFacts
<1> QED BY <1>1, ClaimsStay

LEMMA CallerStore ==
  ASSUME CacheInv, RefreshInv, NEW c \in Callers, pc[c] \in Working \cup {"drop"}, NEW e,
         Store(c, e), DOMAIN e = EntryFields, E(c).refreshing => e.refreshing,
         NEW s, Goto(c, s), obj' = obj
  PROVE  RefreshInv'
<1>1. c \in Procs
  BY DEF Procs
<1>2. /\ objs'[obj[c]] = e /\ E(c) = objs[obj[c]]
      /\ \A o \in 1..MaxObjs : o # obj[c] => objs'[o] = objs[o]
  BY <1>1, StoreFacts, EFacts
<1>3. \A o \in 1..MaxObjs : objs[o].refreshing => objs'[o].refreshing
  BY <1>2
<1>4. \A r \in Procs \ {c} : pc'[r] = pc[r] /\ obj'[r] = obj[r]
  BY DEF Goto, CacheInv, CacheShape
<1> QED BY <1>3, <1>4, CallerKeepsClaims

LEMMA CallerClaims ==
  ASSUME CacheInv, RefreshInv, NEW c \in Callers,
         \/ FetchMismatch(c) \/ FetchHits(c) \/ FetchQueues(c) \/ FetchLocks(c)
         \/ RecheckMisses(c) \/ FnFailsCold(c) \/ ReadsGen(c) \/ FnReads(c)
         \/ InvalidateFinds(c) \/ \E k \in Keys : FetchBegins(c, k) \/ Mutates(c, k)
  PROVE  RefreshInv'
<1>1. objs' = objs
  BY DEF FetchMismatch, FetchHits, FetchQueues, FetchLocks, RecheckMisses, FnFailsCold,
         ReadsGen, FnReads, InvalidateFinds, FetchBegins, Mutates
<1>2. PICK s : Goto(c, s)
  BY DEF FetchMismatch, FetchHits, FetchQueues, FetchLocks, RecheckMisses, FnFailsCold,
         ReadsGen, FnReads, InvalidateFinds, FetchBegins, Mutates
<1>3. obj' = obj \/ \E n : obj' = [obj EXCEPT ![c] = n]
  BY DEF FetchMismatch, FetchHits, FetchQueues, FetchLocks, RecheckMisses, FnFailsCold,
         ReadsGen, FnReads, InvalidateFinds, FetchBegins, Mutates, locVars
<1>4. \A r \in Procs \ {c} : pc'[r] = pc[r] /\ obj'[r] = obj[r]
  BY <1>2, <1>3 DEF Goto, CacheInv, CacheShape
<1> QED BY <1>1, <1>4, CallerKeepsClaims

LEMMA CallerStoresClaims ==
  ASSUME CacheInv, RefreshInv, NEW c \in Callers,
         RecheckClaims(c) \/ FetchPublishes(c) \/ InvalidateDrops(c)
  PROVE  RefreshInv'
<1>1. c \in Procs
  BY DEF Procs
<1>2. CASE RecheckClaims(c)
  <2> DEFINE e == Claimed(E(c))
  <2>1. DOMAIN E(c) = EntryFields
    BY <1>1, <1>2, EFacts DEF RecheckClaims, Working
  <2>2. DOMAIN e = EntryFields /\ e.refreshing
    BY <2>1 DEF Claimed, EntryFields
  <2>3. Store(c, e) /\ Goto(c, "done") /\ obj' = obj /\ pc[c] \in Working
    BY <1>2 DEF RecheckClaims, Working
  <2> HIDE DEF e
  <2> QED BY <2>2, <2>3, CallerStore
<1>3. CASE FetchPublishes(c)
  <2> DEFINE e == Published(c)
  <2>1. DOMAIN e = EntryFields /\ e.refreshing = E(c).refreshing
    BY <1>1, <1>3, PublishedFacts DEF FetchPublishes
  <2>2. Store(c, e) /\ Goto(c, "done") /\ obj' = obj /\ pc[c] \in Working
    BY <1>3 DEF FetchPublishes, Working, locVars
  <2> HIDE DEF e
  <2> QED BY <2>1, <2>2, CallerStore
<1>4. CASE InvalidateDrops(c)
  <2> DEFINE e == Invalidated(E(c))
  <2>1. DOMAIN E(c) = EntryFields
    BY <1>1, <1>4, EFacts DEF InvalidateDrops
  <2>2. DOMAIN e = EntryFields /\ e.refreshing = E(c).refreshing
    BY <2>1 DEF Invalidated, EntryFields
  <2>3. Store(c, e) /\ Goto(c, "idle") /\ obj' = obj /\ pc[c] = "drop"
    BY <1>4 DEF InvalidateDrops, locVars
  <2> HIDE DEF e
  <2> QED BY <2>2, <2>3, CallerStore
<1> QED BY <1>2, <1>3, <1>4

\* The claim is taken by the caller that spawns, so nobody else held it.
LEMMA SpawnClaims ==
  ASSUME CacheInv, RefreshInv, NEW c \in Callers, NEW r \in Revalidators, FetchSpawns(c, r)
  PROVE  RefreshInv'
<1> DEFINE e == Claimed(E(c))
<1>1. c \in Procs /\ r \in Procs /\ \A s \in Revalidators : s \in Procs /\ s # c
  BY CacheAssumption DEF Procs
<1>2. pc[c] = "load" /\ ~E(c).refreshing /\ Store(c, e) /\ pc[r] = "idle"
  BY DEF FetchSpawns
<1>3. obj[c] \in 1..MaxObjs /\ E(c) = objs[obj[c]] /\ DOMAIN E(c) = EntryFields
  BY <1>1, <1>2, EFacts DEF Working
<1>4. DOMAIN e = EntryFields /\ e.refreshing
  BY <1>3 DEF Claimed, EntryFields
<1> HIDE DEF e
<1>5. objs'[obj[c]] = e /\ \A o \in 1..MaxObjs : o # obj[c] => objs'[o] = objs[o]
  BY <1>1, <1>2, <1>4, StoreFacts DEF Working
<1>6. /\ obj'[r] = obj[c]
      /\ \A s \in Revalidators \ {r} : pc'[s] = pc[s] /\ obj'[s] = obj[s]
  BY <1>1 DEF FetchSpawns, CacheInv, CacheShape
<1>7. ASSUME NEW s \in Revalidators \ {r}, pc'[s] \in InFlight
      PROVE  /\ pc[s] \in InFlight /\ obj[s] \in 1..MaxObjs /\ objs[obj[s]].refreshing
             /\ obj[s] # obj[c] /\ obj'[s] = obj[s]
  <2>1. pc[s] \in InFlight /\ obj'[s] = obj[s]
    BY <1>6, <1>7
  <2>2. obj[s] \in 1..MaxObjs /\ objs[obj[s]].refreshing
    BY <2>1, InFlightFacts DEF RefreshInv, InFlight
  <2> QED BY <1>2, <1>3, <2>1, <2>2
<1>8. ASSUME NEW s \in Revalidators, pc'[s] \in InFlight PROVE objs'[obj'[s]].refreshing
  <2>1. CASE s = r
    BY <1>4, <1>5, <1>6, <2>1
  <2>2. CASE s # r
    BY <1>5, <1>7, <1>8, <2>2
  <2> QED BY <2>1, <2>2
<1>9. ASSUME NEW s \in Revalidators, NEW t \in Revalidators, pc'[s] \in InFlight,
             pc'[t] \in InFlight, obj'[s] = obj'[t]
      PROVE  s = t
  <2>1. CASE s # r /\ t # r
    <3>1. obj[s] = obj[t] /\ pc[s] \in InFlight /\ pc[t] \in InFlight
      BY <1>7, <1>9, <2>1
    <3> QED BY <3>1 DEF RefreshInv, InFlight
  <2>2. CASE s = r \/ t = r
    BY <1>6, <1>7, <1>9, <2>2
  <2> QED BY <2>1, <2>2
<1> QED BY <1>8, <1>9 DEF RefreshInv, InFlight

LEMMA RevalidateClaims ==
  ASSUME CacheInv, RefreshInv, NEW r \in Revalidators, Revalidate(r)
  PROVE  RefreshInv'
<1>1. r \in Procs /\ pc[r] \in InFlight /\ obj' = obj
  BY DEF Procs, Revalidate, ReadsGen, FnReads, RevalidateEnds, RevalidateFails, InFlight, locVars
<1>2. PICK t : Goto(r, t)
  BY DEF Revalidate, ReadsGen, FnReads, RevalidateEnds, RevalidateFails
<1>3. \A s \in Revalidators \ {r} : pc'[s] = pc[s]
  BY <1>2 DEF Goto, CacheInv, CacheShape, Procs
<1>4. CASE objs' = objs
  BY <1>1, <1>3, <1>4, ClaimsStay
<1>5. CASE pc'[r] = "idle" /\ \E e : Store(r, e)
  <2>1. ASSUME NEW s \in Revalidators, pc'[s] \in InFlight
        PROVE  pc[s] \in InFlight /\ objs'[obj[s]] = objs[obj[s]]
    <3>1. s # r /\ pc[s] \in InFlight
      BY <1>3, <1>5, <2>1 DEF InFlight
    <3>2. obj[s] # obj[r]
      BY <1>1, <3>1 DEF RefreshInv, InFlight
    <3>3. obj[s] \in 1..MaxObjs
      BY <3>1, InFlightFacts
    <3> QED BY <1>5, <3>1, <3>2, <3>3 DEF Store, CacheInv, CacheShape
  <2> QED BY <1>1, <2>1, ClaimsStay
<1>6. objs' = objs \/ (pc'[r] = "idle" /\ \E e : Store(r, e))
  <2>1. CASE ReadsGen(r) \/ FnReads(r)
    BY <2>1 DEF ReadsGen, FnReads
  <2>2. CASE RevalidateEnds(r)
    BY <1>1, <2>2 DEF RevalidateEnds, Goto, CacheInv, CacheShape
  <2>3. CASE RevalidateFails(r)
    BY <1>1, <2>3 DEF RevalidateFails, Goto, CacheInv, CacheShape
  <2> QED BY <2>1, <2>2, <2>3 DEF Revalidate
<1> QED BY <1>4, <1>5, <1>6

LEMMA ExpiresClaims ==
  ASSUME CacheInv, RefreshInv, NEW o \in 1..nobj, Expires(o)
  PROVE  RefreshInv'
<1>1. o \in 1..MaxObjs
  BY CacheAssumption DEF CacheInv, ObjsInv
<1>2. DOMAIN objs[o] = EntryFields /\ DOMAIN objs = 1..MaxObjs
  BY <1>1 DEF CacheInv, CacheShape
<1>3. /\ objs'[o] = [objs[o] EXCEPT !.fresh = FALSE]
      /\ \A n \in 1..MaxObjs : n # o => objs'[n] = objs[n]
  BY <1>1, <1>2 DEF Expires
<1>4. \A n \in 1..MaxObjs : objs'[n].refreshing = objs[n].refreshing
  BY <1>2, <1>3 DEF EntryFields
<1>5. pc' = pc /\ obj' = obj
  BY DEF Expires, locVars
<1> QED BY <1>4, <1>5, InFlightFacts, ClaimsStay

\* The inductive invariant of the cache: what each entry holds and what is on
\* its way into it is bounded below by what its readers were promised, and a
\* revalidation holds the claim of its entry.
THEOREM CacheInductive == CacheSpec => [](CacheInv /\ RefreshInv)
<1>1. CacheInit => CacheInv /\ RefreshInv
  BY CacheStarts
<1>2. CacheInv /\ RefreshInv /\ [CacheNext]_cacheVars => CacheInv' /\ RefreshInv'
  <2> SUFFICES ASSUME CacheInv, RefreshInv, [CacheNext]_cacheVars
               PROVE  CacheInv' /\ RefreshInv'
    OBVIOUS
  <2>1. ASSUME NEW c \in Callers, NEW k \in Keys, FetchBegins(c, k) \/ Mutates(c, k)
        PROVE  CacheInv' /\ RefreshInv'
    BY <2>1, FetchBeginsKeeps, MutatesKeeps, CallerClaims
  <2>2. ASSUME NEW c \in Callers, Fetching(c) PROVE CacheInv' /\ RefreshInv'
    <3>1. c \in Procs
      BY DEF Procs
    <3>2. CASE FetchMismatch(c) \/ FetchQueues(c) \/ FetchLocks(c) \/ RecheckMisses(c) \/ FnFailsCold(c)
      BY <3>2, WalksKeep, CallerClaims
    <3>3. CASE ReadsGen(c) \/ FnReads(c)
      BY <3>1, <3>3, ReadsGenKeeps, FnReadsKeeps, CallerClaims
    <3>4. CASE FetchHits(c)
      BY <3>4, HitsKeep, CallerClaims
    <3>5. CASE RecheckClaims(c)
      BY <3>5, HitsKeep, CallerStoresClaims
    <3>6. CASE FetchPublishes(c)
      BY <3>6, FetchPublishesKeeps, CallerStoresClaims
    <3>7. ASSUME NEW r \in Revalidators, FetchSpawns(c, r) PROVE CacheInv' /\ RefreshInv'
      BY <3>7, FetchSpawnsKeeps, SpawnClaims
    <3> QED BY <2>2, <3>2, <3>3, <3>4, <3>5, <3>6, <3>7 DEF Fetching
  <2>3. ASSUME NEW c \in Callers, InvalidateFinds(c) PROVE CacheInv' /\ RefreshInv'
    BY <2>3, InvalidateFindsKeeps, CallerClaims
  <2>4. ASSUME NEW c \in Callers, InvalidateDrops(c) PROVE CacheInv' /\ RefreshInv'
    BY <2>4, InvalidateDropsKeeps, CallerStoresClaims
  <2>5. ASSUME NEW r \in Revalidators, Revalidate(r) PROVE CacheInv' /\ RefreshInv'
    <3>1. r \in Procs
      BY DEF Procs
    <3>2. CacheInv'
      BY <2>5, <3>1, ReadsGenKeeps, FnReadsKeeps, RevalidateEndsKeeps, RevalidateFailsKeeps
         DEF Revalidate
    <3> QED BY <2>5, <3>2, RevalidateClaims
  <2>6. ASSUME NEW o \in 1..nobj, Expires(o) PROVE CacheInv' /\ RefreshInv'
    BY <2>6, ExpiresKeeps, ExpiresClaims
  <2>7. CASE UNCHANGED cacheVars
    <3>1. /\ UNCHANGED <<origin, entries, nobj, pc, key, obj, gen, got, sealed, floor, objs>>
      BY <2>7 DEF cacheVars, mapVars, locVars
    <3>2. CacheShape' /\ SameValues
      BY <3>1 DEF CacheInv, CacheShape, SameValues
    <3>3. CacheInv'
      BY <3>1, <3>2, NoProcMoves
    <3> QED BY <3>1, <3>3 DEF RefreshInv
  <2> QED BY <2>1, <2>2, <2>3, <2>4, <2>5, <2>6, <2>7 DEF CacheNext
<1> QED BY <1>1, <1>2, PTL DEF CacheSpec

\* Invalidate bumps the generation a fetch in flight has to match: a Fetch that
\* begins after it returned hands out nothing older than the mutation, whatever
\* is in flight and whatever is evicted.
THEOREM ReadYourWritesCorrect == CacheSpec => []ReadYourWrites
<1>1. CacheInv => ReadYourWrites
  BY DEF CacheInv, ReaderOf, ReadYourWrites
<1> QED BY <1>1, CacheInductive, PTL

\* load hands the refresh of a stale entry to one caller, through evictions and
\* invalidations too: its revalidation is the only one in flight.
THEOREM OneRefreshCorrect == CacheSpec => []OneRefresh
<1>1. RefreshInv => OneRefresh
  <2> SUFFICES ASSUME RefreshInv, NEW o PROVE Cardinality(Refreshing(o)) <= 1
    BY DEF OneRefresh
  <2>1. CASE Refreshing(o) = {}
    BY <2>1, FS_EmptySet
  <2>2. CASE Refreshing(o) # {}
    <3>1. PICK r : r \in Refreshing(o)
      BY <2>2
    <3>2. Refreshing(o) = {r}
      BY <3>1 DEF Refreshing, RefreshInv
    <3> QED BY <3>2, FS_Singleton
  <2> QED BY <2>1, <2>2
<1> QED BY <1>1, CacheInductive, PTL
=============================================================================
