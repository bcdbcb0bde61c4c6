-------------------------------- MODULE Login --------------------------------
(***************************************************************************)
(* The login handshake of fiberauth.Gate (oidcauth/fiberauth/handshake.go, *)
(* cookies.go) with oidcauth.Provider behind it: login, callback and       *)
(* logout requests of several browsers under way at once, the cookies they *)
(* carry under the bare and the __Host- names, an identity provider that   *)
(* answers each attempt with codes or errors, and a login that is          *)
(* reconfigured, and so renames its cookies, while all of that goes on.    *)
(*                                                                         *)
(* A request carries the cookies its browser had when it was sent; what    *)
(* the response sets and clears reaches the browser later, or never. The   *)
(* secrets of an attempt are random, so state, nonce and verifier are all  *)
(* known by the attempt's number; so is a session token by its own.        *)
(***************************************************************************)
EXTENDS Integers, Sequences, FiniteSets

CONSTANTS
  Browsers,
  NoBrowser,     \* not a browser
  Calls,         \* callbacks and logouts under way at once
  MaxAttempts,   \* bound: logins started
  MaxCodes,      \* bound: codes the identity provider issues per attempt
  MaxSessions    \* bound: sessions created

ASSUME LoginAssumption ==
  /\ NoBrowser \notin Browsers
  /\ MaxAttempts \in Nat /\ MaxCodes \in Nat /\ MaxSessions \in Nat

VARIABLES
  prov,        \* what Options.Provider returns: Off, or the scheme of its BaseURL
  stateJar,    \* each browser's handshake cookies, by name
  sessJar,     \* each browser's session cookies, by name: a token, 0 for none
  starter,     \* the logins started, each by the browser that started it
  used,        \* the codes the identity provider has seen exchanged
  minted,      \* sessions created so far; a token is the number of its session
  rows,        \* the tokens with a row in the session store
  burnt,       \* history: handshakes a callback's response found in a browser
  ended,       \* history: tokens a logout's response found in a browser
  call         \* the requests under way, see Call

idpVars == <<starter, used>>
storeVars == <<minted, rows>>
histVars == <<burnt, ended>>
vars == <<prov, stateJar, sessJar, idpVars, storeVars, histVars, call>>

Off == "off"
Schemes == {"http", "https"}
Names == {"bare", "__Host-"}
Attempts == 1..MaxAttempts
Tokens == 1..MaxSessions

\* Destinations: a path of this site, and what a browser would read as
\* another site (an absolute URL, "//host", "/\host").
Raw == {"here", "elsewhere"}

\* A handshake cookie: an attempt's secrets with the return path. NoState is
\* none, or one that does not parse.
NoState == [attempt |-> 0, next |-> "here"]

\* The query of a callback, as the identity provider made it: a code (one of
\* several, when its page was opened again), or 0: an error, or neither.
Answer == [state : Attempts, code : 0..MaxCodes]

\* How a callback fails: before the handshake is recognised, on the answer of
\* the identity provider, in the exchange, or in the session store.
Reasons == {"expired", "refused", "not_exchanged", "server"}

Idle == [pc |-> "idle", browser |-> NoBrowser, prov |-> Off,
         state |-> 0, code |-> 0, to |-> "here", token |-> 0, spent |-> FALSE]

\* The handshakes, and the session tokens, in a browser's jar.
HandshakesOf(b) == {stateJar[b][n].attempt : n \in Names} \ {0}
TokensOf(b) == {sessJar[b][n] : n \in Names} \ {0}

Becomes(x, c) == call' = [call EXCEPT ![x] = c]

Init ==
  /\ prov \in {Off} \cup Schemes
  /\ stateJar = [b \in Browsers |-> [n \in Names |-> NoState]]
  /\ sessJar = [b \in Browsers |-> [n \in Names |-> 0]]
  /\ starter = <<>>
  /\ used = {}
  /\ minted = 0 /\ rows = {}
  /\ burnt = [b \in Browsers |-> {}] /\ ended = [b \in Browsers |-> {}]
  /\ call = [x \in Calls |-> Idle]
-----------------------------------------------------------------------------
(* Plausible mistakes in this code, for checking that the properties see them *)

ClearedMut_CurrentName(jar, none, p) ==
  [n \in Names |-> IF (n = "__Host-") = (p = "https") THEN none ELSE jar[n]]

CallbackOutcomeMut_NoStateCheck(cookie, q) ==
  IF cookie = NoState THEN "expired"
  ELSE IF q.code = 0 THEN "refused" ELSE "exchange"

LogoutRespondsMut_CurrentName(x) ==
  /\ call[x].pc = "logout"
  /\ LET b == call[x].browser IN
       /\ ended' = [ended EXCEPT ![b] = @ \cup TokensOf(b)]
       /\ sessJar' = [sessJar EXCEPT ![b][IF prov = "https" THEN "__Host-" ELSE "bare"] = 0]
  /\ Becomes(x, Idle)
  /\ UNCHANGED <<prov, stateJar, idpVars, storeVars, burnt>>
-----------------------------------------------------------------------------
(* Cookies                                                                 *)

\* sessionCookieName and stateCookieName: prefixed on an HTTPS deployment.
CookieName(p) == IF p = "https" THEN "__Host-" ELSE "bare"

\* clearCookie for every name of sessionCookieNames or stateCookieNames: a
\* jar after a response made under provider p.
Cleared(jar, none, p) == [n \in Names |-> none]

\* SafeReturnPath: "/" for anything that is not plainly a path on this site.
SafeReturnPath(raw) == IF raw = "elsewhere" THEN "here" ELSE raw
-----------------------------------------------------------------------------
(* Login                                                                   *)

\* loginHandler (404 when no login is configured, and a failure page when the
\* provider's metadata is neither cached nor found): the handshake is minted
\* and put in a cookie. Everything happens with the response.
Login(b, raw) ==
  /\ prov # Off /\ Len(starter) < MaxAttempts
  /\ starter' = Append(starter, b)
  /\ stateJar' = [stateJar EXCEPT ![b][CookieName(prov)] =
       [attempt |-> Len(starter'), next |-> SafeReturnPath(raw)]]
  /\ UNCHANGED <<prov, sessJar, used, storeVars, histVars, call>>
-----------------------------------------------------------------------------
(* Callback                                                                *)

\* callbackHandler up to the exchange: the cookie of the name in force must
\* parse and match the state, and only then is the provider's answer read.
CallbackOutcome(cookie, q) ==
  IF q.state # cookie.attempt THEN "expired"
  ELSE IF q.code = 0 THEN "refused" ELSE "exchange"

\* Any browser opens the URL of any answer, once or again. parseStateCookie
\* validates the return path again on its way out.
CallbackBegins(x, b, q) ==
  /\ call[x].pc = "idle" /\ prov # Off /\ q.state <= Len(starter)
  /\ LET cookie == stateJar[b][CookieName(prov)]
         outcome == CallbackOutcome(cookie, q)
     IN Becomes(x, [pc |-> outcome, browser |-> b, prov |-> prov,
                   state |-> q.state, code |-> q.code,
                   to |-> IF outcome = "exchange" THEN SafeReturnPath(cookie.next) ELSE "here",
                   token |-> 0, spent |-> q.state \in burnt[b]])
  /\ UNCHANGED <<prov, stateJar, sessJar, idpVars, storeVars, histVars>>

\* Exchange succeeds: metadata, code, PKCE verifier, token and nonce are good.
ExchangeSucceeds(x) ==
  /\ call[x].pc = "exchange"
  /\ <<call[x].state, call[x].code>> \notin used
  /\ used' = used \cup {<<call[x].state, call[x].code>>}
  /\ Becomes(x, [call[x] EXCEPT !.pc = "issue", !.code = 0])
  /\ UNCHANGED <<prov, stateJar, sessJar, starter, storeVars, histVars>>

\* Exchange fails: the metadata or the token endpoint is out of reach, the
\* client or the code is rejected (a used code always), or the token is not
\* what was asked for. The code may be spent all the same.
ExchangeFails(x, spends) ==
  /\ call[x].pc = "exchange"
  /\ used' = IF spends THEN used \cup {<<call[x].state, call[x].code>>} ELSE used
  /\ Becomes(x, [call[x] EXCEPT !.pc = "not_exchanged", !.code = 0, !.to = "here"])
  /\ UNCHANGED <<prov, stateJar, sessJar, starter, storeVars, histVars>>

\* issueSession: the row is written first; the cookie only if that succeeds.
IssueSession(x, ok) ==
  /\ call[x].pc = "issue" /\ minted < MaxSessions
  /\ minted' = IF ok THEN minted + 1 ELSE minted
  /\ rows' = IF ok THEN rows \cup {minted'} ELSE rows
  /\ Becomes(x, IF ok THEN [call[x] EXCEPT !.pc = "signed_in", !.token = minted']
                ELSE [call[x] EXCEPT !.pc = "server", !.to = "here"])
  /\ UNCHANGED <<prov, stateJar, sessJar, idpVars, histVars>>

\* The response: the session cookie if there is one, and both handshake
\* cookies cleared whatever the outcome.
CallbackResponds(x) ==
  /\ call[x].pc \in Reasons \cup {"signed_in"}
  /\ LET c == call[x]  b == call[x].browser IN
       /\ sessJar' = IF c.token = 0 THEN sessJar
                     ELSE [sessJar EXCEPT ![b][CookieName(c.prov)] = c.token]
       /\ burnt' = [burnt EXCEPT ![b] = @ \cup HandshakesOf(b)]
       /\ stateJar' = [stateJar EXCEPT ![b] = Cleared(@, NoState, c.prov)]
  /\ Becomes(x, Idle)
  /\ UNCHANGED <<prov, idpVars, storeVars, ended>>
-----------------------------------------------------------------------------
(* Logout                                                                  *)

\* logoutHandler: the tokens under both names are deleted from the store,
\* whether or not a login is configured; a DELETE that fails is logged.
LogoutDeletes(x, b, deleted) ==
  /\ call[x].pc = "idle"
  /\ deleted \subseteq TokensOf(b)
  /\ rows' = rows \ deleted
  /\ Becomes(x, [Idle EXCEPT !.pc = "logout", !.browser = b, !.prov = prov])
  /\ UNCHANGED <<prov, stateJar, sessJar, idpVars, minted, histVars>>

\* The response clears both session cookies, with or without the provider's
\* end-session URL in it.
LogoutResponds(x) ==
  /\ call[x].pc = "logout"
  /\ LET b == call[x].browser IN
       /\ ended' = [ended EXCEPT ![b] = @ \cup TokensOf(b)]
       /\ sessJar' = [sessJar EXCEPT ![b] = Cleared(@, 0, prov)]
  /\ Becomes(x, Idle)
  /\ UNCHANGED <<prov, stateJar, idpVars, storeVars, burnt>>
-----------------------------------------------------------------------------
(* The environment                                                         *)

\* A response is lost on its way to the browser.
ResponseLost(x) ==
  /\ call[x].pc \in Reasons \cup {"signed_in", "logout"}
  /\ Becomes(x, Idle)
  /\ UNCHANGED <<prov, stateJar, sessJar, idpVars, storeVars, histVars>>

\* The handshake cookie runs out (handshakeTTL) or is damaged, or its
\* return path is changed on the browser: a cookie is client state.
CookieChanges(b, n) ==
  /\ stateJar[b][n] # NoState
  /\ \E v \in {NoState, [stateJar[b][n] EXCEPT !.next = "elsewhere"]} :
       stateJar' = [stateJar EXCEPT ![b][n] = v]
  /\ UNCHANGED <<prov, sessJar, idpVars, storeVars, histVars, call>>

\* The application's Provider function answers differently: login switched
\* off or on, or the BaseURL's scheme changed.
Configure(p) ==
  /\ prov # p
  /\ prov' = p
  /\ UNCHANGED <<stateJar, sessJar, idpVars, storeVars, histVars, call>>
-----------------------------------------------------------------------------
Handles(x) ==
  \/ ExchangeSucceeds(x) \/ CallbackResponds(x) \/ LogoutResponds(x) \/ ResponseLost(x)
  \/ \E ok \in BOOLEAN : ExchangeFails(x, ok) \/ IssueSession(x, ok)

Next ==
  \/ \E b \in Browsers, raw \in Raw : Login(b, raw)
  \/ \E x \in Calls, b \in Browsers :
       \/ \E q \in Answer : CallbackBegins(x, b, q)
       \/ \E deleted \in SUBSET Tokens : LogoutDeletes(x, b, deleted)
  \/ \E x \in Calls : Handles(x)
  \/ \E b \in Browsers, n \in Names : CookieChanges(b, n)
  \/ \E p \in {Off} \cup Schemes : Configure(p)

Spec == Init /\ [][Next]_vars
-----------------------------------------------------------------------------
(* Properties                                                              *)

\* Every variable has its type: jars, answers, rows, and the requests under
\* way between their steps.
TypeOK ==
  /\ prov \in {Off} \cup Schemes
  /\ \A b \in Browsers, n \in Names :
       /\ sessJar[b][n] \in 0..MaxSessions
       /\ stateJar[b][n] \in [attempt : 0..Len(starter), next : Raw]
  /\ starter \in Seq(Browsers) /\ Len(starter) <= MaxAttempts
  /\ used \subseteq Attempts \X (1..MaxCodes)
  /\ minted \in 0..MaxSessions /\ rows \subseteq 1..minted
  /\ \A x \in Calls :
       call[x].pc \in Reasons \cup {"idle", "exchange", "issue", "signed_in", "logout"}

\* Only the browser that started a login can finish it, and "we never reflect
\* an error for a handshake we did not start": whatever callback URL a
\* browser opens, it is read past the state check only where it was begun.
OwnHandshake ==
  \A x \in Calls :
    call[x].pc \in (Reasons \ {"expired"}) \cup {"exchange", "issue", "signed_in"} =>
      starter[call[x].state] = call[x].browser

\* The handshake cookie "is single-use, and a lingering one is a replayable
\* state value": once the response of any callback has reached a browser, no
\* callback it begins later gets past the state check with a handshake the
\* browser held then, although the scheme and the cookie's name changed in
\* between and changed back.
SingleUse ==
  \A x \in Calls :
    call[x].pc \in (Reasons \ {"expired"}) \cup {"exchange", "issue", "signed_in"} =>
      ~call[x].spent

\* "You always end up signed out here": a token a browser held when the
\* response of its logout arrived is never again in its jar, whichever name
\* it was set under and whatever the configuration was then, and while
\* callbacks of the same browser are under way.
LogoutSignsOut ==
  \A b \in Browsers : TokensOf(b) \cap ended[b] = {}
=============================================================================
