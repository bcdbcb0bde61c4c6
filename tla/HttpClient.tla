----------------------------- MODULE HttpClient -----------------------------
(***************************************************************************)
(* httpc.BaseClient with a caching token source behind the retrying        *)
(* transport (httpc/client.go, httpc/bytes.go, httpc/transport.go): calls  *)
(* that share one token, the login that runs under the token source's      *)
(* mutex, the retries of a transient failure, and the single retry after a *)
(* 401. The upstream may lose a request or its answer, and stop accepting  *)
(* any token at any time.                                                  *)
(***************************************************************************)
EXTENDS Transport, FiniteSets

CONSTANTS
  Calls,       \* goroutines that use the client
  Writes,      \* those that send a method that is not idempotent
  NoCall,      \* no goroutine: the mutex is free
  Answers,     \* bound: the statuses the upstream and the token endpoint use
  MaxTokens    \* bound: logins that succeed

ASSUME HttpClientAssumption ==
  /\ IsFiniteSet(Calls) /\ Writes \subseteq Calls /\ NoCall \notin Calls
  /\ Answers \subseteq Statuses /\ MaxTokens \in Nat

NoToken == 0

VARIABLES
  token,     \* cachingTokenSource.token
  expired,   \* expiresAt has passed
  mu,        \* holder of cachingTokenSource.mu, kept across login
  rq,        \* each call: its place and its local variables
  issued,    \* logins that succeeded; the n-th returned token n
  accepted,  \* the tokens the upstream accepts
  spent      \* history: tokens that expired in the cache or were rejected

vars == <<token, expired, mu, rq, issued, accepted, spent>>

\* pc: idle, asking for a token, in login, sending, with an outcome, in the
\* backoff before a retry, or done. used is the token of the attempt, stale the
\* one DoJSON says was rejected, again whether this is the second attempt, n
\* and delay belong to the retries, wait to the backoff. Histories: asked is
\* the time the server asked for, refused the tokens this call was told 401 for
\* (NoToken for the login itself), and applied how often the upstream has
\* carried out the request, if it is a write.
Idle == [pc |-> "idle", used |-> NoToken, stale |-> NoToken, again |-> FALSE,
         n |-> 0, delay |-> 0, wait |-> 0, out |-> "none", asked |-> 0,
         refused |-> {}, applied |-> 0]

\* What a round trip or a login may come to.
Results == Outcomes \ (Statuses \ Answers)

\* The call is over with this outcome.
Finished(c, o) ==
  [rq EXCEPT ![c] = [Idle EXCEPT !.pc = "done", !.out = o, !.refused = rq[c].refused,
                                 !.applied = rq[c].applied]]

Init ==
  /\ token = NoToken /\ expired = FALSE /\ mu = NoCall
  /\ rq = [c \in Calls |-> Idle]
  /\ issued = 0 /\ accepted = {} /\ spent = {}
-----------------------------------------------------------------------------
(* Plausible mistakes in this code, for checking that the properties see them *)

ReusableMut_NoStampedeGuard(stale) == stale = NoToken /\ token # NoToken /\ ~expired

ReusableMut_IgnoresStale(stale) == token # NoToken /\ ~expired

RetryableMut_AnyMethod(c) == rq[c].n < MaxRetries /\ Transient(rq[c].out)

ResendsMut_NotCounted(c) ==
  /\ rq[c].pc = "backoff"
  /\ rq' = [rq EXCEPT ![c].pc = "send", ![c].wait = 0, ![c].asked = 0]
  /\ UNCHANGED <<token, expired, mu, issued, accepted, spent>>

SecondChanceMut_OnlyIfCached(c) ==
  rq[c].out = "unauthorized" /\ ~rq[c].again /\ rq[c].used = token
-----------------------------------------------------------------------------
(* DoJSON and the token source *)

\* A call of DoJSON, of Bytes or of DoWithTokenRetry.
Begins(c) ==
  /\ rq[c].pc = "idle"
  /\ rq' = [rq EXCEPT ![c] = [Idle EXCEPT !.pc = "token"]]
  /\ UNCHANGED <<token, expired, mu, issued, accepted, spent>>

\* Token hands out the cached token when it is not forced and the token is
\* there and not expired, or when it is forced and the cached token is not the
\* rejected one.
Reusable(stale) ==
  /\ token # NoToken
  /\ IF stale = NoToken THEN ~expired ELSE token # stale

\* The attempt goes out with the token, into a fresh RoundTrip.
WithToken(c, t) ==
  [rq EXCEPT ![c].pc = "send", ![c].used = t, ![c].n = 0, ![c].delay = BaseDelay]

TokenReuses(c) ==
  /\ rq[c].pc = "token" /\ mu = NoCall /\ Reusable(rq[c].stale)
  /\ rq' = WithToken(c, token)
  /\ UNCHANGED <<token, expired, mu, issued, accepted, spent>>

\* The mutex stays held while login runs.
TokenLogsIn(c) ==
  /\ rq[c].pc = "token" /\ mu = NoCall /\ ~Reusable(rq[c].stale)
  /\ mu' = c /\ rq' = [rq EXCEPT ![c].pc = "login"]
  /\ UNCHANGED <<token, expired, issued, accepted, spent>>

LoginSucceeds(c) ==
  /\ rq[c].pc = "login" /\ issued < MaxTokens
  /\ issued' = issued + 1 /\ accepted' = accepted \cup {issued'}
  /\ token' = issued' /\ expired' = FALSE /\ mu' = NoCall
  /\ rq' = WithToken(c, issued')
  /\ UNCHANGED spent

\* The error of login is the outcome of Bytes and DoWithTokenRetry, and of the
\* attempt of DoJSON, which then names no token as used; the cached token stays.
LoginFails(c) ==
  /\ rq[c].pc = "login"
  /\ mu' = NoCall
  /\ \/ rq' = [rq EXCEPT ![c].pc = "outcome", ![c].used = NoToken,
                         ![c].out = "unauthorized", ![c].refused = @ \cup {NoToken}]
     \/ \E o \in Results \ {"ok"} :
          rq' = [Finished(c, o) EXCEPT
                  ![c].refused = IF o = "unauthorized" THEN @ \cup {NoToken} ELSE @]
  /\ UNCHANGED <<token, expired, issued, accepted, spent>>

\* expiresAt passes, if login gave a lifetime.
Expires ==
  /\ token # NoToken /\ ~expired
  /\ expired' = TRUE /\ spent' = spent \cup {token}
  /\ UNCHANGED <<token, mu, rq, issued, accepted>>

\* DoJSON attempts once more after a 401, be it the upstream's or, wrapped in
\* the error of login, the token endpoint's.
SecondChance(c) == rq[c].out = "unauthorized" /\ ~rq[c].again

AsksAgain(c) ==
  /\ rq[c].pc = "outcome" /\ SecondChance(c)
  /\ rq' = [rq EXCEPT ![c].pc = "token", ![c].stale = rq[c].used, ![c].again = TRUE,
                      ![c].out = "none", ![c].used = NoToken, ![c].n = 0, ![c].delay = 0]
  /\ UNCHANGED <<token, expired, mu, issued, accepted, spent>>
-----------------------------------------------------------------------------
(* The retrying transport and the upstream *)

\* One base RoundTrip. The upstream answers 401 to a token it does not accept
\* and otherwise may have carried the request out whatever the client sees,
\* short of a 4xx.
RoundTrips(c) ==
  /\ rq[c].pc = "send"
  /\ \E o \in Results, done \in 0..1 :
       /\ rq[c].used \notin accepted => o \in {"unauthorized", "lost", "cancelled"} /\ done = 0
       /\ rq[c].used \in accepted => o # "unauthorized"
       /\ o = "ok" /\ c \in Writes => done = 1
       /\ o \notin {"ok", "down", "lost", "cancelled"} \/ c \notin Writes => done = 0
       /\ rq' = [rq EXCEPT ![c].pc = "outcome", ![c].out = o, ![c].applied = @ + done,
                           ![c].refused = IF o = "unauthorized" THEN @ \cup {rq[c].used} ELSE @]
       /\ spent' = IF o = "unauthorized" THEN spent \cup {rq[c].used} ELSE spent
  /\ UNCHANGED <<token, expired, mu, issued, accepted>>

\* RoundTrip goes round again for an idempotent method with retries left, on a
\* transient outcome.
Retryable(c) ==
  /\ c \notin Writes /\ rq[c].n < MaxRetries
  /\ Transient(rq[c].out)

\* Only a response has a header.
HeadersOf(out) == IF out = "lost" THEN {NoHeader} ELSE Headers

BacksOff(c) ==
  /\ rq[c].pc = "outcome" /\ Retryable(c)
  /\ \E h \in HeadersOf(rq[c].out) : \E w \in BackoffFor(h, rq[c].delay) :
       rq' = [rq EXCEPT ![c].pc = "backoff", ![c].wait = w, ![c].asked = Asked(h),
                           ![c].out = "none"]
  /\ UNCHANGED <<token, expired, mu, issued, accepted, spent>>

\* A Retry-After beyond MaxDelay: the response goes to the caller as it is.
StopsRetrying(c) ==
  /\ rq[c].pc = "outcome" /\ Retryable(c)
  /\ \E h \in HeadersOf(rq[c].out) : BackoffFor(h, rq[c].delay) = {}
  /\ rq' = Finished(c, rq[c].out)
  /\ UNCHANGED <<token, expired, mu, issued, accepted, spent>>

\* The timer fires, and the delay doubles for the time after. (GetBody gives a
\* fresh reader of a body that is in memory, which does not fail.)
Resends(c) ==
  /\ rq[c].pc = "backoff"
  /\ rq' = [rq EXCEPT ![c].pc = "send", ![c].n = @ + 1, ![c].wait = 0, ![c].asked = 0,
                      ![c].delay = Doubled(@)]
  /\ UNCHANGED <<token, expired, mu, issued, accepted, spent>>

\* The request's context ends first.
BackoffCut(c) ==
  /\ rq[c].pc = "backoff"
  /\ rq' = Finished(c, "cancelled")
  /\ UNCHANGED <<token, expired, mu, issued, accepted, spent>>

\* The outcome is final. A 2xx may still fail to decode.
Returns(c) ==
  /\ rq[c].pc = "outcome" /\ ~Retryable(c) /\ ~SecondChance(c)
  /\ \E o \in {rq[c].out} \cup IF rq[c].out = "ok" THEN {"undecodable"} ELSE {} :
       rq' = Finished(c, o)
  /\ UNCHANGED <<token, expired, mu, issued, accepted, spent>>

\* The caller has its answer, or the Fault it decides by.
Takes(c) ==
  /\ rq[c].pc = "done"
  /\ rq' = [rq EXCEPT ![c] = Idle]
  /\ UNCHANGED <<token, expired, mu, issued, accepted, spent>>

\* The upstream stops accepting a token.
Revokes ==
  /\ \E t \in accepted : accepted' = accepted \ {t}
  /\ UNCHANGED <<token, expired, mu, rq, issued, spent>>

CallSteps(c) ==
  \/ TokenReuses(c) \/ TokenLogsIn(c) \/ LoginSucceeds(c) \/ LoginFails(c)
  \/ AsksAgain(c) \/ RoundTrips(c) \/ BacksOff(c) \/ StopsRetrying(c)
  \/ Resends(c) \/ BackoffCut(c) \/ Returns(c) \/ Takes(c)

Next == Expires \/ Revokes \/ \E c \in Calls : Begins(c) \/ CallSteps(c)

Spec == Init /\ [][Next]_vars

\* The client runs its own steps, the request's timeout ends every round trip
\* and every login, and sync.Mutex does not starve a waiter.
FairSpec ==
  Spec /\ \A c \in Calls :
            WF_vars(CallSteps(c)) /\ SF_vars(TokenReuses(c) \/ TokenLogsIn(c))
-----------------------------------------------------------------------------
(* Properties *)

\* Every value has its type, and the mutex is held exactly by the call in login.
TypeOK ==
  /\ token \in 0..MaxTokens /\ expired \in BOOLEAN /\ mu \in Calls \cup {NoCall}
  /\ issued \in 0..MaxTokens /\ accepted \subseteq 1..issued /\ spent \subseteq 1..issued
  /\ rq \in [Calls ->
       [pc : {"idle", "token", "login", "send", "outcome", "backoff", "done"},
        used : 0..issued, stale : 0..issued, again : BOOLEAN, n : 0..MaxRetries,
        delay : 0..MaxDelay, wait : Int, out : Outcomes \cup {"none", "undecodable"},
        asked : Int, refused : SUBSET (0..issued), applied : Nat]]
  /\ \A c \in Calls : (rq[c].pc = "login") = (mu = c)

\* "writes ... are issued exactly once and can never be double-applied by a
\* retry" (RetryTransport), over lost answers, 5xx answers after the upstream
\* has acted, and the second attempt DoJSON makes after a 401.
AppliedOnce == \A c \in Writes : rq[c].applied <= 1

\* "a burst of simultaneous 401 retries ... collapses into a single re-login"
\* (TokenSource): while a login runs, the token it is to replace has expired in
\* the cache or has been rejected, however the calls that share it interleave.
LoginsJustified == mu # NoCall /\ token # NoToken => token \in spent

\* "A Retry-After longer than maxDelay ends the retries instead of being slept
\* out" (backoffFor), and a shorter one "is honored in place of the computed
\* backoff" (RetryTransport): no retry goes out before the time the server
\* asked for is over, and none sleeps for longer than MaxDelay.
RetryAfterHonoured ==
  \A c \in Calls : rq[c].pc = "backoff" =>
    rq[c].wait >= rq[c].asked /\ (MaxDelay > 0 => rq[c].wait <= MaxDelay)

\* A caller told FaultAuth ("The admin has to act") was forbidden, or had its
\* login refused, or was refused with two different tokens in this call: a token
\* that others have refreshed, that expired or that was revoked under way never
\* shows as a wrong credential by itself.
AuthFaultConfirmed ==
  \A c \in Calls : rq[c].pc = "done" /\ Classify(rq[c].out) = "auth" =>
    \/ rq[c].out = "forbidden"
    \/ NoToken \in rq[c].refused
    \/ Cardinality(rq[c].refused) = 2

\* Every call returns: neither the retry loop, the 401 retry nor the mutex held
\* across a login keeps it for ever.
CallEnds == \A c \in Calls : (rq[c].pc # "idle") ~> (rq[c].pc = "idle")
=============================================================================
