-------------------------- MODULE HttpClientProofs --------------------------
(***************************************************************************)
(* Proofs about httpc's client (HttpClient over Transport): any number of  *)
(* calls that share one token, any retry configuration in which BaseDelay  *)
(* is at most MaxDelay, any upstream.                                      *)
(***************************************************************************)
EXTENDS HttpClient, FiniteSetTheorems, TLAPS

Fields == {"pc", "used", "stale", "again", "n", "delay", "wait", "out", "asked",
           "refused", "applied"}

Shape == DOMAIN rq = Calls /\ \A c \in Calls : DOMAIN rq[c] = Fields

\* The token a login under way is to replace, and one that expired, is spent.
TokenInv ==
  /\ token \in Nat /\ issued \in Nat /\ token <= issued
  /\ expired /\ token # NoToken => token \in spent
  /\ LoginsJustified

\* Tokens have been issued; the delay stays below its cap; what a call says was
\* rejected is spent.
TokensOf(c) ==
  /\ rq[c].used \in Nat /\ rq[c].used <= issued
  /\ rq[c].stale \in Nat /\ rq[c].stale <= issued
  /\ rq[c].stale # NoToken => rq[c].stale \in spent
  /\ rq[c].pc = "outcome" /\ rq[c].out = "unauthorized" /\ rq[c].used # NoToken =>
       rq[c].used \in spent

DelayOf(c) == rq[c].delay \in Nat /\ (MaxDelay > 0 => rq[c].delay <= MaxDelay)

\* A write never waits for a retry, and once it is carried out it is not sent
\* again: its outcome is final, not a 401.
WriteOf(c) ==
  c \in Writes =>
    /\ rq[c].pc # "backoff"
    /\ \/ rq[c].applied = 0
       \/ /\ rq[c].applied = 1
          /\ rq[c].pc = "done" \/ (rq[c].pc = "outcome" /\ rq[c].out # "unauthorized")

\* What a call was refused with: nothing in its first attempt, the stale token
\* in its second, and besides it the token that was refused just now, which is
\* another one unless the stale one is a refused login.
RefusedOf(c) ==
  /\ \/ rq[c].pc \in {"token", "login", "send", "backoff"}
     \/ rq[c].pc = "outcome" /\ rq[c].out # "unauthorized"
     => IF rq[c].again THEN rq[c].refused = {rq[c].stale}
                       ELSE rq[c].refused = {} /\ rq[c].stale = NoToken
  /\ rq[c].pc = "outcome" /\ rq[c].out = "unauthorized" =>
       IF rq[c].again THEN rq[c].refused = {rq[c].stale, rq[c].used}
                      ELSE rq[c].refused = {rq[c].used}
  /\ /\ rq[c].pc \in {"send", "backoff", "outcome"}
     /\ rq[c].again /\ rq[c].stale # NoToken
     => rq[c].used # rq[c].stale
  /\ rq[c].pc = "done" /\ Classify(rq[c].out) = "auth" =>
       \/ rq[c].out = "forbidden"
       \/ NoToken \in rq[c].refused
       \/ Cardinality(rq[c].refused) = 2

CallInv(c) == TokensOf(c) /\ DelayOf(c) /\ WriteOf(c) /\ RefusedOf(c)

HttpInv == Shape /\ TokenInv /\ \A c \in Calls : CallInv(c)
-----------------------------------------------------------------------------
LEMMA IdleFacts ==
  /\ DOMAIN Idle = Fields
  /\ Idle.pc = "idle" /\ Idle.used = 0 /\ Idle.stale = 0 /\ ~Idle.again /\ Idle.out = "none"
  /\ Idle.delay = 0 /\ Idle.refused = {} /\ Idle.applied = 0
BY DEF Idle, Fields, NoToken

LEMMA ClassifyFacts ==
  /\ Classify("none") # "auth" /\ Classify("cancelled") # "auth" /\ Classify("undecodable") # "auth"
  /\ Classify("ok") # "auth"
  /\ \A o : Transient(o) => Classify(o) # "auth" /\ o # "unauthorized"
  /\ \A o : Classify(o) = "auth" => o \in {"unauthorized", "forbidden"}
<1>1. \A o : Classify(o) = "auth" => o \in {"unauthorized", "forbidden"}
  BY DEF Classify
<1> QED BY <1>1 DEF Transient

LEMMA HttpStarts == Init => HttpInv
<1> SUFFICES ASSUME Init PROVE HttpInv
  OBVIOUS
<1>1. Shape
  BY IdleFacts DEF Init, Shape
<1>2. TokenInv
  BY DEF Init, TokenInv, NoToken, LoginsJustified
<1>3. ASSUME NEW c \in Calls PROVE CallInv(c)
  <2>1. rq[c] = Idle /\ issued = 0
    BY DEF Init
  <2>2. TokensOf(c) /\ DelayOf(c) /\ WriteOf(c)
    BY <2>1, IdleFacts, TransportAssumption DEF TokensOf, DelayOf, WriteOf, NoToken
  <2>3. RefusedOf(c)
    BY <2>1, IdleFacts DEF RefusedOf
  <2> QED BY <2>2, <2>3 DEF CallInv
<1> QED BY <1>1, <1>2, <1>3 DEF HttpInv

\* A step of one call leaves the others where they were.
LEMMA OneCallMoves ==
  ASSUME HttpInv, NEW c \in Calls, Shape', TokenInv', CallInv(c)',
         \A d \in Calls \ {c} : rq'[d] = rq[d], issued <= issued', spent \subseteq spent'
  PROVE  HttpInv'
<1>1. ASSUME NEW d \in Calls \ {c} PROVE CallInv(d)'
  <2>1. CallInv(d) /\ rq'[d] = rq[d] /\ issued \in Nat /\ issued' \in Nat
    BY DEF HttpInv, TokenInv
  <2>2. TokensOf(d)'
    BY <2>1 DEF CallInv, TokensOf
  <2> QED BY <2>1, <2>2 DEF CallInv, DelayOf, WriteOf, RefusedOf
<1> QED BY <1>1 DEF HttpInv

LEMMA BeginsOrTakes ==
  ASSUME HttpInv, NEW c \in Calls, Begins(c) \/ Takes(c)
  PROVE  HttpInv'
<1>1. /\ UNCHANGED <<token, expired, mu, issued, accepted, spent>>
      /\ \A d \in Calls \ {c} : rq'[d] = rq[d]
  BY DEF Begins, Takes, HttpInv, Shape
<1>2. rq'[c] = Idle \/ rq'[c] = [Idle EXCEPT !.pc = "token"]
  BY DEF Begins, Takes, HttpInv, Shape
<1>3. Shape'
  BY IdleFacts DEF Begins, Takes, HttpInv, Shape
<1>4. TokenInv'
  BY <1>1 DEF HttpInv, TokenInv, LoginsJustified
<1>5. /\ rq'[c].pc \in {"idle", "token"} /\ rq'[c].used = 0 /\ rq'[c].stale = 0 /\ ~rq'[c].again
      /\ rq'[c].out = "none" /\ rq'[c].delay = 0 /\ rq'[c].refused = {} /\ rq'[c].applied = 0
  BY <1>2, IdleFacts DEF Fields
<1>6. TokensOf(c)' /\ DelayOf(c)' /\ WriteOf(c)'
  BY <1>1, <1>5, TransportAssumption DEF TokensOf, DelayOf, WriteOf, NoToken, HttpInv, TokenInv
<1>7. RefusedOf(c)'
  BY <1>5 DEF RefusedOf, NoToken
<1>8. issued <= issued'
  BY <1>1 DEF HttpInv, TokenInv
<1> QED BY <1>1, <1>3, <1>4, <1>6, <1>7, <1>8, OneCallMoves DEF CallInv

\* The end of a call: its histories stay, and no outcome but a refusal speaks
\* of the credential.
LEMMA FinishKeeps ==
  ASSUME HttpInv, NEW c \in Calls, NEW o, NEW t,
         Shape', \A d \in Calls \ {c} : rq'[d] = rq[d],
         /\ rq'[c].pc = "done" /\ rq'[c].used = 0 /\ rq'[c].stale = 0 /\ rq'[c].delay = 0
         /\ rq'[c].out = o /\ rq'[c].refused = t /\ rq'[c].applied = rq[c].applied,
         UNCHANGED <<token, expired, issued, spent>>, mu' = mu \/ mu' = NoCall,
         Classify(o) = "auth" => o = "forbidden" \/ NoToken \in t \/ Cardinality(t) = 2
  PROVE  HttpInv'
<1>1. TokenInv' /\ issued <= issued' /\ issued' \in Nat
  BY DEF HttpInv, TokenInv, LoginsJustified
<1>2. TokensOf(c)' /\ DelayOf(c)'
  BY <1>1, TransportAssumption DEF TokensOf, DelayOf, NoToken
<1>3. WriteOf(c)'
  BY DEF WriteOf, HttpInv, CallInv
<1>4. RefusedOf(c)'
  BY DEF RefusedOf
<1> QED BY <1>1, <1>2, <1>3, <1>4, OneCallMoves DEF CallInv

LEMMA FinishedFacts ==
  ASSUME Shape, NEW c \in Calls, NEW o, rq' = Finished(c, o)
  PROVE  /\ Shape' /\ \A d \in Calls \ {c} : rq'[d] = rq[d]
         /\ rq'[c].pc = "done" /\ rq'[c].used = 0 /\ rq'[c].stale = 0 /\ rq'[c].delay = 0
         /\ rq'[c].out = o /\ rq'[c].refused = rq[c].refused /\ rq'[c].applied = rq[c].applied
<1>1. rq'[c] = [Idle EXCEPT !.pc = "done", !.out = o, !.refused = rq[c].refused,
                            !.applied = rq[c].applied]
  BY DEF Finished, Shape
<1>2. DOMAIN rq' = Calls /\ \A d \in Calls \ {c} : rq'[d] = rq[d]
  BY DEF Finished, Shape
<1>3. DOMAIN rq'[c] = Fields
  BY <1>1, IdleFacts
<1>4. Shape'
  BY <1>2, <1>3 DEF Shape
<1>5. /\ rq'[c].pc = "done" /\ rq'[c].used = 0 /\ rq'[c].stale = 0 /\ rq'[c].delay = 0
      /\ rq'[c].out = o /\ rq'[c].refused = rq[c].refused /\ rq'[c].applied = rq[c].applied
  BY <1>1, IdleFacts DEF Fields
<1> QED BY <1>2, <1>4, <1>5

LEMMA CutOrStopped ==
  ASSUME HttpInv, NEW c \in Calls, StopsRetrying(c) \/ BackoffCut(c) \/ Returns(c)
  PROVE  HttpInv'
<1>1. UNCHANGED <<token, expired, mu, issued, accepted, spent>>
  BY DEF StopsRetrying, BackoffCut, Returns
<1>2. PICK o : /\ rq' = Finished(c, o)
               /\ Classify(o) = "auth" =>
                    \/ o = "forbidden"
                    \/ /\ o = "unauthorized" /\ rq[c].out = o /\ rq[c].pc = "outcome" /\ rq[c].again
  <2>1. CASE StopsRetrying(c)
    <3>1. rq' = Finished(c, rq[c].out) /\ Transient(rq[c].out)
      BY <2>1 DEF StopsRetrying, Retryable
    <3> QED BY <3>1, ClassifyFacts
  <2>2. CASE BackoffCut(c)
    BY <2>2, ClassifyFacts DEF BackoffCut
  <2>3. CASE Returns(c)
    <3>1. PICK p \in {rq[c].out} \cup IF rq[c].out = "ok" THEN {"undecodable"} ELSE {} :
            rq' = Finished(c, p)
      BY <2>3 DEF Returns
    <3>2. rq[c].pc = "outcome" /\ (rq[c].out = "unauthorized" => rq[c].again)
      BY <2>3 DEF Returns, SecondChance
    <3>3. p = rq[c].out \/ p = "undecodable"
      OBVIOUS
    <3> QED BY <3>1, <3>2, <3>3, ClassifyFacts
  <2> QED BY <2>1, <2>2, <2>3
<1>3. Classify(o) = "auth" =>
        o = "forbidden" \/ NoToken \in rq[c].refused \/ Cardinality(rq[c].refused) = 2
  <2> SUFFICES ASSUME rq[c].out = "unauthorized", rq[c].pc = "outcome", rq[c].again,
                      NoToken \notin rq[c].refused
               PROVE  Cardinality(rq[c].refused) = 2
    BY <1>2
  <2>1. /\ rq[c].refused = {rq[c].stale, rq[c].used}
        /\ rq[c].stale # NoToken => rq[c].used # rq[c].stale
    BY DEF HttpInv, CallInv, RefusedOf
  <2>2. rq[c].used # rq[c].stale
    BY <2>1
  <2>3. Cardinality({rq[c].stale}) = 1 /\ IsFiniteSet({rq[c].stale})
    BY FS_Singleton
  <2>4. Cardinality({rq[c].stale} \cup {rq[c].used}) = 1 + 1
    BY <2>2, <2>3, FS_AddElement
  <2>5. rq[c].refused = {rq[c].stale} \cup {rq[c].used}
    BY <2>1
  <2> QED BY <2>4, <2>5
<1>4. Shape
  BY DEF HttpInv
<1> QED BY <1>1, <1>2, <1>3, <1>4, FinishedFacts, FinishKeeps

\* The token source hands out a token: the call sends with one that is not the
\* one it was refused with.
LEMMA TokenKeeps ==
  ASSUME HttpInv, NEW c \in Calls, TokenReuses(c) \/ LoginSucceeds(c)
  PROVE  HttpInv'
<1>0. Shape /\ TokenInv /\ CallInv(c) /\ rq[c].pc \in {"token", "login"}
  BY DEF HttpInv, TokenReuses, LoginSucceeds
<1>1. PICK t \in Nat : /\ rq' = WithToken(c, t)
                       /\ t <= issued' /\ (rq[c].stale # NoToken => t # rq[c].stale)
                       /\ issued' \in Nat /\ issued <= issued' /\ spent' = spent
                       /\ TokenInv'
  <2>1. CASE TokenReuses(c)
    BY <1>0, <2>1 DEF TokenReuses, Reusable, TokenInv, LoginsJustified
  <2>2. CASE LoginSucceeds(c)
    <3>1. /\ issued' = issued + 1 /\ token' = issued' /\ expired' = FALSE /\ mu' = NoCall
          /\ rq' = WithToken(c, issued') /\ spent' = spent
      BY <2>2 DEF LoginSucceeds
    <3>2. issued' \in Nat /\ issued <= issued' /\ TokenInv'
      BY <1>0, <3>1 DEF TokenInv, LoginsJustified
    <3>3. rq[c].stale # issued'
      BY <1>0, <3>1 DEF CallInv, TokensOf, TokenInv
    <3> QED BY <3>1, <3>2, <3>3
  <2> QED BY <2>1, <2>2
<1>2. Shape' /\ \A d \in Calls \ {c} : rq'[d] = rq[d]
  BY <1>0, <1>1 DEF WithToken, Shape
<1>3. /\ rq'[c].pc = "send" /\ rq'[c].used = t /\ rq'[c].delay = BaseDelay
      /\ rq'[c].stale = rq[c].stale /\ rq'[c].refused = rq[c].refused
      /\ rq'[c].applied = rq[c].applied
  BY <1>0, <1>1 DEF WithToken, Shape, Fields
<1>4. rq'[c].again = rq[c].again
  BY <1>0, <1>1 DEF WithToken, Shape, Fields
<1>5. TokensOf(c)'
  BY <1>0, <1>1, <1>3 DEF TokensOf, CallInv, TokenInv
<1>6. DelayOf(c)'
  BY <1>3, TransportAssumption DEF DelayOf
<1>7. WriteOf(c)'
  BY <1>0, <1>3 DEF WriteOf, CallInv
<1>8. RefusedOf(c)'
  BY <1>0, <1>1, <1>3, <1>4 DEF RefusedOf, CallInv
<1> QED BY <1>1, <1>2, <1>5, <1>6, <1>7, <1>8, OneCallMoves DEF CallInv

LEMMA LogsInKeeps ==
  ASSUME HttpInv, NEW c \in Calls, TokenLogsIn(c)
  PROVE  HttpInv'
<1>0. Shape /\ TokenInv /\ CallInv(c) /\ rq[c].pc = "token"
  BY DEF HttpInv, TokenLogsIn
<1>1. UNCHANGED <<token, expired, issued, spent>> /\ rq' = [rq EXCEPT ![c].pc = "login"]
  BY DEF TokenLogsIn
<1>2. Shape' /\ \A d \in Calls \ {c} : rq'[d] = rq[d]
  BY <1>0, <1>1 DEF Shape
<1>3. /\ rq'[c].pc = "login" /\ rq'[c].used = rq[c].used /\ rq'[c].delay = rq[c].delay
      /\ rq'[c].stale = rq[c].stale /\ rq'[c].refused = rq[c].refused
      /\ rq'[c].applied = rq[c].applied /\ rq'[c].again = rq[c].again
  BY <1>0, <1>1 DEF Shape, Fields
<1>4. token # NoToken => token \in spent
  <2>1. ~Reusable(rq[c].stale)
    BY DEF TokenLogsIn
  <2> QED BY <1>0, <2>1 DEF Reusable, TokenInv, CallInv, TokensOf
<1>5. TokenInv' /\ issued <= issued'
  BY <1>0, <1>1, <1>4 DEF TokenInv, LoginsJustified
<1>6. TokensOf(c)' /\ DelayOf(c)' /\ WriteOf(c)'
  BY <1>0, <1>1, <1>3 DEF CallInv, TokensOf, DelayOf, WriteOf
<1>7. RefusedOf(c)'
  BY <1>0, <1>3 DEF CallInv, RefusedOf
<1> QED BY <1>1, <1>2, <1>5, <1>6, <1>7, OneCallMoves DEF CallInv

LEMMA LoginFailsKeeps ==
  ASSUME HttpInv, NEW c \in Calls, LoginFails(c)
  PROVE  HttpInv'
<1>0. Shape /\ TokenInv /\ CallInv(c) /\ rq[c].pc = "login"
  BY DEF HttpInv, LoginFails
<1>1. UNCHANGED <<token, expired, issued, spent>> /\ mu' = NoCall
  BY DEF LoginFails
<1>2. CASE rq' = [rq EXCEPT ![c].pc = "outcome", ![c].used = NoToken,
                            ![c].out = "unauthorized", ![c].refused = @ \cup {NoToken}]
  <2>2. Shape' /\ \A d \in Calls \ {c} : rq'[d] = rq[d]
    BY <1>0, <1>2 DEF Shape
  <2>3. /\ rq'[c].pc = "outcome" /\ rq'[c].used = NoToken /\ rq'[c].delay = rq[c].delay
        /\ rq'[c].out = "unauthorized" /\ rq'[c].stale = rq[c].stale
        /\ rq'[c].refused = rq[c].refused \cup {NoToken}
        /\ rq'[c].applied = rq[c].applied /\ rq'[c].again = rq[c].again
    BY <1>0, <1>2 DEF Shape, Fields
  <2>4. TokenInv' /\ issued <= issued'
    BY <1>0, <1>1 DEF TokenInv, LoginsJustified
  <2>5. TokensOf(c)' /\ DelayOf(c)' /\ WriteOf(c)'
    BY <1>0, <1>1, <2>3 DEF CallInv, TokensOf, DelayOf, WriteOf, TokenInv, NoToken
  <2>6. RefusedOf(c)'
    BY <1>0, <2>3 DEF CallInv, RefusedOf
  <2> QED BY <1>1, <2>2, <2>4, <2>5, <2>6, OneCallMoves DEF CallInv
<1>3. ASSUME NEW o \in Results \ {"ok"},
             rq' = [Finished(c, o) EXCEPT
                     ![c].refused = IF o = "unauthorized" THEN @ \cup {NoToken} ELSE @]
      PROVE  HttpInv'
  <2> DEFINE f == Finished(c, o)
             t == IF o = "unauthorized" THEN rq[c].refused \cup {NoToken} ELSE rq[c].refused
             x == [Idle EXCEPT !.pc = "done", !.out = o, !.refused = rq[c].refused,
                               !.applied = rq[c].applied]
  <2>1. f = [rq EXCEPT ![c] = x]
    BY DEF Finished
  <2>2. /\ DOMAIN x = Fields /\ x.pc = "done" /\ x.used = 0 /\ x.stale = 0 /\ x.delay = 0
        /\ x.out = o /\ x.refused = rq[c].refused /\ x.applied = rq[c].applied
    BY IdleFacts DEF Fields
  <2> HIDE DEF x
  <2>3. DOMAIN f = Calls /\ f[c] = x /\ \A d \in Calls \ {c} : f[d] = rq[d]
    BY <1>0, <2>1 DEF Shape
  <2> HIDE DEF f
  <2>4. rq' = [f EXCEPT ![c].refused = IF o = "unauthorized" THEN @ \cup {NoToken} ELSE @]
    BY <1>3 DEF f
  <2>5. rq'[c] = [x EXCEPT !.refused = t]
    BY <2>2, <2>3, <2>4
  <2>6. DOMAIN rq' = Calls /\ \A d \in Calls \ {c} : rq'[d] = rq[d]
    BY <2>3, <2>4
  <2> HIDE DEF t
  <2>7. /\ DOMAIN rq'[c] = Fields /\ rq'[c].pc = "done" /\ rq'[c].used = 0 /\ rq'[c].stale = 0
        /\ rq'[c].delay = 0 /\ rq'[c].out = o /\ rq'[c].refused = t
        /\ rq'[c].applied = rq[c].applied
    BY <2>2, <2>5 DEF Fields
  <2>8. Shape'
    BY <1>0, <2>6, <2>7 DEF Shape
  <2>9. Classify(o) = "auth" => o = "forbidden" \/ NoToken \in t
    BY ClassifyFacts DEF t
  <2> QED BY <1>1, <2>6, <2>7, <2>8, <2>9, FinishKeeps
<1> QED BY <1>2, <1>3 DEF LoginFails

LEMMA AsksAgainKeeps ==
  ASSUME HttpInv, NEW c \in Calls, AsksAgain(c)
  PROVE  HttpInv'
<1>0. Shape /\ TokenInv /\ CallInv(c) /\ rq[c].pc = "outcome" /\ rq[c].out = "unauthorized" /\ ~rq[c].again
  BY DEF HttpInv, AsksAgain, SecondChance
<1>1. UNCHANGED <<token, expired, mu, issued, spent>>
  BY DEF AsksAgain
<1>2. Shape' /\ \A d \in Calls \ {c} : rq'[d] = rq[d]
  BY <1>0 DEF Shape, AsksAgain
<1>3. /\ rq'[c].pc = "token" /\ rq'[c].used = NoToken /\ rq'[c].delay = 0
      /\ rq'[c].stale = rq[c].used /\ rq'[c].refused = rq[c].refused
      /\ rq'[c].applied = rq[c].applied /\ rq'[c].again
  BY <1>0 DEF Shape, Fields, AsksAgain
<1>5. TokenInv' /\ issued <= issued'
  BY <1>0, <1>1 DEF TokenInv, LoginsJustified
<1>6. TokensOf(c)' /\ DelayOf(c)' /\ WriteOf(c)'
  BY <1>0, <1>1, <1>3, TransportAssumption DEF CallInv, TokensOf, DelayOf, WriteOf, NoToken, TokenInv
<1>7. RefusedOf(c)'
  BY <1>0, <1>3 DEF CallInv, RefusedOf
<1> QED BY <1>1, <1>2, <1>5, <1>6, <1>7, OneCallMoves DEF CallInv

\* One round trip. A write it carries out does not come back as a 401.
LEMMA RoundTripsKeeps ==
  ASSUME HttpInv, NEW c \in Calls, RoundTrips(c)
  PROVE  HttpInv'
<1>0. Shape /\ TokenInv /\ CallInv(c) /\ rq[c].pc = "send"
  BY DEF HttpInv, RoundTrips
<1>1. UNCHANGED <<token, expired, mu, issued>>
  BY DEF RoundTrips
<1>2. PICK o \in Results, done \in 0..1 :
        /\ o \notin {"ok", "down", "lost", "cancelled"} \/ c \notin Writes => done = 0
        /\ rq' = [rq EXCEPT ![c].pc = "outcome", ![c].out = o, ![c].applied = @ + done,
                            ![c].refused = IF o = "unauthorized" THEN @ \cup {rq[c].used} ELSE @]
        /\ spent' = IF o = "unauthorized" THEN spent \cup {rq[c].used} ELSE spent
  BY DEF RoundTrips
<1>3. Shape' /\ \A d \in Calls \ {c} : rq'[d] = rq[d]
  BY <1>0, <1>2 DEF Shape
<1>4. /\ rq'[c].pc = "outcome" /\ rq'[c].out = o /\ rq'[c].used = rq[c].used
      /\ rq'[c].delay = rq[c].delay /\ rq'[c].stale = rq[c].stale
      /\ rq'[c].refused = IF o = "unauthorized" THEN rq[c].refused \cup {rq[c].used} ELSE rq[c].refused
      /\ rq'[c].applied = rq[c].applied + done
  BY <1>0, <1>2 DEF Shape, Fields
<1>5. rq'[c].again = rq[c].again
  BY <1>0, <1>2 DEF Shape, Fields
<1>6. spent \subseteq spent'
  BY <1>2
<1>7. TokenInv' /\ issued <= issued'
  BY <1>0, <1>1, <1>6 DEF TokenInv, LoginsJustified
<1>8. TokensOf(c)'
  BY <1>0, <1>1, <1>2, <1>4, <1>6 DEF CallInv, TokensOf
<1>9. DelayOf(c)'
  BY <1>0, <1>4 DEF CallInv, DelayOf
<1>10. WriteOf(c)'
  <2>1. c \in Writes => rq[c].applied = 0
    BY <1>0 DEF CallInv, WriteOf
  <2> QED BY <1>2, <1>4, <2>1 DEF WriteOf
<1>11. RefusedOf(c)'
  <2>1. IF rq[c].again THEN rq[c].refused = {rq[c].stale}
                       ELSE rq[c].refused = {} /\ rq[c].stale = NoToken
    BY <1>0 DEF CallInv, RefusedOf
  <2>2. rq[c].again /\ rq[c].stale # NoToken => rq[c].used # rq[c].stale
    BY <1>0 DEF CallInv, RefusedOf
  <2> QED BY <1>4, <1>5, <2>1, <2>2 DEF RefusedOf
<1> QED BY <1>3, <1>6, <1>7, <1>8, <1>9, <1>10, <1>11, OneCallMoves DEF CallInv

LEMMA BacksOffKeeps ==
  ASSUME HttpInv, NEW c \in Calls, BacksOff(c)
  PROVE  HttpInv'
<1>0. /\ Shape /\ TokenInv /\ CallInv(c) /\ rq[c].pc = "outcome"
      /\ c \notin Writes /\ Transient(rq[c].out)
  BY DEF HttpInv, BacksOff, Retryable
<1>1. UNCHANGED <<token, expired, mu, issued, spent>>
  BY DEF BacksOff
<1>2. Shape' /\ \A d \in Calls \ {c} : rq'[d] = rq[d]
  BY <1>0 DEF Shape, BacksOff
<1>3. /\ rq'[c].pc = "backoff" /\ rq'[c].used = rq[c].used /\ rq'[c].delay = rq[c].delay
      /\ rq'[c].stale = rq[c].stale /\ rq'[c].refused = rq[c].refused
      /\ rq'[c].applied = rq[c].applied
  BY <1>0 DEF Shape, Fields, BacksOff
<1>4. rq'[c].again = rq[c].again
  BY <1>0 DEF Shape, Fields, BacksOff
<1>5. TokenInv' /\ issued <= issued'
  BY <1>0, <1>1 DEF TokenInv, LoginsJustified
<1>6. TokensOf(c)' /\ DelayOf(c)' /\ WriteOf(c)'
  BY <1>0, <1>1, <1>3 DEF CallInv, TokensOf, DelayOf, WriteOf
<1>7. RefusedOf(c)'
  BY <1>0, <1>3, <1>4, ClassifyFacts DEF CallInv, RefusedOf
<1> QED BY <1>1, <1>2, <1>5, <1>6, <1>7, OneCallMoves DEF CallInv

LEMMA ResendsKeeps ==
  ASSUME HttpInv, NEW c \in Calls, Resends(c)
  PROVE  HttpInv'
<1>0. Shape /\ TokenInv /\ CallInv(c) /\ rq[c].pc = "backoff"
  BY DEF HttpInv, Resends
<1>1. UNCHANGED <<token, expired, mu, issued, spent>>
  BY DEF Resends
<1>2. Shape' /\ \A d \in Calls \ {c} : rq'[d] = rq[d]
  BY <1>0 DEF Shape, Resends
<1>3. /\ rq'[c].pc = "send" /\ rq'[c].used = rq[c].used /\ rq'[c].delay = Doubled(rq[c].delay)
      /\ rq'[c].stale = rq[c].stale /\ rq'[c].refused = rq[c].refused
      /\ rq'[c].applied = rq[c].applied
  BY <1>0 DEF Shape, Fields, Resends
<1>4. rq'[c].again = rq[c].again
  BY <1>0 DEF Shape, Fields, Resends
<1>5. TokenInv' /\ issued <= issued'
  BY <1>0, <1>1 DEF TokenInv, LoginsJustified
<1>6. TokensOf(c)' /\ WriteOf(c)'
  BY <1>0, <1>1, <1>3 DEF CallInv, TokensOf, WriteOf
<1>7. DelayOf(c)'
  <2>1. rq[c].delay \in Nat /\ (MaxDelay > 0 => rq[c].delay <= MaxDelay)
    BY <1>0 DEF CallInv, DelayOf
  <2>2. Doubled(rq[c].delay) \in Nat /\ (MaxDelay > 0 => Doubled(rq[c].delay) <= MaxDelay)
    BY <2>1, TransportAssumption DEF Doubled
  <2> QED BY <1>3, <2>2 DEF DelayOf
<1>8. RefusedOf(c)'
  BY <1>0, <1>3, <1>4 DEF CallInv, RefusedOf
<1> QED BY <1>1, <1>2, <1>5, <1>6, <1>7, <1>8, OneCallMoves DEF CallInv

\* Time and the upstream.
LEMMA OutsideKeeps ==
  ASSUME HttpInv, Expires \/ Revokes \/ UNCHANGED vars
  PROVE  HttpInv'
<1>1. UNCHANGED <<token, mu, rq, issued>> /\ spent \subseteq spent'
      /\ (expired' => expired \/ token \in spent')
  BY DEF Expires, Revokes, vars
<1>2. Shape' /\ TokenInv'
  BY <1>1 DEF HttpInv, Shape, TokenInv, LoginsJustified
<1>3. ASSUME NEW c \in Calls PROVE CallInv(c)'
  BY <1>1 DEF HttpInv, CallInv, TokensOf, DelayOf, WriteOf, RefusedOf
<1> QED BY <1>2, <1>3 DEF HttpInv

\* The invariant of the client is inductive, however the calls that share the
\* token, the login, the retries and the upstream interleave.
THEOREM HttpInductive == Spec => []HttpInv
<1>1. HttpInv /\ [Next]_vars => HttpInv'
  <2> SUFFICES ASSUME HttpInv, [Next]_vars PROVE HttpInv'
    OBVIOUS
  <2>1. ASSUME NEW c \in Calls, Begins(c) \/ CallSteps(c) PROVE HttpInv'
    BY <2>1, BeginsOrTakes, CutOrStopped, TokenKeeps, LogsInKeeps, LoginFailsKeeps, AsksAgainKeeps,
       RoundTripsKeeps, BacksOffKeeps, ResendsKeeps DEF CallSteps
  <2> QED BY <2>1, OutsideKeeps DEF Next
<1> QED BY HttpStarts, <1>1, PTL DEF Spec

\* AppliedOnce: no retry, second attempt or lost answer applies a write twice.
THEOREM AppliedOnceCorrect == Spec => []AppliedOnce
<1>1. HttpInv => AppliedOnce
  BY HttpClientAssumption DEF HttpInv, CallInv, WriteOf, AppliedOnce
<1> QED BY HttpInductive, <1>1, PTL

\* LoginsJustified: a login replaces only a token that expired or was rejected,
\* so a burst of 401s collapses into one.
THEOREM LoginsJustifiedCorrect == Spec => []LoginsJustified
<1>1. HttpInv => LoginsJustified
  BY DEF HttpInv, TokenInv
<1> QED BY HttpInductive, <1>1, PTL

\* AuthFaultConfirmed: a FaultAuth speaks of the credential, never of one token
\* that others refreshed or that was revoked under way.
THEOREM AuthFaultCorrect == Spec => []AuthFaultConfirmed
<1>1. HttpInv => AuthFaultConfirmed
  BY DEF HttpInv, CallInv, RefusedOf, AuthFaultConfirmed
<1> QED BY HttpInductive, <1>1, PTL
-----------------------------------------------------------------------------
(* The backoff. What a server may ask for has to fit a time.Duration, or the *)
(* product in parseRetryAfter wraps round (the retry_after run).             *)

NoOverflow == \A s \in Demands : Int64(s * Second) = s * Second

\* What backoffFor returns is neither shorter than the header asks nor longer
\* than the cap.
LEMMA BackoffBounds ==
  ASSUME NoOverflow, NEW h \in Headers, NEW delay \in Nat, MaxDelay > 0 => delay <= MaxDelay,
         NEW w \in BackoffFor(h, delay)
  PROVE  w >= Asked(h) /\ (MaxDelay > 0 => w <= MaxDelay)
<1>1. CASE h = NoHeader
  <2>1. ParseRetryAfter(h) = {} /\ Asked(h) = 0
    BY <1>1 DEF NoHeader, ParseRetryAfter, Asked
  <2>2. w \in (delay \div 2)..(2 * (delay \div 2))
    BY <2>1 DEF BackoffFor
  <2> QED BY <2>1, <2>2, TransportAssumption
<1>2. ASSUME NEW s \in Demands, h = <<"seconds", s>>
      PROVE  w >= Asked(h) /\ (MaxDelay > 0 => w <= MaxDelay)
  <2>1. ParseRetryAfter(h) = {s * Second} /\ Asked(h) = s * Second
    BY <1>2 DEF ParseRetryAfter, Asked, NoOverflow
  <2>2. w = s * Second /\ ~Exceeds(w)
    BY <2>1 DEF BackoffFor
  <2>3. s * Second \in Nat
    BY TransportAssumption
  <2> QED BY <2>1, <2>2, <2>3, TransportAssumption DEF Exceeds
<1>3. ASSUME NEW d \in {-1, 1, MaxDelay + 1}, h = <<"date", d>>
      PROVE  w >= Asked(h) /\ (MaxDelay > 0 => w <= MaxDelay)
  <2>1. ParseRetryAfter(h) = {IF d > 0 THEN d ELSE 0} /\ Asked(h) = d
    BY <1>3 DEF ParseRetryAfter, Asked
  <2>2. w = (IF d > 0 THEN d ELSE 0) /\ ~Exceeds(w)
    BY <2>1 DEF BackoffFor
  <2> QED BY <2>1, <2>2, TransportAssumption DEF Exceeds
<1> QED BY <1>1, <1>2, <1>3 DEF Headers

\* RetryAfterHonoured, for every demand that fits a time.Duration.
THEOREM RetryAfterCorrect ==
  ASSUME NoOverflow
  PROVE  Spec => []RetryAfterHonoured
<1>1. Init => RetryAfterHonoured
  BY IdleFacts DEF Init, RetryAfterHonoured
<1>2. HttpInv /\ RetryAfterHonoured /\ [Next]_vars => RetryAfterHonoured'
  <2> SUFFICES ASSUME HttpInv, RetryAfterHonoured, [Next]_vars, NEW d \in Calls,
                      rq'[d].pc = "backoff"
               PROVE  rq'[d].wait >= rq'[d].asked /\ (MaxDelay > 0 => rq'[d].wait <= MaxDelay)
    BY DEF RetryAfterHonoured
  <2>0. Shape /\ CallInv(d)
    BY DEF HttpInv
  <2>1. CASE rq'[d] = rq[d]
    BY <2>1 DEF RetryAfterHonoured
  <2>2. CASE BacksOff(d)
    <3>1. PICK h \in HeadersOf(rq[d].out) : \E v \in BackoffFor(h, rq[d].delay) :
            rq' = [rq EXCEPT ![d].pc = "backoff", ![d].wait = v, ![d].asked = Asked(h),
                             ![d].out = "none"]
      BY <2>2 DEF BacksOff
    <3>2. PICK w \in BackoffFor(h, rq[d].delay) :
            rq' = [rq EXCEPT ![d].pc = "backoff", ![d].wait = w, ![d].asked = Asked(h),
                             ![d].out = "none"]
      BY <3>1
    <3>3. rq'[d].wait = w /\ rq'[d].asked = Asked(h)
      BY <2>0, <3>2 DEF Shape, Fields
    <3>4. h \in Headers
      BY DEF HeadersOf, Headers
    <3>5. w >= Asked(h) /\ (MaxDelay > 0 => w <= MaxDelay)
      BY <2>0, <3>4, BackoffBounds DEF CallInv, DelayOf
    <3> QED BY <3>3, <3>5
  <2>3. rq'[d] = rq[d] \/ BacksOff(d)
    <3>1. ASSUME NEW c \in Calls, c # d, Begins(c) \/ CallSteps(c) PROVE rq'[d] = rq[d]
      BY <2>0, <3>1 DEF CallSteps, Begins, TokenReuses, TokenLogsIn, LoginSucceeds, LoginFails,
         AsksAgain, RoundTrips, BacksOff, StopsRetrying, Resends, BackoffCut, Returns, Takes,
         WithToken, Finished, Shape
    <3>2. ASSUME Begins(d) \/ CallSteps(d), ~BacksOff(d) PROVE FALSE
      <4>1. CASE Begins(d) \/ Takes(d)
        BY <2>0, <4>1, IdleFacts DEF Begins, Takes, Shape, Fields
      <4>2. CASE TokenReuses(d) \/ TokenLogsIn(d) \/ LoginSucceeds(d)
        BY <2>0, <4>2 DEF TokenReuses, TokenLogsIn, LoginSucceeds, WithToken, Shape, Fields
      <4>3. CASE AsksAgain(d) \/ Resends(d)
        BY <2>0, <4>3 DEF AsksAgain, Resends, Shape, Fields
      <4>6. CASE RoundTrips(d)
        <5>1. PICK o \in Results, done \in 0..1 :
                rq' = [rq EXCEPT ![d].pc = "outcome", ![d].out = o, ![d].applied = @ + done,
                         ![d].refused = IF o = "unauthorized" THEN @ \cup {rq[d].used} ELSE @]
          BY <4>6 DEF RoundTrips
        <5>2. rq'[d].pc = "outcome"
          BY <2>0, <5>1 DEF Shape, Fields
        <5> QED BY <5>2
      <4>4. CASE StopsRetrying(d) \/ BackoffCut(d) \/ Returns(d)
        BY <2>0, <4>4, FinishedFacts DEF StopsRetrying, BackoffCut, Returns
      <4>5. CASE LoginFails(d)
        <5>1. CASE rq' = [rq EXCEPT ![d].pc = "outcome", ![d].used = NoToken,
                            ![d].out = "unauthorized", ![d].refused = @ \cup {NoToken}]
          BY <2>0, <5>1 DEF Shape, Fields
        <5>2. ASSUME NEW o, rq' = [Finished(d, o) EXCEPT
                       ![d].refused = IF o = "unauthorized" THEN @ \cup {NoToken} ELSE @]
              PROVE  FALSE
          <6>1. /\ DOMAIN Finished(d, o) = Calls /\ Finished(d, o)[d].pc = "done"
                /\ DOMAIN Finished(d, o)[d] = Fields
            BY <2>0, IdleFacts DEF Finished, Shape, Fields
          <6>2. rq'[d].pc = "done"
            BY <5>2, <6>1 DEF Fields
          <6> QED BY <6>2
        <5> QED BY <4>5, <5>1, <5>2 DEF LoginFails
      <4> QED BY <3>2, <4>1, <4>2, <4>3, <4>4, <4>5, <4>6 DEF CallSteps
    <3>3. CASE Expires \/ Revokes \/ UNCHANGED vars
      BY <3>3 DEF Expires, Revokes, vars
    <3> QED BY <3>1, <3>2, <3>3 DEF Next
  <2> QED BY <2>1, <2>2, <2>3
<1> QED BY <1>1, <1>2, HttpInductive, PTL DEF Spec
=============================================================================
