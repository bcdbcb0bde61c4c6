----------------------------- MODULE Discovery -----------------------------
(***************************************************************************)
(* The discovery document of oidcauth.Provider (oidcauth/provider.go), as  *)
(* logins, callbacks and logouts share it: the first of them that finds    *)
(* none fetches it with the mutex held, and the others wait. CheckHealth   *)
(* fetches a document of its own and leaves the shared one alone. The      *)
(* issuer may be down, hang or come back at any time.                      *)
(***************************************************************************)
EXTENDS Naturals

CONSTANTS
  Visits,   \* requests that need the document, each again and again
  NoVisit   \* the mutex is free

ASSUME DiscoveryAssumption == NoVisit \notin Visits

VARIABLES
  known,     \* Provider.provider is set
  holder,    \* holder of Provider.mu
  visit,     \* each request: its place and what it wants
  fetched    \* history: how often discover has fetched the document

discoveryVars == <<known, holder, visit, fetched>>

\* AuthorizeURL, Exchange and EndSessionURL go through discover.
Wants == {"authorize", "exchange", "end_session", "health"}
NoWant == [pc |-> "idle", want |-> "health", got |-> "none"]

Answer(v, o) == visit' = [visit EXCEPT ![v] = [pc |-> "done", want |-> @.want, got |-> o]]

DiscoveryInit ==
  known = FALSE /\ holder = NoVisit /\ visit = [v \in Visits |-> NoWant] /\ fetched = 0
-----------------------------------------------------------------------------
(* Plausible mistakes in this code, for checking that the properties see them *)

DiscoverFailsMut_KeepsLock(v) ==
  /\ visit[v].pc = "fetch"
  /\ Answer(v, "unreachable")
  /\ UNCHANGED <<known, holder, fetched>>
-----------------------------------------------------------------------------
\* The request begins; CheckHealth takes no lock.
Visit(v, w) ==
  /\ visit[v].pc = "idle"
  /\ visit' = [visit EXCEPT ![v] =
       [pc |-> IF w = "health" THEN "probe" ELSE "lock", want |-> w, got |-> "none"]]
  /\ UNCHANGED <<known, holder, fetched>>

\* What the caller has once there is a document. A provider that names no
\* end-session endpoint is no error: the URL is "".
Usable(w) == IF w = "end_session" THEN {"url", "no_url"} ELSE {"url"}

DiscoverReuses(v) ==
  /\ visit[v].pc = "lock" /\ holder = NoVisit /\ known
  /\ \E o \in Usable(visit[v].want) : Answer(v, o)
  /\ UNCHANGED <<known, holder, fetched>>

\* The lock is kept across the fetch.
DiscoverFetches(v) ==
  /\ visit[v].pc = "lock" /\ holder = NoVisit /\ ~known
  /\ holder' = v
  /\ visit' = [visit EXCEPT ![v].pc = "fetch"]
  /\ UNCHANGED <<known, fetched>>

DiscoverSucceeds(v) ==
  /\ visit[v].pc = "fetch"
  /\ known' = TRUE /\ holder' = NoVisit /\ fetched' = fetched + 1
  /\ \E o \in Usable(visit[v].want) : Answer(v, o)

\* The fetch fails, or is cut off by the client's timeout or by the context:
\* the next request tries again.
DiscoverFails(v) ==
  /\ visit[v].pc = "fetch"
  /\ Answer(v, "unreachable")
  /\ holder' = NoVisit
  /\ UNCHANGED <<known, fetched>>

\* CheckHealth: discovery, and then the probe of the client's credentials, which
\* fails only when they are rejected.
CheckHealth(v) ==
  /\ visit[v].pc = "probe"
  /\ \E o \in {"unreachable", "rejected", "url"} : Answer(v, o)
  /\ UNCHANGED <<known, holder, fetched>>

\* The handler answers its browser.
VisitEnds(v) ==
  /\ visit[v].pc = "done"
  /\ visit' = [visit EXCEPT ![v] = NoWant]
  /\ UNCHANGED <<known, holder, fetched>>

VisitSteps(v) ==
  \/ DiscoverReuses(v) \/ DiscoverFetches(v) \/ DiscoverSucceeds(v) \/ DiscoverFails(v)
  \/ CheckHealth(v) \/ VisitEnds(v)

DiscoveryNext == \E v \in Visits : VisitSteps(v) \/ \E w \in Wants : Visit(v, w)

DiscoverySpec == DiscoveryInit /\ [][DiscoveryNext]_discoveryVars

\* The client's timeout ends every fetch, and sync.Mutex starves nobody.
DiscoveryFairness ==
  \A v \in Visits :
    /\ WF_discoveryVars(VisitSteps(v))
    /\ SF_discoveryVars(DiscoverReuses(v) \/ DiscoverFetches(v))
-----------------------------------------------------------------------------
(* Properties *)

\* Every variable has its type, and the mutex is held by the request that fetches.
DiscoveryTypeOK ==
  /\ known \in BOOLEAN /\ fetched \in Nat /\ holder \in Visits \cup {NoVisit}
  /\ visit \in [Visits -> [pc : {"idle", "lock", "fetch", "probe", "done"}, want : Wants,
                           got : {"none", "url", "no_url", "unreachable", "rejected"}]]
  /\ \A v \in Visits : visit[v].pc = "fetch" <=> holder = v

\* "a burst of logins on a cold start makes one request rather than N": the
\* document is fetched once in the life of the provider.
FetchedOnce == fetched <= 1

\* And no request waits for ever on the mutex that is held across the fetch, be
\* the issuer up or down.
BurstAnswered ==
  /\ []FetchedOnce
  /\ \A v \in Visits : (visit[v].pc = "lock") ~> (visit[v].pc = "done")
=============================================================================
