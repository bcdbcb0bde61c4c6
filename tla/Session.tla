------------------------------- MODULE Session -------------------------------
(***************************************************************************)
(* Server-side sessions: the rows of session.SQLite (session/sqlite.go),   *)
(* the lifetime rules of session.Policy (session/policy.go), and the       *)
(* requests that resolve an identity from a row and pass the guards of     *)
(* fiberauth.Gate (oidcauth/fiberauth), while sessions are revoked, logged *)
(* out and swept and the login is reconfigured.                            *)
(*                                                                         *)
(* Each statement sent to the database is one step. A request's lookup,    *)
(* its reading of the clock, its touch and its guards are separate steps.  *)
(* Session ids and tokens are random and never reused, so a session is     *)
(* known by one name; its cookie may be presented at any time.             *)
(***************************************************************************)
EXTENDS Integers, FiniteSets

CONSTANTS
  Sessions,       \* sessions that may be created
  Legacy,         \* rows written before created_at was recorded
  Requests,
  Groups,         \* the groups of an identity
  TTL,            \* Policy.TTL
  TouchInterval,  \* Policy.TouchInterval
  Lifetimes,      \* the values Policy.MaxLifetime is configured to
  MaxTime         \* bound: the clock

ASSUME SessionAssumption ==
  /\ TTL \in Nat \ {0} /\ TouchInterval \in Nat \ {0} /\ MaxTime \in Nat
  /\ Lifetimes \subseteq Nat \ {0}
  /\ Legacy \subseteq Sessions

VARIABLES
  clock,     \* Gate.now, time.Now
  maxLife,   \* Policy.MaxLifetime of the running process
  cfg,       \* what Options.Provider returns: Off, or the owner group
  rows,      \* the table auth_session, by session
  minted,    \* the sessions created so far
  gone,      \* history: sessions revoked, logged out or swept
  allowance, \* history: the longest MaxLifetime in force since a session was issued
  req        \* the requests under way, see Request

vars == <<clock, maxLife, cfg, rows, minted, gone, allowance, req>>

Off == "off"            \* Provider() is nil
AnyOwner == ""          \* Config.OwnerGroup is not set
Providers == {Off, AnyOwner} \cup Groups
NoCookie == "no_cookie"
Routes == {"auth", "owner", "revoke"}
Unknown == 0            \* the zero time; the clock starts after it

Row == [created : 0..MaxTime, seen : 1..MaxTime, expires : Nat,
        groups : SUBSET Groups, owner : BOOLEAN]
NoRow == [created |-> Unknown, seen |-> 1, expires |-> 0, groups |-> {}, owner |-> FALSE]

Request ==
  [pc      : {"idle", "lookup", "check", "touch", "configured", "guard", "revoking", "passed"},
   cookie  : Sessions \cup {NoCookie},
   route   : Routes,
   prov    : Providers,       \* the provider ResolveIdentity read
   row     : Row,             \* the row the lookup returned
   now     : 1..MaxTime,      \* the local `now` of resolveSession
   ident   : {"none", "member", "owner"},   \* Locals: the identity's right
   wasGone : BOOLEAN,         \* history: the session was gone when it began
   began   : 1..MaxTime,      \* history: when it began
   steady  : BOOLEAN]         \* history: cfg has not changed since it began

\* No request; also what is left of one that was answered.
Idle == [pc |-> "idle", cookie |-> NoCookie, route |-> "auth", prov |-> Off, row |-> NoRow,
         now |-> 1, ident |-> "none", wasGone |-> FALSE, began |-> 1, steady |-> TRUE]

Becomes(r, x) == req' = [req EXCEPT ![r] = x]
Min(a, b) == IF a < b THEN a ELSE b

Init ==
  /\ clock = 1
  /\ maxLife \in Lifetimes
  /\ cfg \in Providers
  /\ rows = [s \in Legacy |-> [NoRow EXCEPT !.expires = 1 + TTL, !.groups = Groups, !.owner = TRUE]]
  /\ minted = Legacy
  /\ gone = {}
  /\ allowance = [s \in Sessions |-> 0]
  /\ req = [r \in Requests |-> Idle]
-----------------------------------------------------------------------------
(* Plausible mistakes in this code, for checking that the properties see them *)

ExpiryForMut_NoClamp(created, t) == t + TTL

LiveMut_NoCap(x, t) == x.expires = Unknown \/ x.expires > t

TouchedMut_Upsert(x) ==
  [s \in DOMAIN rows \cup {x.cookie} |->
     IF s = x.cookie
     THEN [x.row EXCEPT !.seen = x.now, !.expires = Min(x.now + TTL, x.row.created + maxLife)]
     ELSE rows[s]]

IdentifiedMut_Stored(x) ==
  [x EXCEPT !.pc = IF x.route = "revoke" THEN "configured" ELSE "guard",
            !.ident = IF x.row.owner THEN "owner" ELSE "member"]
-----------------------------------------------------------------------------
(* Policy                                                                  *)

\* ExpiryFor: the sliding TTL, clamped to the absolute cap.
ExpiryFor(created, t) ==
  IF created = Unknown THEN t + TTL ELSE Min(t + TTL, created + maxLife)

\* Live: neither the idle expiry nor the absolute cap has been reached.
Live(x, t) ==
  /\ x.expires = Unknown \/ x.expires > t
  /\ x.created = Unknown \/ t - x.created < maxLife

NeedsTouch(x, t) == t - x.seen >= TouchInterval

\* IsOwner: membership of the owner group, or anyone when none is set.
IsOwner(p, groups) == p = AnyOwner \/ p \in groups
-----------------------------------------------------------------------------
(* A request                                                               *)

\* c.Next: the first of the route's handlers, in the order register gives.
FirstGuard(x) == IF x.route = "revoke" THEN "configured" ELSE "guard"

Anonymous(x) == [x EXCEPT !.pc = FirstGuard(x)]

\* The session's identity, with ownership re-derived from the row's groups
\* under the provider read at the start.
Identified(x) ==
  [x EXCEPT !.pc = FirstGuard(x),
            !.ident = IF IsOwner(x.prov, x.row.groups) THEN "owner" ELSE "member"]

\* ResolveIdentity: the provider is read; with no login, or no cookie, there
\* is no lookup.
RequestBegins(r, c, route) ==
  /\ req[r].pc = "idle"
  /\ LET x == [Idle EXCEPT !.pc = "lookup", !.cookie = c, !.route = route, !.prov = cfg,
                           !.wasGone = c \in gone, !.began = clock]
     IN Becomes(r, IF cfg = Off \/ c = NoCookie THEN Anonymous(x) ELSE x)
  /\ UNCHANGED <<clock, maxLife, cfg, rows, minted, gone, allowance>>

\* SessionByToken finds the row, expired or not.
LookupFinds(r) ==
  /\ req[r].pc = "lookup" /\ req[r].cookie \in DOMAIN rows
  /\ Becomes(r, [req[r] EXCEPT !.pc = "check", !.row = rows[req[r].cookie]])
  /\ UNCHANGED <<clock, maxLife, cfg, rows, minted, gone, allowance>>

\* SessionByToken finds none, or fails.
LookupMisses(r) ==
  /\ req[r].pc = "lookup"
  /\ Becomes(r, Anonymous(req[r]))
  /\ UNCHANGED <<clock, maxLife, cfg, rows, minted, gone, allowance>>

\* The clock is read, Live and NeedsTouch are decided on the row as read.
Checks(r) ==
  /\ req[r].pc = "check"
  /\ LET x == req[r] IN
       Becomes(r, IF ~Live(x.row, clock) THEN Anonymous(x)
                  ELSE IF NeedsTouch(x.row, clock) THEN [x EXCEPT !.pc = "touch", !.now = clock]
                  ELSE Identified(x))
  /\ UNCHANGED <<clock, maxLife, cfg, rows, minted, gone, allowance>>

\* UPDATE ... WHERE id = ?: nothing happens to a row that is gone.
Touched(x) ==
  [s \in DOMAIN rows |->
     IF s = x.cookie
     THEN [rows[s] EXCEPT !.seen = x.now, !.expires = ExpiryFor(x.row.created, x.now)]
     ELSE rows[s]]

\* TouchSession; its failure is logged and the request goes on.
Touches(r, ok) ==
  /\ req[r].pc = "touch"
  /\ rows' = IF ok THEN Touched(req[r]) ELSE rows
  /\ Becomes(r, Identified(req[r]))
  /\ UNCHANGED <<clock, maxLife, cfg, minted, gone, allowance>>

\* requireConfigured: 404 unless a login is configured.
RequireConfigured(r) ==
  /\ req[r].pc = "configured"
  /\ Becomes(r, IF cfg = Off THEN Idle ELSE [req[r] EXCEPT !.pc = "guard"])
  /\ UNCHANGED <<clock, maxLife, cfg, rows, minted, gone, allowance>>

\* RequireOwner and RequireAuth: open when no login is configured, which
\* they ask again; else 401 or 403.
Guard(r) ==
  /\ req[r].pc = "guard"
  /\ LET x == req[r]
         allowed == \/ cfg = Off
                    \/ x.ident = "owner"
                    \/ x.ident = "member" /\ x.route = "auth"
     IN Becomes(r, IF ~allowed THEN Idle
                   ELSE [x EXCEPT !.pc = IF x.route = "revoke" THEN "revoking" ELSE "passed"])
  /\ UNCHANGED <<clock, maxLife, cfg, rows, minted, gone, allowance>>

\* revokeSession: DeleteSession by id, a row that is gone included.
Revokes(r, s) ==
  /\ req[r].pc = "revoking"
  /\ rows' = [t \in DOMAIN rows \ {s} |-> rows[t]]
  /\ gone' = gone \cup {s}
  /\ Becomes(r, Idle)
  /\ UNCHANGED <<clock, maxLife, cfg, minted, allowance>>

\* The application's handler has answered, or DeleteSession failed.
Answers(r) ==
  /\ req[r].pc \in {"passed", "revoking"}
  /\ Becomes(r, Idle)
  /\ UNCHANGED <<clock, maxLife, cfg, rows, minted, gone, allowance>>
-----------------------------------------------------------------------------
(* Everything else that writes the table, and the environment              *)

\* issueSession, at the end of a callback.
IssueSession(s, groups) ==
  /\ s \notin minted /\ cfg # Off
  /\ rows' = [t \in DOMAIN rows \cup {s} |->
       IF t # s THEN rows[t]
       ELSE [created |-> clock, seen |-> clock, expires |-> ExpiryFor(clock, clock),
             groups |-> groups, owner |-> IsOwner(cfg, groups)]]
  /\ minted' = minted \cup {s}
  /\ allowance' = [allowance EXCEPT ![s] = maxLife]
  /\ UNCHANGED <<clock, maxLife, cfg, gone, req>>

\* logoutHandler: DeleteSessionByToken, whether or not a login is configured.
\* (When it fails the row stays and only the cookie is cleared.)
Logout(s) ==
  /\ s \in minted
  /\ rows' = [t \in DOMAIN rows \ {s} |-> rows[t]]
  /\ gone' = gone \cup {s}
  /\ UNCHANGED <<clock, maxLife, cfg, minted, allowance, req>>

\* DeleteExpiredSessions: what the sweep job's DELETE takes at time t.
Sweeps(t) == {s \in DOMAIN rows : rows[s].expires <= t}

\* One run of the sweep job, with the time it read before its DELETE.
Sweep(t) ==
  /\ Sweeps(t) # {}
  /\ rows' = [s \in DOMAIN rows \ Sweeps(t) |-> rows[s]]
  /\ gone' = gone \cup Sweeps(t)
  /\ UNCHANGED <<clock, maxLife, cfg, minted, allowance, req>>

\* The application's Provider function answers differently.
Configure(p) ==
  /\ cfg # p
  /\ cfg' = p
  /\ req' = [r \in Requests |-> IF req[r].pc = "idle" THEN Idle
                                ELSE [req[r] EXCEPT !.steady = FALSE]]
  /\ UNCHANGED <<clock, maxLife, rows, minted, gone, allowance>>

\* The process dies, its requests with it, and starts with another policy.
Restart(m) ==
  /\ m # maxLife
  /\ maxLife' = m
  /\ allowance' = [s \in Sessions |-> IF s \in minted /\ allowance[s] < m THEN m ELSE allowance[s]]
  /\ req' = [r \in Requests |-> Idle]
  /\ UNCHANGED <<clock, cfg, rows, minted, gone>>

Tick ==
  /\ clock < MaxTime
  /\ clock' = clock + 1
  /\ UNCHANGED <<maxLife, cfg, rows, minted, gone, allowance, req>>
-----------------------------------------------------------------------------
Handles(r) ==
  \/ LookupFinds(r) \/ LookupMisses(r) \/ Checks(r)
  \/ \E ok \in BOOLEAN : Touches(r, ok)
  \/ RequireConfigured(r) \/ Guard(r) \/ Answers(r)
  \/ \E s \in minted : Revokes(r, s)

Next ==
  \/ \E r \in Requests :
       \/ \E c \in minted \cup {NoCookie}, route \in Routes : RequestBegins(r, c, route)
       \/ Handles(r)
  \/ \E s \in Sessions :
       \/ \E groups \in {{}, Groups} : IssueSession(s, groups)
       \/ Logout(s)
  \/ \E t \in 1..clock : Sweep(t)
  \/ \E p \in Providers : Configure(p)
  \/ \E m \in Lifetimes : Restart(m)
  \/ Tick

Spec == Init /\ [][Next]_vars
-----------------------------------------------------------------------------
(* Properties                                                              *)

\* Every row and every request under way has its type; rows exist only for
\* sessions that were issued.
TypeOK ==
  /\ clock \in 1..MaxTime /\ maxLife \in Lifetimes /\ cfg \in Providers
  /\ minted \subseteq Sessions /\ DOMAIN rows \subseteq minted /\ gone \subseteq minted
  /\ allowance \in [Sessions -> Lifetimes \cup {0}]
  /\ \A s \in DOMAIN rows : rows[s] \in Row
  /\ req \in [Requests -> Request]

\* A session that was revoked, logged out or swept is out for good: its row
\* does not come back, although a request that read it earlier may still
\* touch it, and no request that begins later is given its identity.
RevokedStaysOut ==
  /\ gone \cap DOMAIN rows = {}
  /\ \A r \in Requests : req[r].ident # "none" => ~req[r].wasGone

\* MaxLifetime "caps a session's total age no matter how active it is": no
\* request that begins at or after the cap of the policy now in force is
\* given an identity, whatever was stored under an earlier policy.
AbsoluteCap ==
  \A r \in Requests :
    req[r].ident # "none" /\ req[r].row.created # Unknown =>
      req[r].began - req[r].row.created < maxLife

\* "Ownership is re-derived from the groups under the owner group configured
\* now": a request passes an owner route with a login configured only if the
\* session's groups confer ownership under it, whatever was stored at sign-in
\* (and unless the login is reconfigured while the request is under way).
OwnerAsConfigured ==
  \A r \in Requests :
    /\ req[r].route # "auth" /\ req[r].pc \in {"revoking", "passed"}
    /\ req[r].steady /\ cfg # Off
    => IsOwner(cfg, req[r].row.groups)

\* "Clamping is what lets a sweeper collect the row on schedule": once a session
\* is as old as the longest cap that was in force in its time allows, a sweep
\* takes its row, however often it was touched and whatever the policy became.
SweptOnSchedule ==
  \A s \in DOMAIN rows \ Legacy :
    clock >= rows[s].created + allowance[s] => s \in Sweeps(clock)
=============================================================================
