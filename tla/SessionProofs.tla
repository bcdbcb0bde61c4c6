---------------------------- MODULE SessionProofs ----------------------------
(***************************************************************************)
(* Proofs about server-side sessions (Session): any number of sessions and *)
(* requests, any TTL, any set of caps the process is restarted with.       *)
(***************************************************************************)
EXTENDS Session, TLAPS

Fields == {"pc", "cookie", "route", "prov", "row", "now", "ident", "wasGone", "began", "steady"}
RowFields == {"created", "seen", "expires", "groups", "owner"}

Shape == DOMAIN req = Requests /\ \A r \in Requests : DOMAIN req[r] = Fields

\* What is recorded of the caps covers the one in force, for every session that
\* was issued under one.
AllowanceInv ==
  /\ allowance \in [Sessions -> Nat] /\ minted \subseteq Sessions
  /\ \A s \in minted \ Legacy : maxLife <= allowance[s]

\* A session created under a cap expires within the longest that was in force
\* since, whatever was touched and whatever policy is in force now.
Clamped ==
  \A s \in DOMAIN rows \ Legacy : rows[s].expires <= rows[s].created + allowance[s]

\* A session that is gone has no row; rows are of sessions that were issued,
\* with the time of issue unless they are older than its recording.
TableInv ==
  /\ clock \in Nat \ {0} /\ maxLife \in Lifetimes
  /\ gone \subseteq minted /\ DOMAIN rows \subseteq minted /\ Legacy \subseteq minted
  /\ gone \cap DOMAIN rows = {}
  /\ \A s \in DOMAIN rows :
       /\ DOMAIN rows[s] = RowFields /\ rows[s].created \in Nat /\ rows[s].expires \in Nat
       /\ s \notin Legacy => rows[s].created # Unknown
  /\ AllowanceInv /\ Clamped

\* A request whose session was gone when it began never gets past the lookup.
GoneOf(r) ==
  req[r].wasGone =>
    /\ req[r].cookie \in gone
    /\ req[r].ident = "none" /\ req[r].pc \notin {"check", "touch"}

\* What a request checks and touches is the row it read: a session's time of
\* creation never changes.
ReadOf(r) ==
  /\ req[r].row.created \in Nat /\ req[r].now \in Nat
  /\ req[r].pc \in {"check", "touch"} =>
       /\ req[r].cookie \in minted
       /\ req[r].cookie \in DOMAIN rows => rows[req[r].cookie].created = req[r].row.created

\* Once the row was found live, the cap had not been reached when it began.
CapOf(r) ==
  /\ req[r].began \in Nat /\ req[r].began <= clock
  /\ req[r].ident # "none" \/ req[r].pc = "touch" =>
       req[r].row.created = Unknown \/ req[r].began - req[r].row.created < maxLife

\* Ownership is that of the provider read at the start, which is still the
\* configured one if nothing changed; past the guard it was needed.
OwnerOf(r) ==
  /\ req[r].pc \in {"lookup", "check", "touch"} => req[r].ident = "none"
  /\ req[r].ident = "owner" => IsOwner(req[r].prov, req[r].row.groups)
  /\ req[r].steady /\ req[r].pc # "idle" => req[r].prov = cfg
  /\ req[r].route # "auth" /\ req[r].pc \in {"revoking", "passed"} /\ req[r].steady =>
       cfg = Off \/ req[r].ident = "owner"

RequestInv(r) == GoneOf(r) /\ ReadOf(r) /\ CapOf(r) /\ OwnerOf(r)

SessionInv == Shape /\ TableInv /\ \A r \in Requests : RequestInv(r)
-----------------------------------------------------------------------------
\* The rows of a step are those of before, for the sessions issued before.
SameRows ==
  \A s \in DOMAIN rows' : s \in minted => s \in DOMAIN rows /\ rows'[s].created = rows[s].created

LEMMA IdleFacts ==
  /\ DOMAIN Idle = Fields
  /\ Idle.pc = "idle" /\ Idle.ident = "none" /\ Idle.wasGone = FALSE /\ Idle.began = 1
  /\ Idle.row.created = 0 /\ Idle.now = 1 /\ Idle.row = NoRow
BY DEF Idle, Fields, NoRow, Unknown

LEMMA NoRowFacts == DOMAIN NoRow = RowFields /\ NoRow.created = 0 /\ NoRow.expires = 0
BY DEF NoRow, RowFields, Unknown

LEMMA IdleRequest ==
  ASSUME NEW r \in Requests, TableInv', req'[r] = Idle
  PROVE  RequestInv(r)'
<1>1. clock' \in Nat /\ 1 <= clock'
  BY DEF TableInv
<1>2. CapOf(r)'
  BY <1>1, IdleFacts DEF CapOf
<1> QED BY <1>2, IdleFacts DEF RequestInv, GoneOf, ReadOf, OwnerOf

\* A request that does not move keeps its invariant while others move, rows
\* come and go and time passes.
LEMMA RequestKeeps ==
  ASSUME NEW r \in Requests, RequestInv(r), req'[r] = req[r], clock \in Nat, clock' \in Nat,
         clock <= clock', maxLife' = maxLife, cfg' = cfg, gone \subseteq gone',
         minted \subseteq minted', SameRows
  PROVE  RequestInv(r)'
<1>1. GoneOf(r)'
  BY DEF RequestInv, GoneOf
<1>2. ReadOf(r)'
  BY DEF RequestInv, ReadOf, SameRows
<1>3. req[r].began <= clock'
  BY DEF RequestInv, CapOf
<1>4. CapOf(r)'
  BY <1>3 DEF RequestInv, CapOf
<1>5. OwnerOf(r)'
  BY DEF RequestInv, OwnerOf
<1> QED BY <1>1, <1>2, <1>4, <1>5 DEF RequestInv

\* A step of one request leaves the others where they were.
LEMMA OneRequestMoves ==
  ASSUME SessionInv, NEW r \in Requests, Shape', TableInv', RequestInv(r)',
         \A d \in Requests \ {r} : req'[d] = req[d],
         UNCHANGED <<clock, maxLife, cfg, minted>>, gone \subseteq gone', SameRows
  PROVE  SessionInv'
<1>1. ASSUME NEW d \in Requests \ {r} PROVE RequestInv(d)'
  <2>1. RequestInv(d) /\ clock \in Nat /\ clock' \in Nat /\ clock <= clock'
    BY DEF SessionInv, TableInv
  <2> QED BY <2>1, RequestKeeps
<1> QED BY <1>1 DEF SessionInv

\* A step that leaves the table alone.
LEMMA TableKeeps ==
  ASSUME TableInv, UNCHANGED <<clock, maxLife, rows, minted, gone, allowance>>
  PROVE  TableInv' /\ SameRows
BY DEF TableInv, SameRows, AllowanceInv, Clamped

LEMMA BecomesFacts ==
  ASSUME Shape, NEW r \in Requests, NEW x, Becomes(r, x)
  PROVE  /\ req'[r] = x
         /\ \A d \in Requests \ {r} : req'[d] = req[d]
         /\ DOMAIN x = Fields => Shape'
BY DEF Shape, Becomes

LEMMA AnonymousFacts ==
  ASSUME NEW x, DOMAIN x = Fields
  PROVE  /\ DOMAIN Anonymous(x) = Fields
         /\ Anonymous(x).pc \in {"configured", "guard"}
         /\ \A f \in Fields \ {"pc"} : Anonymous(x)[f] = x[f]
BY DEF Anonymous, Fields, FirstGuard

LEMMA IdentifiedFacts ==
  ASSUME NEW x, DOMAIN x = Fields
  PROVE  /\ DOMAIN Identified(x) = Fields
         /\ Identified(x).pc \in {"configured", "guard"}
         /\ Identified(x).ident \in {"member", "owner"}
         /\ Identified(x).ident = "owner" => IsOwner(x.prov, x.row.groups)
         /\ \A f \in Fields \ {"pc", "ident"} : Identified(x)[f] = x[f]
<1> DEFINE id == IF IsOwner(x.prov, x.row.groups) THEN "owner" ELSE "member"
<1>1. id \in {"member", "owner"} /\ (id = "owner" => IsOwner(x.prov, x.row.groups))
  OBVIOUS
<1>2. Identified(x) = [[x EXCEPT !.pc = FirstGuard(x)] EXCEPT !.ident = id]
  BY DEF Identified
<1> HIDE DEF id
<1> QED BY <1>1, <1>2 DEF Fields, FirstGuard

LEMMA SessionStarts == Init => SessionInv
<1> SUFFICES ASSUME Init PROVE SessionInv
  OBVIOUS
<1>1. Shape
  BY IdleFacts DEF Init, Shape
<1>2. TableInv
  <2>1. DOMAIN rows = Legacy /\ 1 + TTL \in Nat
    BY SessionAssumption DEF Init
  <2>2. ASSUME NEW s \in Legacy
        PROVE  DOMAIN rows[s] = RowFields /\ rows[s].created = 0 /\ rows[s].expires = 1 + TTL
    <3>1. rows[s] = [NoRow EXCEPT !.expires = 1 + TTL, !.groups = Groups, !.owner = TRUE]
      BY DEF Init
    <3> QED BY <3>1, NoRowFacts DEF RowFields
  <2>3. Clamped
    BY <2>1 DEF Clamped
  <2>4. AllowanceInv
    BY SessionAssumption DEF Init, AllowanceInv
  <2> QED BY <2>1, <2>2, <2>3, <2>4 DEF Init, TableInv
<1>3. ASSUME NEW r \in Requests PROVE RequestInv(r)
  <2>1. req[r] = Idle /\ clock = 1
    BY DEF Init
  <2> QED BY <2>1, IdleFacts DEF RequestInv, GoneOf, ReadOf, OwnerOf, CapOf
<1> QED BY <1>1, <1>2, <1>3 DEF SessionInv

LEMMA RequestBeginsKeeps ==
  ASSUME SessionInv, NEW r \in Requests, NEW c, NEW route, RequestBegins(r, c, route)
  PROVE  SessionInv'
<1> DEFINE x == [Idle EXCEPT !.pc = "lookup", !.cookie = c, !.route = route, !.prov = cfg,
                             !.wasGone = c \in gone, !.began = clock]
           y == IF cfg = Off \/ c = NoCookie THEN Anonymous(x) ELSE x
<1>1. Becomes(r, y) /\ UNCHANGED <<clock, maxLife, cfg, rows, minted, gone, allowance>>
  BY DEF RequestBegins
<1>2. /\ DOMAIN x = Fields /\ x.pc = "lookup" /\ x.cookie = c /\ x.prov = cfg
      /\ x.wasGone = (c \in gone) /\ x.began = clock /\ x.ident = "none" /\ x.row = Idle.row
      /\ x.now = Idle.now
  BY IdleFacts DEF Fields
<1> HIDE DEF x
<1>3. /\ DOMAIN y = Fields /\ y.pc \in {"lookup", "configured", "guard"} /\ y.cookie = c
      /\ y.prov = cfg /\ y.wasGone = (c \in gone) /\ y.began = clock /\ y.ident = "none"
      /\ y.row.created = 0 /\ y.now = 1
  <2>1. CASE y = x
    BY <1>2, <2>1, IdleFacts
  <2>2. CASE y = Anonymous(x)
    BY <1>2, <2>2, AnonymousFacts, IdleFacts DEF Fields
  <2> QED BY <2>1, <2>2
<1> HIDE DEF y
<1>4. req'[r] = y /\ (\A d \in Requests \ {r} : req'[d] = req[d]) /\ Shape'
  BY <1>1, <1>3, BecomesFacts DEF SessionInv
<1>5. TableInv' /\ SameRows
  BY <1>1, TableKeeps DEF SessionInv
<1>6. CapOf(r)'
  <2>1. clock \in Nat /\ clock' = clock
    BY <1>1 DEF SessionInv, TableInv
  <2> QED BY <2>1, <1>3, <1>4 DEF CapOf
<1>7. GoneOf(r)'
  <2>1. req'[r].wasGone => c \in gone'
    BY <1>1, <1>3, <1>4
  <2> QED BY <2>1, <1>3, <1>4 DEF GoneOf
<1>8. ReadOf(r)' /\ OwnerOf(r)'
  BY <1>1, <1>3, <1>4 DEF ReadOf, OwnerOf
<1> QED BY <1>1, <1>4, <1>5, <1>6, <1>7, <1>8, OneRequestMoves DEF RequestInv

LEMMA LookupFindsKeeps ==
  ASSUME SessionInv, NEW r \in Requests, LookupFinds(r)
  PROVE  SessionInv'
<1> DEFINE y == [req[r] EXCEPT !.pc = "check", !.row = rows[req[r].cookie]]
<1>1. /\ Becomes(r, y) /\ UNCHANGED <<clock, maxLife, cfg, rows, minted, gone, allowance>>
      /\ req[r].pc = "lookup" /\ req[r].cookie \in DOMAIN rows
  BY DEF LookupFinds
<1>2. RequestInv(r) /\ DOMAIN req[r] = Fields
  BY DEF SessionInv, Shape
<1>3. /\ DOMAIN y = Fields /\ y.pc = "check" /\ y.row = rows[req[r].cookie]
      /\ \A f \in Fields \ {"pc", "row"} : y[f] = req[r][f]
  BY <1>2 DEF Fields
<1> HIDE DEF y
<1>4. req'[r] = y /\ (\A d \in Requests \ {r} : req'[d] = req[d]) /\ Shape'
  BY <1>1, <1>3, BecomesFacts DEF SessionInv
<1>5. TableInv' /\ SameRows
  BY <1>1, TableKeeps DEF SessionInv
<1>6. /\ y.cookie = req[r].cookie /\ y.now = req[r].now /\ y.ident = req[r].ident
      /\ y.wasGone = req[r].wasGone /\ y.began = req[r].began /\ y.steady = req[r].steady
      /\ y.prov = req[r].prov
  BY <1>3 DEF Fields
<1>7. y.ident = "none" /\ req[r].cookie \in minted /\ rows[req[r].cookie].created \in Nat
  BY <1>1, <1>2, <1>6 DEF RequestInv, OwnerOf, SessionInv, TableInv
<1>8. GoneOf(r)'
  BY <1>1, <1>2, <1>4, <1>6 DEF RequestInv, GoneOf, SessionInv, TableInv
<1>9. ReadOf(r)'
  BY <1>1, <1>2, <1>3, <1>4, <1>6, <1>7 DEF RequestInv, ReadOf
<1>10. CapOf(r)' /\ OwnerOf(r)'
  BY <1>1, <1>2, <1>3, <1>4, <1>6, <1>7 DEF RequestInv, CapOf, OwnerOf
<1> QED BY <1>1, <1>4, <1>5, <1>8, <1>9, <1>10, OneRequestMoves DEF RequestInv

\* The request goes on without an identity.
LEMMA GoesOnAnonymous ==
  ASSUME SessionInv, NEW r \in Requests, req[r].pc \in {"lookup", "check"},
         Becomes(r, Anonymous(req[r])), UNCHANGED <<clock, maxLife, cfg, rows, minted, gone, allowance>>
  PROVE  SessionInv'
<1> DEFINE y == Anonymous(req[r])
<1>2. RequestInv(r) /\ DOMAIN req[r] = Fields
  BY DEF SessionInv, Shape
<1>3. /\ DOMAIN y = Fields /\ y.pc \in {"configured", "guard"}
      /\ \A f \in Fields \ {"pc"} : y[f] = req[r][f]
  BY <1>2, AnonymousFacts
<1> HIDE DEF y
<1>4. req'[r] = y /\ (\A d \in Requests \ {r} : req'[d] = req[d]) /\ Shape'
  BY <1>3, BecomesFacts DEF SessionInv, y
<1>5. TableInv' /\ SameRows
  BY TableKeeps DEF SessionInv
<1>6. /\ y.cookie = req[r].cookie /\ y.now = req[r].now /\ y.ident = req[r].ident
      /\ y.wasGone = req[r].wasGone /\ y.began = req[r].began /\ y.steady = req[r].steady
      /\ y.prov = req[r].prov /\ y.row = req[r].row /\ y.ident = "none"
  BY <1>2, <1>3 DEF Fields, RequestInv, OwnerOf
<1>7. RequestInv(r)'
  BY <1>2, <1>3, <1>4, <1>6 DEF RequestInv, GoneOf, ReadOf, CapOf, OwnerOf
<1> QED BY <1>4, <1>5, <1>7, OneRequestMoves

LEMMA LookupMissesKeeps ==
  ASSUME SessionInv, NEW r \in Requests, LookupMisses(r)
  PROVE  SessionInv'
BY GoesOnAnonymous DEF LookupMisses

\* The request goes on with the identity of a session whose cap had not been
\* reached, which was not gone.
LEMMA GoesOnIdentified ==
  ASSUME SessionInv, NEW r \in Requests, req[r].pc \in {"check", "touch"},
         Becomes(r, Identified(req[r])), UNCHANGED <<clock, maxLife, cfg, minted, gone, allowance>>,
         TableInv', SameRows,
         req[r].row.created = Unknown \/ req[r].began - req[r].row.created < maxLife
  PROVE  SessionInv'
<1> DEFINE y == Identified(req[r])
<1>2. RequestInv(r) /\ DOMAIN req[r] = Fields
  BY DEF SessionInv, Shape
<1>3. /\ DOMAIN y = Fields /\ y.pc \in {"configured", "guard"} /\ y.ident \in {"member", "owner"}
      /\ y.ident = "owner" => IsOwner(req[r].prov, req[r].row.groups)
      /\ \A f \in Fields \ {"pc", "ident"} : y[f] = req[r][f]
  BY <1>2, IdentifiedFacts
<1> HIDE DEF y
<1>4. req'[r] = y /\ (\A d \in Requests \ {r} : req'[d] = req[d]) /\ Shape'
  BY <1>3, BecomesFacts DEF SessionInv, y
<1>6. /\ y.cookie = req[r].cookie /\ y.now = req[r].now
      /\ y.wasGone = req[r].wasGone /\ y.began = req[r].began /\ y.steady = req[r].steady
      /\ y.prov = req[r].prov /\ y.row = req[r].row
  BY <1>3 DEF Fields
<1>7. GoneOf(r)' /\ ReadOf(r)' /\ OwnerOf(r)'
  BY <1>2, <1>3, <1>4, <1>6 DEF RequestInv, GoneOf, ReadOf, OwnerOf, IsOwner
<1>8. CapOf(r)'
  BY <1>2, <1>3, <1>4, <1>6 DEF RequestInv, CapOf
<1> QED BY <1>4, <1>7, <1>8, OneRequestMoves DEF RequestInv

LEMMA ChecksKeeps ==
  ASSUME SessionInv, NEW r \in Requests, Checks(r)
  PROVE  SessionInv'
<1>1. req[r].pc = "check" /\ UNCHANGED <<clock, maxLife, cfg, rows, minted, gone, allowance>>
  BY DEF Checks
<1>2. RequestInv(r) /\ DOMAIN req[r] = Fields /\ TableInv
  BY DEF SessionInv, Shape
<1>3. TableInv' /\ SameRows
  BY <1>1, <1>2, TableKeeps
<1>4. CASE ~Live(req[r].row, clock)
  BY <1>1, <1>4, GoesOnAnonymous DEF Checks
<1>5. Live(req[r].row, clock) =>
        req[r].row.created = Unknown \/ req[r].began - req[r].row.created < maxLife
  <2>1. /\ req[r].began \in Nat /\ clock \in Nat /\ req[r].began <= clock
        /\ req[r].row.created \in Nat /\ maxLife \in Nat
    BY <1>2, SessionAssumption DEF RequestInv, CapOf, ReadOf, TableInv
  <2>2. Live(req[r].row, clock) =>
          req[r].row.created = Unknown \/ clock - req[r].row.created < maxLife
    BY DEF Live
  <2> QED BY <2>1, <2>2
<1>6. CASE Live(req[r].row, clock) /\ ~NeedsTouch(req[r].row, clock)
  BY <1>1, <1>3, <1>5, <1>6, GoesOnIdentified DEF Checks
<1>7. CASE Live(req[r].row, clock) /\ NeedsTouch(req[r].row, clock)
  <2> DEFINE y == [req[r] EXCEPT !.pc = "touch", !.now = clock]
  <2>1. Becomes(r, y)
    BY <1>7 DEF Checks
  <2>2. /\ DOMAIN y = Fields /\ y.pc = "touch" /\ y.now = clock
        /\ \A f \in Fields \ {"pc", "now"} : y[f] = req[r][f]
    BY <1>2 DEF Fields
  <2> HIDE DEF y
  <2>3. req'[r] = y /\ (\A d \in Requests \ {r} : req'[d] = req[d]) /\ Shape'
    BY <2>1, <2>2, BecomesFacts DEF SessionInv
  <2>4. /\ y.cookie = req[r].cookie /\ y.ident = req[r].ident
        /\ y.wasGone = req[r].wasGone /\ y.began = req[r].began /\ y.steady = req[r].steady
        /\ y.prov = req[r].prov /\ y.row = req[r].row
    BY <2>2 DEF Fields
  <2>5. clock \in Nat
    BY <1>2 DEF TableInv
  <2>6. GoneOf(r)' /\ ReadOf(r)' /\ OwnerOf(r)'
    BY <1>1, <1>2, <2>2, <2>3, <2>4, <2>5 DEF RequestInv, GoneOf, ReadOf, OwnerOf
  <2>7. CapOf(r)'
    BY <1>1, <1>2, <1>5, <1>7, <2>2, <2>3, <2>4 DEF RequestInv, CapOf
  <2> QED BY <1>1, <1>3, <2>3, <2>6, <2>7, OneRequestMoves DEF RequestInv
<1> QED BY <1>4, <1>6, <1>7

LEMMA ExpiryForFacts ==
  ASSUME TableInv, NEW created \in Nat, NEW t \in Nat
  PROVE  /\ ExpiryFor(created, t) \in Nat
         /\ created # Unknown => ExpiryFor(created, t) <= created + maxLife
<1>1. maxLife \in Lifetimes /\ maxLife \in Nat /\ TTL \in Nat
  BY SessionAssumption DEF TableInv
<1>2. created # Unknown => ExpiryFor(created, t) <= created + maxLife
  BY <1>1 DEF ExpiryFor, Min
<1>3. ExpiryFor(created, t) \in Nat
  BY <1>1 DEF ExpiryFor, Min
<1> QED BY <1>2, <1>3

LEMMA TouchesKeeps ==
  ASSUME SessionInv, NEW r \in Requests, NEW ok, Touches(r, ok)
  PROVE  SessionInv'
<1>1. /\ req[r].pc = "touch" /\ UNCHANGED <<clock, maxLife, cfg, minted, gone, allowance>>
      /\ Becomes(r, Identified(req[r])) /\ (rows' = rows \/ rows' = Touched(req[r]))
  BY DEF Touches
<1>2. RequestInv(r) /\ TableInv
  BY DEF SessionInv
<1>3. TableInv' /\ SameRows
  <2>1. CASE rows' = rows
    BY <1>1, <1>2, <2>1, TableKeeps
  <2>2. CASE rows' = Touched(req[r])
    <3> DEFINE c == req[r].cookie
               e == ExpiryFor(req[r].row.created, req[r].now)
    <3>1. e \in Nat /\ (req[r].row.created # Unknown => e <= req[r].row.created + maxLife)
      BY <1>2, ExpiryForFacts DEF RequestInv, ReadOf
    <3>2. c \in DOMAIN rows => rows[c].created = req[r].row.created
      BY <1>1, <1>2 DEF RequestInv, ReadOf
    <3>3. DOMAIN rows' = DOMAIN rows
      BY <2>2 DEF Touched
    <3>4. \A s \in DOMAIN rows : s # c => rows'[s] = rows[s]
      BY <2>2 DEF Touched
    <3>5. c \in DOMAIN rows => rows'[c] = [rows[c] EXCEPT !.seen = req[r].now, !.expires = e]
      BY <2>2 DEF Touched
    <3>6. c \in DOMAIN rows => DOMAIN rows[c] = RowFields /\ rows[c].created \in Nat
      BY <1>2 DEF TableInv
    <3> HIDE DEF e
    <3>7. c \in DOMAIN rows =>
            DOMAIN rows'[c] = RowFields /\ rows'[c].created = rows[c].created /\ rows'[c].expires = e
      BY <3>5, <3>6 DEF RowFields
    <3> HIDE DEF c
    <3>8. Clamped'
      <4> SUFFICES ASSUME NEW s \in DOMAIN rows \ Legacy
                   PROVE  rows'[s].expires <= rows'[s].created + allowance[s]
        BY <1>1, <3>3 DEF Clamped
      <4>1. CASE s = c
        <5>1. rows[c].created # Unknown
          BY <1>2, <4>1 DEF TableInv
        <5>2. maxLife \in Nat /\ allowance[s] \in Nat /\ maxLife <= allowance[s]
          BY <1>2, SessionAssumption DEF TableInv, AllowanceInv
        <5> QED BY <3>1, <3>2, <3>6, <3>7, <4>1, <5>1, <5>2
      <4>2. CASE s # c
        BY <1>2, <3>4, <4>2 DEF TableInv, Clamped
      <4> QED BY <4>1, <4>2
    <3>9. ASSUME NEW s \in DOMAIN rows
          PROVE  /\ DOMAIN rows'[s] = RowFields /\ rows'[s].created \in Nat /\ rows'[s].expires \in Nat
                 /\ rows'[s].created = rows[s].created
      BY <1>2, <3>1, <3>4, <3>6, <3>7 DEF TableInv
    <3>10. TableInv'
      BY <1>1, <1>2, <3>3, <3>8, <3>9 DEF TableInv, AllowanceInv
    <3> QED BY <3>3, <3>9, <3>10 DEF SameRows
  <2> QED BY <1>1, <2>1, <2>2
<1>4. req[r].row.created = Unknown \/ req[r].began - req[r].row.created < maxLife
  BY <1>1, <1>2 DEF RequestInv, CapOf
<1> QED BY <1>1, <1>3, <1>4, GoesOnIdentified

\* The request was answered.
LEMMA Answered ==
  ASSUME SessionInv, NEW r \in Requests, Becomes(r, Idle), TableInv', SameRows,
         UNCHANGED <<clock, maxLife, cfg, minted>>, gone \subseteq gone'
  PROVE  SessionInv'
<1>1. req'[r] = Idle /\ (\A d \in Requests \ {r} : req'[d] = req[d]) /\ Shape'
  BY BecomesFacts, IdleFacts DEF SessionInv
<1>2. RequestInv(r)'
  BY <1>1, IdleRequest
<1> QED BY <1>1, <1>2, OneRequestMoves

\* The request passes to another handler, at which nothing is asserted of it
\* that was not so before.
LEMMA PassesOn ==
  ASSUME SessionInv, NEW r \in Requests, NEW pc \in {"guard", "revoking", "passed"},
         req[r].pc \in {"configured", "guard"}, Becomes(r, [req[r] EXCEPT !.pc = pc]),
         UNCHANGED <<clock, maxLife, cfg, rows, minted, gone, allowance>>,
         pc # "guard" /\ req[r].route # "auth" => cfg = Off \/ req[r].ident = "owner"
  PROVE  SessionInv'
<1> DEFINE y == [req[r] EXCEPT !.pc = pc]
<1>1. RequestInv(r) /\ DOMAIN req[r] = Fields
  BY DEF SessionInv, Shape
<1>2. DOMAIN y = Fields /\ y.pc = pc /\ \A f \in Fields \ {"pc"} : y[f] = req[r][f]
  BY <1>1 DEF Fields
<1>3. req'[r] = y /\ (\A d \in Requests \ {r} : req'[d] = req[d]) /\ Shape'
  BY <1>2, BecomesFacts DEF SessionInv
<1> HIDE DEF y
<1>4. TableInv' /\ SameRows
  BY TableKeeps DEF SessionInv
<1>5. /\ y.cookie = req[r].cookie /\ y.now = req[r].now /\ y.ident = req[r].ident
      /\ y.wasGone = req[r].wasGone /\ y.began = req[r].began /\ y.steady = req[r].steady
      /\ y.prov = req[r].prov /\ y.row = req[r].row /\ y.route = req[r].route
  BY <1>2 DEF Fields
<1>6. GoneOf(r)' /\ ReadOf(r)' /\ CapOf(r)'
  BY <1>1, <1>2, <1>3, <1>5 DEF RequestInv, GoneOf, ReadOf, CapOf
<1>7. OwnerOf(r)'
  BY <1>1, <1>2, <1>3, <1>5 DEF RequestInv, OwnerOf, IsOwner
<1> QED BY <1>3, <1>4, <1>6, <1>7, OneRequestMoves DEF RequestInv

LEMMA RequireConfiguredKeeps ==
  ASSUME SessionInv, NEW r \in Requests, RequireConfigured(r)
  PROVE  SessionInv'
<1>1. req[r].pc = "configured" /\ UNCHANGED <<clock, maxLife, cfg, rows, minted, gone, allowance>>
  BY DEF RequireConfigured
<1>2. TableInv' /\ SameRows
  BY <1>1, TableKeeps DEF SessionInv
<1>3. CASE cfg = Off
  BY <1>1, <1>2, <1>3, Answered DEF RequireConfigured
<1>4. CASE cfg # Off
  BY <1>1, <1>4, PassesOn DEF RequireConfigured
<1> QED BY <1>3, <1>4

LEMMA GuardKeeps ==
  ASSUME SessionInv, NEW r \in Requests, Guard(r)
  PROVE  SessionInv'
<1> DEFINE allowed == \/ cfg = Off
                      \/ req[r].ident = "owner"
                      \/ req[r].ident = "member" /\ req[r].route = "auth"
           pc == IF req[r].route = "revoke" THEN "revoking" ELSE "passed"
<1>1. req[r].pc = "guard" /\ UNCHANGED <<clock, maxLife, cfg, rows, minted, gone, allowance>>
  BY DEF Guard
<1>2. TableInv' /\ SameRows
  BY <1>1, TableKeeps DEF SessionInv
<1>3. CASE ~allowed
  <2>1. Becomes(r, Idle)
    BY <1>3 DEF Guard
  <2> QED BY <1>1, <1>2, <2>1, Answered
<1>4. CASE allowed
  <2>1. Becomes(r, [req[r] EXCEPT !.pc = pc])
    BY <1>4 DEF Guard
  <2>2. req[r].route # "auth" => cfg = Off \/ req[r].ident = "owner"
    BY <1>4
  <2>3. pc \in {"guard", "revoking", "passed"}
    OBVIOUS
  <2> HIDE DEF pc
  <2> QED BY <1>1, <2>1, <2>2, <2>3, PassesOn
<1> QED BY <1>3, <1>4

LEMMA AnswersKeeps ==
  ASSUME SessionInv, NEW r \in Requests, Answers(r)
  PROVE  SessionInv'
<1>1. UNCHANGED <<clock, maxLife, cfg, rows, minted, gone, allowance>> /\ Becomes(r, Idle)
  BY DEF Answers
<1>2. TableInv' /\ SameRows
  BY <1>1, TableKeeps DEF SessionInv
<1> QED BY <1>1, <1>2, Answered

\* Rows are deleted, and their sessions are gone.
LEMMA RowsGo ==
  ASSUME TableInv, NEW D, D \subseteq minted, UNCHANGED <<clock, maxLife, minted, allowance>>,
         rows' = [t \in DOMAIN rows \ D |-> rows[t]], gone' = gone \cup D
  PROVE  TableInv' /\ SameRows
<1>1. DOMAIN rows' = DOMAIN rows \ D /\ \A s \in DOMAIN rows' : rows'[s] = rows[s]
  OBVIOUS
<1>2. Clamped'
  BY <1>1 DEF TableInv, Clamped
<1> QED BY <1>1, <1>2 DEF TableInv, SameRows, AllowanceInv

LEMMA RevokesKeeps ==
  ASSUME SessionInv, NEW r \in Requests, NEW s \in minted, Revokes(r, s)
  PROVE  SessionInv'
<1>1. /\ UNCHANGED <<clock, maxLife, cfg, minted, allowance>> /\ Becomes(r, Idle)
      /\ rows' = [t \in DOMAIN rows \ {s} |-> rows[t]] /\ gone' = gone \cup {s}
  BY DEF Revokes
<1>2. TableInv' /\ SameRows
  BY <1>1, RowsGo DEF SessionInv
<1> QED BY <1>1, <1>2, Answered

\* No request moves: a session is issued, logged out or swept, or time passes.
LEMMA NoRequestMoves ==
  ASSUME SessionInv, UNCHANGED <<maxLife, cfg, req>>, clock <= clock', TableInv', SameRows,
         gone \subseteq gone', minted \subseteq minted'
  PROVE  SessionInv'
<1>1. Shape'
  BY DEF SessionInv, Shape
<1>2. ASSUME NEW r \in Requests PROVE RequestInv(r)'
  <2>1. RequestInv(r) /\ req'[r] = req[r] /\ clock \in Nat /\ clock' \in Nat
    BY DEF SessionInv, TableInv
  <2> QED BY <2>1, RequestKeeps
<1> QED BY <1>1, <1>2 DEF SessionInv

LEMMA LogoutKeeps ==
  ASSUME SessionInv, NEW s, Logout(s)
  PROVE  SessionInv'
<1>1. /\ s \in minted /\ UNCHANGED <<clock, maxLife, cfg, minted, allowance, req>>
      /\ rows' = [t \in DOMAIN rows \ {s} |-> rows[t]] /\ gone' = gone \cup {s}
  BY DEF Logout
<1>2. TableInv' /\ SameRows
  BY <1>1, RowsGo DEF SessionInv
<1>3. clock <= clock'
  BY <1>1 DEF SessionInv, TableInv
<1> QED BY <1>1, <1>2, <1>3, NoRequestMoves

LEMMA SweepKeeps ==
  ASSUME SessionInv, NEW t, Sweep(t)
  PROVE  SessionInv'
<1>1. /\ UNCHANGED <<clock, maxLife, cfg, minted, allowance, req>>
      /\ rows' = [s \in DOMAIN rows \ Sweeps(t) |-> rows[s]] /\ gone' = gone \cup Sweeps(t)
  BY DEF Sweep
<1>2. Sweeps(t) \subseteq minted
  BY DEF Sweeps, SessionInv, TableInv
<1>3. TableInv' /\ SameRows
  BY <1>1, <1>2, RowsGo DEF SessionInv
<1>4. clock <= clock'
  BY <1>1 DEF SessionInv, TableInv
<1> QED BY <1>1, <1>3, <1>4, NoRequestMoves

LEMMA IssueSessionKeeps ==
  ASSUME SessionInv, NEW s \in Sessions, NEW groups, IssueSession(s, groups)
  PROVE  SessionInv'
<1> DEFINE e == ExpiryFor(clock, clock)
           x == [created |-> clock, seen |-> clock, expires |-> e,
                 groups |-> groups, owner |-> IsOwner(cfg, groups)]
<1>1. /\ s \notin minted /\ minted' = minted \cup {s}
      /\ UNCHANGED <<clock, maxLife, cfg, gone, req>>
  BY DEF IssueSession
<1>2. TableInv /\ clock \in Nat /\ clock # Unknown
  BY DEF SessionInv, TableInv, Unknown
<1>3. /\ DOMAIN rows' = DOMAIN rows \cup {s} /\ rows'[s] = x
      /\ \A t \in DOMAIN rows : rows'[t] = rows[t]
  BY <1>1, <1>2 DEF IssueSession, TableInv
<1>4. e \in Nat /\ e <= clock + maxLife
  BY <1>2, ExpiryForFacts
<1> HIDE DEF e
<1>5. DOMAIN rows'[s] = RowFields /\ rows'[s].created = clock /\ rows'[s].expires = e
  BY <1>3 DEF RowFields
<1> HIDE DEF x
<1>a. /\ allowance' \in [Sessions -> Nat] /\ allowance'[s] = maxLife
      /\ \A t \in Sessions \ {s} : allowance'[t] = allowance[t]
  BY <1>2, SessionAssumption DEF IssueSession, TableInv, AllowanceInv
<1>b. AllowanceInv'
  BY <1>1, <1>2, <1>a, SessionAssumption DEF TableInv, AllowanceInv
<1>6. Clamped'
  <2> SUFFICES ASSUME NEW t \in DOMAIN rows' \ Legacy
               PROVE  rows'[t].expires <= rows'[t].created + allowance'[t]
    BY DEF Clamped
  <2>1. CASE t = s
    BY <2>1, <1>4, <1>5, <1>a
  <2>2. CASE t # s
    BY <2>2, <1>2, <1>3, <1>a DEF TableInv, AllowanceInv, Clamped
  <2> QED BY <2>1, <2>2
<1>7. ASSUME NEW t \in DOMAIN rows'
      PROVE  /\ DOMAIN rows'[t] = RowFields /\ rows'[t].created \in Nat /\ rows'[t].expires \in Nat
             /\ t \notin Legacy => rows'[t].created # Unknown
  BY <1>2, <1>3, <1>4, <1>5 DEF TableInv
<1>8. TableInv'
  BY <1>1, <1>2, <1>3, <1>6, <1>7, <1>b DEF TableInv, Unknown
<1>9. SameRows
  BY <1>1, <1>3 DEF SameRows
<1> QED BY <1>1, <1>2, <1>8, <1>9, NoRequestMoves

LEMMA TickKeeps == ASSUME SessionInv, Tick PROVE SessionInv'
<1>1. clock \in Nat /\ clock' = clock + 1
  BY DEF Tick, SessionInv, TableInv
<1>2. clock <= clock' /\ clock' \in Nat \ {0}
  BY <1>1
<1>3. TableInv' /\ SameRows
  BY <1>2 DEF Tick, SessionInv, TableInv, SameRows, AllowanceInv, Clamped
<1> QED BY <1>2, <1>3, NoRequestMoves DEF Tick

LEMMA ConfigureKeeps == ASSUME SessionInv, NEW p, Configure(p) PROVE SessionInv'
<1>1. UNCHANGED <<clock, maxLife, rows, minted, gone, allowance>>
  BY DEF Configure
<1>2. TableInv' /\ clock \in Nat /\ TableInv
  BY <1>1, TableKeeps DEF SessionInv, TableInv
<1>3. ASSUME NEW r \in Requests PROVE RequestInv(r)' /\ DOMAIN req'[r] = Fields
  <2>1. CASE req[r].pc = "idle"
    <3>1. req'[r] = Idle
      BY <2>1 DEF Configure
    <3> QED BY <1>2, <3>1, IdleFacts, IdleRequest
  <2>2. CASE req[r].pc # "idle"
    <3>1. RequestInv(r) /\ DOMAIN req[r] = Fields
      BY DEF SessionInv, Shape
    <3>2. req'[r] = [req[r] EXCEPT !.steady = FALSE]
      BY <2>2 DEF Configure
    <3>3. /\ DOMAIN req'[r] = Fields /\ req'[r].steady = FALSE
          /\ \A f \in Fields \ {"steady"} : req'[r][f] = req[r][f]
      BY <3>1, <3>2 DEF Fields
    <3>4. LET y == req'[r] IN
            /\ y.pc = req[r].pc /\ y.cookie = req[r].cookie /\ y.now = req[r].now
            /\ y.ident = req[r].ident /\ y.wasGone = req[r].wasGone /\ y.began = req[r].began
            /\ y.prov = req[r].prov /\ y.row = req[r].row
      BY <3>3 DEF Fields
    <3>5. GoneOf(r)' /\ ReadOf(r)' /\ CapOf(r)'
      BY <1>1, <3>1, <3>4 DEF RequestInv, GoneOf, ReadOf, CapOf
    <3>6. OwnerOf(r)'
      BY <3>1, <3>3, <3>4 DEF RequestInv, OwnerOf, IsOwner
    <3> QED BY <3>3, <3>5, <3>6 DEF RequestInv
  <2> QED BY <2>1, <2>2
<1>4. Shape'
  BY <1>3 DEF Configure, Shape
<1> QED BY <1>2, <1>3, <1>4 DEF SessionInv

LEMMA RestartKeeps == ASSUME SessionInv, NEW m \in Lifetimes, Restart(m) PROVE SessionInv'
<1>0. TableInv /\ m \in Nat /\ maxLife' = m /\ UNCHANGED <<clock, rows, minted, gone>>
  BY SessionAssumption DEF Restart, SessionInv
<1>a. ASSUME NEW s \in Sessions
      PROVE  /\ allowance[s] \in Nat /\ allowance'[s] \in Nat /\ allowance[s] <= allowance'[s]
             /\ s \in minted => m <= allowance'[s]
  BY <1>0 DEF Restart, TableInv, AllowanceInv
<1>b. AllowanceInv'
  BY <1>0, <1>a DEF Restart, TableInv, AllowanceInv
<1>c. Clamped'
  <2> SUFFICES ASSUME NEW s \in DOMAIN rows \ Legacy
               PROVE  rows[s].expires <= rows[s].created + allowance'[s]
    BY <1>0 DEF Clamped
  <2>1. s \in Sessions /\ rows[s].expires \in Nat /\ rows[s].created \in Nat
        /\ rows[s].expires <= rows[s].created + allowance[s]
    BY <1>0 DEF TableInv, AllowanceInv, Clamped
  <2> QED BY <1>a, <2>1
<1>1. TableInv'
  BY <1>0, <1>b, <1>c DEF TableInv
<1>2. \A r \in Requests : req'[r] = Idle
  BY DEF Restart
<1>3. Shape'
  BY <1>2, IdleFacts DEF Restart, Shape
<1> QED BY <1>1, <1>2, <1>3, IdleRequest DEF SessionInv

LEMMA StutterKeeps == ASSUME SessionInv, UNCHANGED vars PROVE SessionInv'
<1>1. TableInv' /\ SameRows /\ clock <= clock'
  BY TableKeeps DEF vars, SessionInv, TableInv
<1> QED BY <1>1, NoRequestMoves DEF vars

\* The inductive invariant of sessions and requests: it relates what a request
\* read to what is stored, through every revocation, logout, sweep, touch,
\* reconfiguration and restart.
THEOREM SessionInductive == Spec => []SessionInv
<1>1. Init => SessionInv
  BY SessionStarts
<1>2. SessionInv /\ [Next]_vars => SessionInv'
  <2> SUFFICES ASSUME SessionInv, [Next]_vars PROVE SessionInv'
    OBVIOUS
  <2>1. ASSUME NEW r \in Requests, NEW c, NEW route, RequestBegins(r, c, route) PROVE SessionInv'
    BY <2>1, RequestBeginsKeeps
  <2>2. ASSUME NEW r \in Requests, Handles(r) PROVE SessionInv'
    BY <2>2, LookupFindsKeeps, LookupMissesKeeps, ChecksKeeps, TouchesKeeps,
       RequireConfiguredKeeps, GuardKeeps, AnswersKeeps, RevokesKeeps DEF Handles
  <2>3. ASSUME NEW s \in Sessions, NEW groups, IssueSession(s, groups) PROVE SessionInv'
    BY <2>3, IssueSessionKeeps
  <2>4. ASSUME NEW s, Logout(s) PROVE SessionInv'
    BY <2>4, LogoutKeeps
  <2>5. ASSUME NEW t, Sweep(t) PROVE SessionInv'
    BY <2>5, SweepKeeps
  <2>6. ASSUME NEW p, Configure(p) PROVE SessionInv'
    BY <2>6, ConfigureKeeps
  <2>7. ASSUME NEW m \in Lifetimes, Restart(m) PROVE SessionInv'
    BY <2>7, RestartKeeps
  <2>8. CASE Tick
    BY <2>8, TickKeeps
  <2>9. CASE UNCHANGED vars
    BY <2>9, StutterKeeps
  <2> QED BY <2>1, <2>2, <2>3, <2>4, <2>5, <2>6, <2>7, <2>8, <2>9 DEF Next
<1> QED BY <1>1, <1>2, PTL DEF Spec

\* DeleteSession, DeleteSessionByToken and DeleteExpiredSessions are final: the
\* UPDATE of a late TouchSession brings no row back, and no request that begins
\* later is given the identity.
THEOREM RevokedStaysOutCorrect == Spec => []RevokedStaysOut
<1>1. SessionInv => RevokedStaysOut
  BY DEF SessionInv, TableInv, RequestInv, GoneOf, RevokedStaysOut
<1> QED BY <1>1, SessionInductive, PTL

\* Policy.Live decides by the row's age under the cap in force: no request that
\* begins at or after it is given an identity, whatever expiry is stored.
THEOREM AbsoluteCapCorrect == Spec => []AbsoluteCap
<1>1. SessionInv => AbsoluteCap
  BY DEF SessionInv, RequestInv, CapOf, AbsoluteCap
<1> QED BY <1>1, SessionInductive, PTL

\* resolveSession re-derives ownership under the provider it was given, so the
\* guards of an owner route let pass who is owner as configured.
THEOREM OwnerAsConfiguredCorrect == Spec => []OwnerAsConfigured
<1>1. SessionInv => OwnerAsConfigured
  BY DEF SessionInv, RequestInv, OwnerOf, OwnerAsConfigured
<1> QED BY <1>1, SessionInductive, PTL

\* ExpiryFor clamps every expiry that is stored, so the sweep takes each session
\* as soon as it is as old as any cap in force since its sign-in allowed, however
\* often it was touched.
THEOREM SweptOnScheduleCorrect == Spec => []SweptOnSchedule
<1>1. SessionInv => SweptOnSchedule
  <2> SUFFICES ASSUME SessionInv, NEW s \in DOMAIN rows \ Legacy,
                      clock >= rows[s].created + allowance[s]
               PROVE  s \in Sweeps(clock)
    BY DEF SweptOnSchedule
  <2>1. /\ rows[s].expires <= rows[s].created + allowance[s] /\ clock \in Nat
        /\ rows[s].expires \in Nat /\ rows[s].created \in Nat /\ allowance[s] \in Nat
    BY DEF SessionInv, TableInv, AllowanceInv, Clamped
  <2> QED BY <2>1 DEF Sweeps
<1> QED BY <1>1, SessionInductive, PTL
=============================================================================
