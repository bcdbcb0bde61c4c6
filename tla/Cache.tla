-------------------------------- MODULE Cache --------------------------------
(***************************************************************************)
(* cache.Cache (cache/cache.go): a TTL cache with one synchronous fetch at *)
(* a time per cold key, background revalidation of stale keys, Invalidate  *)
(* after a mutation and FIFO eviction.                                     *)
(*                                                                         *)
(* The upstream is a version per key; a value is the version its fetch     *)
(* read. Time is what expires an entry, at any moment after it was         *)
(* published (a ttl may be zero or shorter than a scheduling delay). Each  *)
(* critical section of entry.mu or Cache.mu is one step; entry.fetch is    *)
(* held by the caller that is past FetchLocks.                             *)
(***************************************************************************)
EXTENDS Integers, Sequences, FiniteSets

CONSTANTS
  Keys, Callers, Revalidators,
  Types,        \* the Go types callers ask for
  TypeOf,       \* the type each caller asks for
  MaxEntries,   \* Cache.maxEntries
  MaxObjs,      \* bound: entries ever allocated
  MaxVersion,   \* bound: versions of the upstream
  MaxOps        \* bound: calls of Fetch

ASSUME CacheAssumption ==
  /\ MaxEntries \in Nat \ {0} /\ MaxObjs \in Nat /\ MaxVersion \in Nat /\ MaxOps \in Nat
  /\ TypeOf \in [Callers -> Types]
  /\ Callers \cap Revalidators = {}

VARIABLES
  origin,   \* the upstream's version of each key
  entries,  \* Cache.entries: the entry of each key, 0 for none
  order,    \* Cache.order
  nobj,     \* entries allocated so far
  objs,     \* every entry, evicted ones included
  pc, key, obj, gen, got,   \* the locals of callers and revalidators,
  want,     \* and the type parameter they were called with
  ops,      \* calls of Fetch so far
  sealed,   \* history: the newest version whose Invalidate has returned
  floor     \* history: sealed[key] when the caller's Fetch began

Procs == Callers \cup Revalidators
mapVars == <<entries, order, nobj>>
locVars == <<key, obj, gen, got, want>>
cacheVars == <<origin, mapVars, objs, pc, locVars, ops, sealed, floor>>

NewEntry == [val |-> 0, typ |-> CHOOSE t \in Types : TRUE, fresh |-> FALSE,
             loaded |-> FALSE, refreshing |-> FALSE, failed |-> FALSE, gen |-> 0]

Goto(p, s) == pc' = [pc EXCEPT ![p] = s]

\* The entry a process works on.
E(p) == objs[obj[p]]

\* The caller holding entry.fetch of o, if any.
InFetch(o) == {c \in Callers : obj[c] = o /\ pc[c] \in {"recheck", "gen", "fn", "publish"}}

\* The revalidations of o in flight.
Refreshing(o) == {r \in Revalidators : obj[r] = o /\ pc[r] \in {"gen", "fn", "publish"}}

CacheInit ==
  /\ origin = [k \in Keys |-> 1]
  /\ entries = [k \in Keys |-> 0] /\ order = <<>> /\ nobj = 0
  /\ objs = [o \in 1..MaxObjs |-> NewEntry]
  /\ pc = [p \in Procs |-> "idle"]
  /\ key = [p \in Procs |-> CHOOSE k \in Keys : TRUE]
  /\ obj = [p \in Procs |-> 0]
  /\ gen = [p \in Procs |-> 0]
  /\ got = [p \in Procs |-> 0]
  /\ want = [p \in Procs |-> IF p \in Callers THEN TypeOf[p] ELSE CHOOSE t \in Types : TRUE]
  /\ ops = 0
  /\ sealed = [k \in Keys |-> 0]
  /\ floor = [c \in Callers |-> 0]
-----------------------------------------------------------------------------
(* Plausible mistakes in this code, for checking that the properties see them *)

PublishedMut_IgnoresGen(p) ==
  [E(p) EXCEPT !.val = got[p], !.typ = want[p], !.fresh = TRUE, !.loaded = TRUE, !.failed = FALSE]

InvalidatedMut_KeepsGen(e) == [e EXCEPT !.loaded = FALSE]

ClaimedMut_NoClaim(e) == e
-----------------------------------------------------------------------------
(* Pieces shared by the operations                                         *)

\* entryFor under Cache.mu: the key's entry, or a new one, evicting the
\* oldest key when that goes over the cap.
EntryFor(k) ==
  IF entries[k] # 0 THEN UNCHANGED mapVars
  ELSE /\ nobj < MaxObjs
       /\ nobj' = nobj + 1
       /\ LET added == Append(order, k)
              over  == Len(added) > MaxEntries
          IN /\ order' = IF over THEN Tail(added) ELSE added
             /\ entries' = [j \in Keys |-> IF j = k THEN nobj'
                                           ELSE IF over /\ j = Head(added) THEN 0
                                           ELSE entries[j]]

\* load on a stale entry, claiming the refresh for this caller.
Claimed(e) == [e EXCEPT !.refreshing = TRUE]

\* A successful fetch, published only if the key was not invalidated since
\* its generation was read.
Published(p) ==
  IF E(p).gen # gen[p] THEN E(p)
  ELSE [E(p) EXCEPT !.val = got[p], !.typ = want[p],
                    !.fresh = TRUE, !.loaded = TRUE, !.failed = FALSE]

\* Invalidate under entry.mu.
Invalidated(e) == [e EXCEPT !.loaded = FALSE, !.gen = @ + 1]

Store(p, e) == objs' = [objs EXCEPT ![obj[p]] = e]
-----------------------------------------------------------------------------
(* Fetch                                                                   *)

FetchBegins(c, k) ==
  /\ pc[c] \in {"idle", "done"} /\ ops < MaxOps
  /\ ops' = ops + 1
  /\ EntryFor(k)
  /\ key' = [key EXCEPT ![c] = k]
  /\ obj' = [obj EXCEPT ![c] = entries'[k]]
  /\ got' = [got EXCEPT ![c] = 0]
  /\ floor' = [floor EXCEPT ![c] = sealed[k]]
  /\ Goto(c, "load")
  /\ UNCHANGED <<origin, objs, gen, want, sealed>>

Mismatch(c) == E(c).loaded /\ E(c).typ # want[c]
Hit(c) == E(c).loaded /\ E(c).typ = want[c]
Stale(c) == Hit(c) /\ ~E(c).fresh

\* load, and then load again under entry.fetch: ErrTypeMismatch.
FetchMismatch(c) ==
  /\ pc[c] \in {"load", "recheck"} /\ Mismatch(c)
  /\ Goto(c, "done")
  /\ UNCHANGED <<origin, mapVars, objs, locVars, ops, sealed, floor>>

\* A fresh value, or a stale one whose refresh somebody has claimed.
FetchHits(c) ==
  /\ pc[c] \in {"load", "recheck"} /\ Hit(c) /\ (E(c).fresh \/ E(c).refreshing)
  /\ got' = [got EXCEPT ![c] = E(c).val]
  /\ Goto(c, "done")
  /\ UNCHANGED <<origin, mapVars, objs, key, obj, gen, want, ops, sealed, floor>>

\* A stale value: this caller claims the refresh and starts it.
FetchSpawns(c, r) ==
  /\ pc[c] = "load" /\ Stale(c) /\ ~E(c).refreshing
  /\ pc[r] = "idle"
  /\ Store(c, Claimed(E(c)))
  /\ pc' = [pc EXCEPT ![c] = "done", ![r] = "gen"]
  /\ key' = [key EXCEPT ![r] = key[c]]
  /\ obj' = [obj EXCEPT ![r] = obj[c]]
  /\ want' = [want EXCEPT ![r] = want[c]]
  /\ got' = [got EXCEPT ![c] = E(c).val]
  /\ UNCHANGED <<origin, mapVars, gen, ops, sealed, floor>>

\* The same under entry.fetch: Fetch drops load's `spawn` result.
RecheckClaims(c) ==
  /\ pc[c] = "recheck" /\ Stale(c) /\ ~E(c).refreshing
  /\ Store(c, Claimed(E(c)))
  /\ got' = [got EXCEPT ![c] = E(c).val]
  /\ Goto(c, "done")
  /\ UNCHANGED <<origin, mapVars, key, obj, gen, want, ops, sealed, floor>>

\* Cold: queue for entry.fetch, and look again once it is held.
FetchQueues(c) ==
  /\ pc[c] = "load" /\ ~E(c).loaded
  /\ Goto(c, "queue")
  /\ UNCHANGED <<origin, mapVars, objs, locVars, ops, sealed, floor>>

FetchLocks(c) ==
  /\ pc[c] = "queue" /\ InFetch(obj[c]) = {}
  /\ Goto(c, "recheck")
  /\ UNCHANGED <<origin, mapVars, objs, locVars, ops, sealed, floor>>

RecheckMisses(c) ==
  /\ pc[c] = "recheck" /\ ~E(c).loaded
  /\ Goto(c, "gen")
  /\ UNCHANGED <<origin, mapVars, objs, locVars, ops, sealed, floor>>

\* The generation is read before fn is called, by Fetch and revalidate alike.
ReadsGen(p) ==
  /\ pc[p] = "gen"
  /\ gen' = [gen EXCEPT ![p] = E(p).gen]
  /\ Goto(p, "fn")
  /\ UNCHANGED <<origin, mapVars, objs, key, obj, got, want, ops, sealed, floor>>

\* fn reads the upstream, somewhere between its call and its return.
FnReads(p) ==
  /\ pc[p] = "fn"
  /\ got' = [got EXCEPT ![p] = origin[key[p]]]
  /\ Goto(p, "publish")
  /\ UNCHANGED <<origin, mapVars, objs, key, obj, gen, want, ops, sealed, floor>>

\* fn fails or panics under a cold Fetch: nothing is cached.
FnFailsCold(c) ==
  /\ pc[c] = "fn"
  /\ Goto(c, "done")
  /\ UNCHANGED <<origin, mapVars, objs, locVars, ops, sealed, floor>>

FetchPublishes(c) ==
  /\ pc[c] = "publish"
  /\ Store(c, Published(c))
  /\ Goto(c, "done")
  /\ UNCHANGED <<origin, mapVars, locVars, ops, sealed, floor>>
-----------------------------------------------------------------------------
(* revalidate                                                              *)

RevalidateEnds(r) ==
  /\ pc[r] = "publish"
  /\ Store(r, [Published(r) EXCEPT !.refreshing = FALSE])
  /\ Goto(r, "idle")
  /\ UNCHANGED <<origin, mapVars, locVars, ops, sealed, floor>>

\* fn failed or panicked: the old value is kept for retryBackoff and marked.
RevalidateFails(r) ==
  /\ pc[r] = "fn"
  /\ Store(r, IF E(r).gen # gen[r] THEN [E(r) EXCEPT !.refreshing = FALSE]
              ELSE [E(r) EXCEPT !.refreshing = FALSE, !.failed = TRUE, !.fresh = TRUE])
  /\ Goto(r, "idle")
  /\ UNCHANGED <<origin, mapVars, locVars, ops, sealed, floor>>
-----------------------------------------------------------------------------
(* A mutation of the upstream and the Invalidate that follows it           *)

Mutates(c, k) ==
  /\ pc[c] \in {"idle", "done"} /\ origin[k] < MaxVersion
  /\ origin' = [origin EXCEPT ![k] = @ + 1]
  /\ key' = [key EXCEPT ![c] = k]
  /\ got' = [got EXCEPT ![c] = origin'[k]]
  /\ Goto(c, "invalidate")
  /\ UNCHANGED <<mapVars, objs, obj, gen, want, ops, sealed, floor>>

InvalidateFinds(c) ==
  /\ pc[c] = "invalidate"
  /\ EntryFor(key[c])
  /\ obj' = [obj EXCEPT ![c] = entries'[key[c]]]
  /\ Goto(c, "drop")
  /\ UNCHANGED <<origin, objs, key, gen, got, want, ops, sealed, floor>>

InvalidateDrops(c) ==
  /\ pc[c] = "drop"
  /\ Store(c, Invalidated(E(c)))
  /\ sealed' = [sealed EXCEPT ![key[c]] = IF got[c] > @ THEN got[c] ELSE @]
  /\ Goto(c, "idle")
  /\ UNCHANGED <<origin, mapVars, locVars, ops, floor>>

Expires(o) ==
  /\ objs[o].loaded /\ objs[o].fresh
  /\ objs' = [objs EXCEPT ![o].fresh = FALSE]
  /\ UNCHANGED <<origin, mapVars, pc, locVars, ops, sealed, floor>>
-----------------------------------------------------------------------------
Fetching(c) ==
  \/ FetchMismatch(c) \/ FetchHits(c) \/ RecheckClaims(c) \/ FetchQueues(c)
  \/ FetchLocks(c) \/ RecheckMisses(c) \/ FnFailsCold(c) \/ FetchPublishes(c)
  \/ ReadsGen(c) \/ FnReads(c)
  \/ \E r \in Revalidators : FetchSpawns(c, r)

Revalidate(r) == ReadsGen(r) \/ FnReads(r) \/ RevalidateEnds(r) \/ RevalidateFails(r)

CacheNext ==
  \/ \E c \in Callers :
       \/ \E k \in Keys : FetchBegins(c, k) \/ Mutates(c, k)
       \/ Fetching(c) \/ InvalidateFinds(c) \/ InvalidateDrops(c)
  \/ \E r \in Revalidators : Revalidate(r)
  \/ \E o \in 1..nobj : Expires(o)

CacheSpec == CacheInit /\ [][CacheNext]_cacheVars
-----------------------------------------------------------------------------
(* Properties                                                              *)

\* Every variable has its type: entries allocated and evicted, the locals of
\* Fetch, revalidate and Invalidate, generations that only count up from zero.
CacheTypeOK ==
  /\ origin \in [Keys -> 1..MaxVersion]
  /\ nobj \in 0..MaxObjs
  /\ entries \in [Keys -> 0..nobj]
  /\ order \in Seq(Keys)
  /\ objs \in [1..MaxObjs -> [val : 0..MaxVersion, typ : Types, fresh : BOOLEAN,
                              loaded : BOOLEAN, refreshing : BOOLEAN, failed : BOOLEAN,
                              gen : Nat]]
  /\ pc \in [Procs -> {"idle", "load", "queue", "recheck", "gen", "fn", "publish",
                       "done", "invalidate", "drop"}]
  /\ key \in [Procs -> Keys] /\ obj \in [Procs -> 0..nobj]
  /\ gen \in [Procs -> Nat] /\ got \in [Procs -> 0..MaxVersion]
  /\ want \in [Procs -> Types]
  /\ ops \in 0..MaxOps
  /\ sealed \in [Keys -> 0..MaxVersion] /\ floor \in [Callers -> 0..MaxVersion]

\* Invalidate is "used after a command mutates the underlying state, where
\* the caller needs to see its own change": a Fetch that begins after an
\* Invalidate has returned never hands out a version older than the
\* mutation, whatever fetches, refreshes and evictions were in flight.
ReadYourWrites ==
  \A c \in Callers : pc[c] = "done" /\ got[c] # 0 => got[c] >= floor[c]

\* "a burst of reads on a stale key spawns exactly one refresh": never two
\* revalidations of one entry in flight, invalidations in between included.
OneRefresh == \A o \in 1..nobj : Cardinality(Refreshing(o)) <= 1

\* "refreshing is true while a background revalidation is in flight", so it
\* is never left true with nobody to clear it: that "would wedge the key on
\* its stale value forever".
RefreshOwned == \A o \in 1..nobj : objs[o].refreshing => Refreshing(o) # {}
=============================================================================
