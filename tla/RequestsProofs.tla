--------------------------- MODULE RequestsProofs ---------------------------
(***************************************************************************)
(* Proofs about what overlapping requests share, for any number of them:   *)
(* the readiness checks (Health), the discovery document (Discovery) and a *)
(* resource edited under If-Match (IfMatch).                               *)
(***************************************************************************)
EXTENDS Health, Discovery, IfMatch, FiniteSetTheorems, TLAPS
-----------------------------------------------------------------------------
(* health.Registry. OneCall counts the calls that are inside fn; what is    *)
(* inductive is stronger: the flag has exactly one holder while it is set,  *)
(* from the swap to the release, and the sweep of that holder has not seen  *)
(* its result.                                                              *)

FlagInv ==
  /\ \A c \in Checks, s, t \in Sweeps : Holds(s, c) /\ Holds(t, c) => s = t
  /\ \A c \in Checks : running[c] <=> \E s \in Sweeps : Holds(s, c)
  /\ \A c \in Checks, s \in Sweeps : Holds(s, c) => ans[s][c] \in {"waiting", "deadline"}

HealthInv == HealthTypeOK /\ FlagInv

\* A set whose elements are all the same has at most one: that is what the
\* count of OneCall comes to.
LEMMA AtMostOne ==
  ASSUME NEW S, \A s, t \in S : s = t PROVE Cardinality(S) <= 1
<1>1. CASE S = {}
  <2>1. Cardinality(S) = 0
    BY <1>1, FS_EmptySet
  <2> QED BY <2>1
<1>2. CASE S # {}
  <2>1. PICK s \in S : TRUE
    BY <1>2
  <2>2. S = {s}
    BY <2>1
  <2>3. Cardinality(S) = 1
    BY <2>2, FS_Singleton
  <2> QED BY <2>3
<1> QED BY <1>1, <1>2

\* Steps of the handler that leave the flags alone.
LEMMA SweepFlag ==
  ASSUME HealthInv, NEW s \in Sweeps,
         SweepBegins(s) \/ Expires(s) \/ SweepEnds(s) \/ Swaps(s) \/ Logs(s)
  PROVE  HealthInv'
<1>0. HealthTypeOK /\ FlagInv
  BY DEF HealthInv
<1>1. CASE SweepBegins(s)
  <2>1. HealthTypeOK'
    BY <1>0, <1>1 DEF HealthTypeOK, GoState, Answered, SweepBegins
  <2>2. \A c \in Checks : ~Holds(s, c)
    BY <1>1 DEF SweepBegins, Holds
  <2>3. \A t \in Sweeps : t # s => fn'[t] = fn[t] /\ ans'[t] = ans[t]
    BY <1>0, <1>1 DEF HealthTypeOK, SweepBegins
  <2>4. \A c \in Checks : fn'[s][c] = "none"
    BY <1>0, <1>1 DEF HealthTypeOK, SweepBegins
  <2>5. FlagInv'
    BY <1>0, <1>1, <2>2, <2>3, <2>4 DEF SweepBegins, FlagInv, Holds
  <2> QED BY <2>1, <2>5 DEF HealthInv
<1>2. CASE Expires(s) \/ SweepEnds(s) \/ Swaps(s) \/ Logs(s)
  <2>1. UNCHANGED <<running, fn, ans>>
    BY <1>2 DEF Expires, SweepEnds, Swaps, Logs
  <2>2. HealthTypeOK'
    BY <1>0, <1>2 DEF HealthTypeOK, Expires, SweepEnds, Swaps, Logs, Verdict
  <2>3. FlagInv'
    BY <1>0, <2>1 DEF FlagInv, Holds
  <2> QED BY <2>2, <2>3 DEF HealthInv
<1> QED BY <1>1, <1>2

\* The compare-and-swap: who finds the flag clear becomes its one holder.
LEMMA EntersFlag ==
  ASSUME HealthInv, NEW s \in Sweeps, NEW c \in Checks, Enters(s, c)
  PROVE  HealthInv'
<1>0. HealthTypeOK /\ FlagInv
  BY DEF HealthInv
<1>1. HealthTypeOK'
  BY <1>0 DEF HealthTypeOK, GoState, Answered, Enters
<1>2. ~Holds(s, c)
  BY <1>0 DEF FlagInv, Enters
<1>3. \A d \in Checks : running'[d] <=> running[d] \/ d = c
  BY <1>0 DEF HealthTypeOK, Enters
<1>4. \A t \in Sweeps, d \in Checks : ~(t = s /\ d = c) =>
        fn'[t][d] = fn[t][d] /\ ans'[t][d] = ans[t][d]
  BY <1>0 DEF HealthTypeOK, Enters
<1>5. CASE running[c]
  <2>1. fn'[s][c] = fn[s][c]
    BY <1>0, <1>5 DEF HealthTypeOK, Enters
  <2>2. FlagInv'
    BY <1>0, <1>2, <1>3, <1>4, <1>5, <2>1 DEF FlagInv, Holds
  <2> QED BY <1>1, <2>2 DEF HealthInv
<1>6. CASE ~running[c]
  <2>1. fn'[s][c] = "in_fn" /\ ans'[s][c] = "waiting"
    BY <1>0, <1>6 DEF HealthTypeOK, Enters
  <2>2. FlagInv'
    BY <1>0, <1>2, <1>3, <1>4, <1>6, <2>1 DEF FlagInv, Holds
  <2> QED BY <1>1, <2>2 DEF HealthInv
<1> QED BY <1>5, <1>6

\* The release: the flag falls with its one holder.
LEMMA ReleasesFlag ==
  ASSUME HealthInv, NEW s \in Sweeps, NEW c \in Checks, Releases(s, c)
  PROVE  HealthInv'
<1>0. HealthTypeOK /\ FlagInv
  BY DEF HealthInv
<1>1. HealthTypeOK'
  BY <1>0 DEF HealthTypeOK, GoState, Releases
<1>2. Holds(s, c)
  BY DEF Releases, Holds
<1>3. \A t \in Sweeps, d \in Checks : ~(t = s /\ d = c) => fn'[t][d] = fn[t][d]
  BY <1>0 DEF HealthTypeOK, Releases
<1>4. fn'[s][c] \in {"released_ok", "released_failed"}
  BY <1>0 DEF HealthTypeOK, Releases
<1>5. \A d \in Checks : running'[d] <=> running[d] /\ d # c
  BY <1>0 DEF HealthTypeOK, Releases
<1>6. FlagInv'
  BY <1>0, <1>2, <1>3, <1>4, <1>5 DEF Releases, FlagInv, Holds
<1> QED BY <1>1, <1>6 DEF HealthInv

\* fn comes back with the flag held, and the result is sent without it.
LEMMA ResultFlag ==
  ASSUME HealthInv, NEW s \in Sweeps, NEW c \in Checks, NEW out \in {"ok", "failed"},
         Sends(s, c) \/ FnReturns(s, c, out)
  PROVE  HealthInv'
<1>0. HealthTypeOK /\ FlagInv
  BY DEF HealthInv
<1>1. HealthTypeOK'
  <2>1. fn' \in [Sweeps -> [Checks -> GoState]]
    <3>1. CASE Sends(s, c)
      BY <1>0, <3>1 DEF HealthTypeOK, GoState, Sends
    <3>2. CASE FnReturns(s, c, out)
      BY <1>0, <3>2 DEF HealthTypeOK, GoState, FnReturns
    <3> QED BY <3>1, <3>2
  <2> QED BY <1>0, <2>1 DEF HealthTypeOK, Sends, FnReturns
<1>2. \A t \in Sweeps, d \in Checks : ~(t = s /\ d = c) => fn'[t][d] = fn[t][d]
  BY <1>0 DEF HealthTypeOK, Sends, FnReturns
<1>3. \/ fn[s][c] = "in_fn" /\ fn'[s][c] \in {"ok", "failed"}
      \/ /\ fn[s][c] \in {"released_ok", "released_failed"}
         /\ fn'[s][c] \in {"sent_ok", "sent_failed"}
  BY <1>0 DEF HealthTypeOK, Sends, FnReturns
<1>4. UNCHANGED <<running, ans>>
  BY DEF Sends, FnReturns
<1>5. FlagInv'
  BY <1>0, <1>2, <1>3, <1>4 DEF FlagInv, Holds
<1> QED BY <1>1, <1>5 DEF HealthInv

\* The select of runBounded: a result is seen only when it was sent.
LEMMA SelectFlag ==
  ASSUME HealthInv, NEW s \in Sweeps, NEW c \in Checks, Receives(s, c) \/ GivesUp(s, c)
  PROVE  HealthInv'
<1>0. HealthTypeOK /\ FlagInv
  BY DEF HealthInv
<1>1. HealthTypeOK'
  <2>1. ans' \in [Sweeps -> [Checks -> Answered \cup {"none", "waiting"}]]
    <3>1. CASE Receives(s, c)
      BY <1>0, <3>1 DEF HealthTypeOK, Answered, Receives
    <3>2. CASE GivesUp(s, c)
      BY <1>0, <3>2 DEF HealthTypeOK, Answered, GivesUp
    <3> QED BY <3>1, <3>2
  <2> QED BY <1>0, <2>1 DEF HealthTypeOK, Receives, GivesUp
<1>2. \A t \in Sweeps, d \in Checks : ~(t = s /\ d = c) => ans'[t][d] = ans[t][d]
  BY <1>0 DEF HealthTypeOK, Receives, GivesUp
<1>3. ans'[s][c] = "deadline" \/ fn[s][c] \in {"sent_ok", "sent_failed"}
  BY <1>0 DEF HealthTypeOK, Receives, GivesUp
<1>4. UNCHANGED <<running, fn>>
  BY DEF Receives, GivesUp
<1>5. FlagInv'
  BY <1>0, <1>2, <1>3, <1>4 DEF FlagInv, Holds
<1> QED BY <1>1, <1>5 DEF HealthInv

\* Every step of the registry preserves the holder of each flag.
THEOREM HealthInductive == HealthSpec => []HealthInv
<1>1. HealthInit => HealthInv
  BY DEF HealthInit, HealthInv, HealthTypeOK, FlagInv, Holds, GoState, Answered
<1>2. HealthInv /\ [HealthNext]_healthVars => HealthInv'
  <2>1. CASE HealthNext
    BY <2>1, SweepFlag, EntersFlag, ReleasesFlag, ResultFlag, SelectFlag
       DEF HealthNext, Handler, Goroutine
  <2>2. CASE UNCHANGED healthVars
    BY <2>2 DEF healthVars, HealthInv, HealthTypeOK, FlagInv, Holds
  <2> QED BY <2>1, <2>2
<1> QED BY <1>1, <1>2, PTL DEF HealthSpec

\* "A check is never entered twice concurrently" however many sweeps overlap,
\* and a held flag belongs to a call whose result no sweep has seen.
THEOREM OneCallCorrect == HealthSpec => []OneCall
<1>1. HealthInv => OneCall
  <2> SUFFICES ASSUME HealthInv, NEW c \in Checks
               PROVE  /\ Cardinality({s \in Sweeps : fn[s][c] = "in_fn"}) <= 1
                      /\ running[c] => \E s \in Sweeps :
                           Holds(s, c) /\ ans[s][c] \in {"waiting", "deadline"}
    BY DEF OneCall
  <2>1. \A s, t \in {r \in Sweeps : fn[r][c] = "in_fn"} : s = t
    BY DEF HealthInv, FlagInv, Holds
  <2> QED BY <2>1, AtMostOne DEF HealthInv, FlagInv
<1> QED BY <1>1, HealthInductive, PTL
-----------------------------------------------------------------------------
(* oidcauth.Provider. That the document is fetched once rests on the mutex: *)
(* whoever fetches holds it, found no document when it took it, and no one  *)
(* else can have brought one since.                                         *)

FetchInv ==
  /\ known => fetched = 1
  /\ ~known => fetched = 0
  /\ holder # NoVisit => ~known

DiscoveryInv == DiscoveryTypeOK /\ FetchInv

\* A request that leaves the mutex and the document alone.
LEMMA VisitFetch ==
  ASSUME DiscoveryInv, NEW v \in Visits,
         \/ \E w \in Wants : Visit(v, w)
         \/ DiscoverReuses(v) \/ CheckHealth(v) \/ VisitEnds(v)
  PROVE  DiscoveryInv'
<1> USE DEF DiscoveryInv, DiscoveryTypeOK, FetchInv
<1>1. PICK o \in Wants, p \in {"idle", "lock", "probe", "done"},
           g \in {"none", "url", "no_url", "unreachable", "rejected"} :
        visit' = [visit EXCEPT ![v] = [pc |-> p, want |-> o, got |-> g]]
  BY DEF Visit, DiscoverReuses, CheckHealth, VisitEnds, Answer, Usable, Wants, NoWant
<1>2. UNCHANGED <<known, holder, fetched>> /\ visit[v].pc # "fetch"
  BY DEF Visit, DiscoverReuses, CheckHealth, VisitEnds
<1> QED BY <1>1, <1>2

\* The three steps of the request that fetches.
LEMMA FetcherFetch ==
  ASSUME DiscoveryInv, NEW v \in Visits,
         DiscoverFetches(v) \/ DiscoverSucceeds(v) \/ DiscoverFails(v)
  PROVE  DiscoveryInv'
<1> USE DEF DiscoveryInv, DiscoveryTypeOK, FetchInv
<1>1. CASE DiscoverFetches(v)
  BY <1>1, DiscoveryAssumption DEF DiscoverFetches
<1>2. CASE DiscoverSucceeds(v)
  <2>0. PICK o \in {"url", "no_url"} : Answer(v, o)
    BY <1>2 DEF DiscoverSucceeds, Usable
  <2>1. visit' = [visit EXCEPT ![v] = [pc |-> "done", want |-> visit[v].want, got |-> o]]
    BY <2>0 DEF Answer
  <2>2. visit[v].pc = "fetch" /\ known' /\ holder' = NoVisit /\ fetched' = fetched + 1
    BY <1>2 DEF DiscoverSucceeds
  <2>3. known' \in BOOLEAN
    BY <1>2 DEF DiscoverSucceeds
  <2>4. DiscoveryTypeOK'
    BY <2>1, <2>2, <2>3, DiscoveryAssumption
  <2> QED BY <2>2, <2>4, DiscoveryAssumption
<1>3. CASE DiscoverFails(v)
  BY <1>3, DiscoveryAssumption DEF DiscoverFails, Answer
<1> QED BY <1>1, <1>2, <1>3

\* The document of a provider is fetched at most once, however many logins,
\* callbacks and logouts ask for it at the same time.
THEOREM FetchedOnceCorrect == DiscoverySpec => []FetchedOnce
<1>1. DiscoveryInit => DiscoveryInv
  <2> SUFFICES ASSUME DiscoveryInit PROVE DiscoveryInv
    OBVIOUS
  <2>1. visit \in [Visits -> [pc : {"idle", "lock", "fetch", "probe", "done"}, want : Wants,
                              got : {"none", "url", "no_url", "unreachable", "rejected"}]]
    BY DEF DiscoveryInit, NoWant, Wants
  <2>2. \A v \in Visits : visit[v].pc = "idle"
    BY DEF DiscoveryInit, NoWant
  <2> QED BY <2>1, <2>2, DiscoveryAssumption
          DEF DiscoveryInit, DiscoveryInv, DiscoveryTypeOK, FetchInv
<1>2. DiscoveryInv /\ [DiscoveryNext]_discoveryVars => DiscoveryInv'
  <2>1. CASE DiscoveryNext
    BY <2>1, VisitFetch, FetcherFetch DEF DiscoveryNext, VisitSteps
  <2>2. CASE UNCHANGED discoveryVars
    BY <2>2 DEF discoveryVars, DiscoveryInv, DiscoveryTypeOK, FetchInv
  <2> QED BY <2>1, <2>2
<1>3. DiscoveryInv => FetchedOnce
  BY DEF DiscoveryInv, FetchInv, FetchedOnce
<1> QED BY <1>1, <1>2, <1>3, PTL DEF DiscoverySpec
-----------------------------------------------------------------------------
(* fiberx's If-Match. Between the handler's check and its store the version *)
(* may move on. The invariant keeps what the check established: the version *)
(* it saw is one the header allows, which the condition of the store then   *)
(* ties to the version that is replaced.                                    *)

Validators == ({"version"} \X Nat) \cup ({Star, Garbage} \X {Unread})

EditorState == [pc : {"away", "editing", "sent", "checked", "ok", "412"},
                tag : Validators, header : Seq(Validators), seen : Int]

Justified(r) == r.pc = "checked" => CheckIfMatch(r.header, r.seen)

EditInv ==
  /\ resource \in Nat
  /\ editor \in [Editors -> EditorState]
  /\ \A e \in Editors : Justified(editor[e])

\* What a header may hold.
LEMMA HeaderTypes ==
  /\ \A v \in Nat : ETagForVersion(v) \in Validators
  /\ Validator(Star) \in Validators /\ Validator(Garbage) \in Validators
  /\ \A t \in Validators : /\ <<t>> \in Seq(Validators)
                           /\ <<Validator(Garbage), t>> \in Seq(Validators)
                           /\ <<t, Validator(Garbage)>> \in Seq(Validators)
BY DEF Validators, ETagForVersion, Validator, Star, Garbage, Unread

\* A client that starts over.
LEMMA FreshEditor ==
  ASSUME NEW p \in {"away", "editing", "ok", "412"}
  PROVE  /\ [NoEdit EXCEPT !.pc = p] \in EditorState /\ Justified([NoEdit EXCEPT !.pc = p])
         /\ NoEdit = [NoEdit EXCEPT !.pc = "away"]
<1> DEFINE r == [NoEdit EXCEPT !.pc = p]
<1>1. r = [pc |-> p, tag |-> Validator(Garbage), header |-> <<>>, seen |-> Unread]
  BY DEF NoEdit
<1>2. Validator(Garbage) \in Validators /\ <<>> \in Seq(Validators) /\ Unread \in Int
  BY HeaderTypes DEF Unread
<1>3. r \in EditorState /\ r.pc # "checked"
  BY <1>1, <1>2 DEF EditorState
<1> QED BY <1>3 DEF Justified, NoEdit

\* A step replaces the state of one client, and what it puts in is justified.
LEMMA EditStep ==
  ASSUME EditInv, NEW e \in Editors,
         \/ Reads(e) \/ Submits(e) \/ HandlerChecks(e) \/ EditEnds(e)
         \/ \E cond \in BOOLEAN : Stores(e, cond)
  PROVE  EditInv'
<1>0. resource \in Nat /\ editor[e] \in EditorState
  BY DEF EditInv
<1>1. ASSUME NEW r \in EditorState, Justified(r),
             editor' = [editor EXCEPT ![e] = r], resource' \in Nat
      PROVE  EditInv'
  <2>1. \A d \in Editors : editor'[d] = IF d = e THEN r ELSE editor[d]
    BY <1>1 DEF EditInv
  <2>2. editor' \in [Editors -> EditorState]
    BY <1>1 DEF EditInv
  <2>3. \A d \in Editors : Justified(editor'[d])
    BY <1>1, <2>1 DEF EditInv
  <2> QED BY <1>1, <2>2, <2>3 DEF EditInv
<1>2. CASE Reads(e)
  <2> DEFINE r == [NoEdit EXCEPT !.pc = "editing", !.tag = ETagForVersion(resource)]
  <2>1. [NoEdit EXCEPT !.pc = "editing"] \in EditorState /\ ETagForVersion(resource) \in Validators
    BY <1>0, FreshEditor, HeaderTypes
  <2>2. r \in EditorState /\ r.pc = "editing"
    BY <2>1 DEF EditorState
  <2> QED BY <1>0, <1>1, <1>2, <2>2 DEF Reads, Justified
<1>3. CASE Submits(e)
  <2>0. editor[e].tag \in Validators /\ <<>> \in Seq(Validators)
    BY <1>0 DEF EditorState
  <2>1. PICK h \in Seq(Validators) :
          editor' = [editor EXCEPT ![e].pc = "sent", ![e].header = h]
    BY <1>3, <2>0, HeaderTypes DEF Submits
  <2> DEFINE r == [editor[e] EXCEPT !.pc = "sent", !.header = h]
  <2>2. r \in EditorState /\ r.pc = "sent"
    BY <1>0, <2>1 DEF EditorState
  <2>3. editor' = [editor EXCEPT ![e] = r]
    BY <2>1 DEF EditInv
  <2> QED BY <1>0, <1>1, <1>3, <2>2, <2>3 DEF Submits, Justified
<1>4. CASE HandlerChecks(e)
  <2>1. CASE CheckIfMatch(editor[e].header, resource)
    <3> DEFINE r == [editor[e] EXCEPT !.pc = "checked", !.seen = resource]
    <3>0. resource \in Int
      BY <1>0
    <3>1. r \in EditorState /\ r.header = editor[e].header /\ r.seen = resource
      BY <1>0, <3>0 DEF EditorState
    <3>2. editor' = [editor EXCEPT ![e] = r] /\ resource' = resource
      BY <1>4, <2>1 DEF HandlerChecks, EditInv
    <3>3. Justified(r)
      BY <2>1, <3>1 DEF Justified
    <3> QED BY <1>0, <1>1, <3>1, <3>2, <3>3
  <2>2. CASE ~CheckIfMatch(editor[e].header, resource)
    BY <1>0, <1>1, <1>4, <2>2, FreshEditor DEF HandlerChecks
  <2> QED BY <2>1, <2>2
<1>5. CASE EditEnds(e)
  BY <1>0, <1>1, <1>5, FreshEditor DEF EditEnds
<1>6. ASSUME NEW cond \in BOOLEAN, Stores(e, cond) PROVE EditInv'
  <2> DEFINE r == [NoEdit EXCEPT !.pc = IF cond THEN "ok" ELSE "412"]
  <2>1. r \in EditorState /\ Justified(r)
    BY FreshEditor
  <2>2. resource' \in Nat /\ editor' = [editor EXCEPT ![e] = r]
    BY <1>0, <1>6 DEF Stores
  <2> QED BY <1>1, <2>1, <2>2
<1> QED BY <1>2, <1>3, <1>4, <1>5, <1>6

\* Every step keeps what a handler's check established.
LEMMA EditInductive == EditSpec => []EditInv
<1>1. EditInit => EditInv
  BY FreshEditor DEF EditInit, EditInv
<1>2. EditInv /\ [EditNext]_editVars => EditInv'
  <2>1. CASE EditNext
    BY <2>1, EditStep DEF EditNext, HandlerStores, HandlerSwaps
  <2>2. CASE UNCHANGED editVars
    BY <2>2 DEF editVars, EditInv
  <2> QED BY <2>1, <2>2
<1> QED BY <1>1, <1>2, PTL DEF EditSpec

\* A conditional write never replaces a version its precondition does not name,
\* whether the handler compares the version itself or leaves it to the store,
\* and whatever other clients store between its check and its own store.
THEOREM NoClobberCorrect == EditSpec => NoClobber
<1> DEFINE Kept ==
      \A e \in Editors :
        /\ editor'[e].pc = "ok" /\ editor[e].pc # "ok"
        /\ editor[e].header # <<>>
        /\ \A i \in DOMAIN editor[e].header : editor[e].header[i] # Validator(Star)
        => \E i \in DOMAIN editor[e].header :
             editor[e].header[i] = ETagForVersion(resource)
<1>1. EditInv /\ [EditNext]_editVars => [Kept]_editVars
  <2> SUFFICES ASSUME EditInv, EditNext, NEW e \in Editors,
                      editor'[e].pc = "ok", editor[e].pc # "ok",
                      editor[e].header # <<>>,
                      \A i \in DOMAIN editor[e].header : editor[e].header[i] # Validator(Star)
               PROVE  \E i \in DOMAIN editor[e].header :
                        editor[e].header[i] = ETagForVersion(resource)
    BY DEF editVars
  <2>1. editor[e] \in EditorState /\ resource \in Nat /\ Justified(editor[e])
    BY DEF EditInv
  <2>2. (HandlerStores(e) /\ resource = editor[e].seen) \/ HandlerSwaps(e)
    <3>1. PICK d \in Editors :
            \/ Reads(d) \/ Submits(d) \/ HandlerChecks(d) \/ HandlerStores(d) \/ HandlerSwaps(d)
            \/ EditEnds(d)
      BY DEF EditNext
    <3>2. \A c \in Editors : c # d => editor'[c] = editor[c]
      BY <3>1 DEF EditInv, Reads, Submits, HandlerChecks, HandlerStores, HandlerSwaps, Stores,
                  EditEnds
    <3>3. d = e
      BY <3>2
    <3>4. ~(Reads(e) \/ Submits(e) \/ HandlerChecks(e) \/ EditEnds(e))
      <4>1. Reads(e) => editor'[e].pc = "editing"
        BY DEF EditInv, Reads, NoEdit
      <4>2. Submits(e) => editor'[e].pc = "sent"
        BY <2>1 DEF EditInv, Submits, EditorState
      <4>3. HandlerChecks(e) => editor'[e].pc \in {"checked", "412"}
        BY <2>1 DEF EditInv, HandlerChecks, EditorState, NoEdit
      <4>4. EditEnds(e) => editor'[e].pc = "away"
        BY DEF EditInv, EditEnds, NoEdit
      <4> QED BY <4>1, <4>2, <4>3, <4>4
    <3>5. \A cond \in BOOLEAN : Stores(e, cond) => cond
      BY DEF EditInv, Stores, NoEdit
    <3> QED BY <3>1, <3>3, <3>4, <3>5 DEF HandlerStores
  <2>3. CASE HandlerStores(e) /\ resource = editor[e].seen
    BY <2>1, <2>3 DEF HandlerStores, At, Justified, CheckIfMatch
  <2>4. CASE HandlerSwaps(e)
    <3> DEFINE h == editor[e].header
               want == IfMatchVersion(h)
    <3>1. h \in Seq(Validators) /\ 1 \in DOMAIN h /\ h[1] # Validator(Star)
      BY <2>1 DEF EditorState
    <3>2. want[2] => resource = want[1]
      BY <2>4 DEF HandlerSwaps, Stores, EditInv, NoEdit
    <3>3. h[1][1] = "version"
      BY <2>1, <3>1, <3>2 DEF IfMatchVersion, Unread
    <3>4. h[1] = ETagForVersion(resource)
      BY <3>1, <3>2, <3>3 DEF IfMatchVersion, ETagForVersion, Validators, Star, Garbage
    <3> QED BY <3>1, <3>4
  <2> QED BY <2>2, <2>3, <2>4
<1> QED BY <1>1, EditInductive, PTL DEF NoClobber, EditSpec
=============================================================================
