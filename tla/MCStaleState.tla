---------------------------- MODULE MCStaleState ----------------------------
(* State that is kept on one side while it changes on the other: cookies    *)
(* that a browser holds through a login, entries that a cache holds through *)
(* writes. The two share no state, so a behaviour exercises one of them and *)
(* the other stays as it begins.                                            *)
EXTENDS Login, Cache, TLC

VARIABLE part

StaleStateInit ==
  /\ part \in {"login", "cache"}
  /\ Init /\ CacheInit
  /\ part # "login" => prov = Off

StaleStateNext ==
  /\ UNCHANGED part
  /\ \/ part = "login" /\ Next /\ UNCHANGED cacheVars
     \/ part = "cache" /\ CacheNext /\ UNCHANGED vars

StaleStateSpec == StaleStateInit /\ [][StaleStateNext]_<<part, vars, cacheVars>>

CollidingTypes == [c \in Callers |-> IF c = "c2" THEN "U" ELSE "T"]

Symmetry == Permutations(Calls) \cup Permutations(Browsers)
=============================================================================
