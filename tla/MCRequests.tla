----------------------------- MODULE MCRequests -----------------------------
(* What requests that overlap share in a service: the readiness checks, the *)
(* discovery document of the login, and a resource edited under If-Match.   *)
(* These share no state with each other, so a behaviour exercises one of    *)
(* them and the others stay as they begin.                                  *)
EXTENDS Health, Discovery, IfMatch

VARIABLE part

Init ==
  /\ part \in {"health", "discovery", "edit"}
  /\ HealthInit /\ DiscoveryInit /\ EditInit

Next ==
  /\ UNCHANGED part
  /\ \/ part = "health" /\ HealthNext /\ UNCHANGED discoveryVars /\ UNCHANGED editVars
     \/ part = "discovery" /\ DiscoveryNext /\ UNCHANGED healthVars /\ UNCHANGED editVars
     \/ part = "edit" /\ EditNext /\ UNCHANGED healthVars /\ UNCHANGED discoveryVars

vars == <<part, healthVars, discoveryVars, editVars>>

Spec == Init /\ [][Next]_vars /\ HealthFairness /\ DiscoveryFairness
=============================================================================
