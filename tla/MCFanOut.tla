------------------------------ MODULE MCFanOut ------------------------------
(* The ways the toolkit hands one thing to many: tasks on a pool, events on *)
(* a bus, a notification to several backends. They share no state, so a     *)
(* behaviour exercises one of them and the others stay as they begin.       *)
EXTENDS SafePool, PubSub, Notify

VARIABLE part

Init ==
  /\ part \in {"pool", "bus", "notify"}
  /\ PoolInit /\ BusInit /\ NotifyInit
  /\ part # "pool" => limit = 0

Next ==
  /\ UNCHANGED part
  /\ \/ part = "pool" /\ PoolNext /\ UNCHANGED busVars /\ UNCHANGED noteVars
     \/ part = "bus" /\ BusNext /\ UNCHANGED poolVars /\ UNCHANGED noteVars
     \/ part = "notify" /\ NotifyNext /\ UNCHANGED poolVars /\ UNCHANGED busVars

vars == <<part, poolVars, busVars, noteVars>>

Spec == Init /\ [][Next]_vars /\ PoolFairness /\ BusFairness

Multi == <<"webhook", "nil", "ntfy", "apprise">>
=============================================================================
