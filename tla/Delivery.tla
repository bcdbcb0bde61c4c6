------------------------------ MODULE Delivery ------------------------------
(***************************************************************************)
(* webpush/delivery.Sender (webpush/delivery/sender.go): a message goes to *)
(* every subscription of a topic, each on a goroutine of its own, at most  *)
(* a limit of them at once, and the subscriptions the push service calls   *)
(* gone are retired from the store. One Send is under way at a time: two   *)
(* of them share nothing but the store. The push service, the browsers and *)
(* the store are external.                                                 *)
(***************************************************************************)
EXTENDS Integers, FiniteSets

CONSTANTS
  Endpoints,          \* the subscriptions there are
  Concurrencies,      \* what Options.Concurrency is set to
  DefaultConcurrency

ASSUME DeliveryAssumption ==
  /\ IsFiniteSet(Endpoints)
  /\ Concurrencies \subseteq Nat /\ DefaultConcurrency \in Nat \ {0}

VARIABLES
  slots,      \* Sender.limit
  store,      \* the subscriptions in the store
  dead,       \* the subscriptions their browsers have thrown away
  send,       \* the Send under way: its place, what it has still to launch, its tally
  deliveries, \* its delivery goroutines
  accepted    \* history: the deliveries a push service accepted

deliveryVars == <<slots, store, dead, send, deliveries, accepted>>

NoSend == [pc |-> "idle", left |-> {}, tally |-> 0, err |-> FALSE]

\* A delivery goroutine posts, may retire the subscription, gives its slot of
\* sem back, and leaves the wait group.
InFlight == {e \in Endpoints : deliveries[e] \in {"post", "gone", "release"}}

DeliveryTo(e, s) == deliveries' = [deliveries EXCEPT ![e] = s]

DeliveryInit ==
  /\ \E o \in Concurrencies : slots = IF o <= 0 THEN DefaultConcurrency ELSE o
  /\ store = Endpoints /\ dead = {}
  /\ send = NoSend
  /\ deliveries = [e \in Endpoints |-> "none"]
  /\ accepted = {}
-----------------------------------------------------------------------------
(* Plausible mistakes in this code, for checking that the properties see them *)

PostEndsMut_PrunesRejected(e) ==
  /\ deliveries[e] = "post"
  /\ \/ DeliveryTo(e, "gone")
     \/ DeliveryTo(e, "release")
  /\ UNCHANGED <<slots, store, dead, send, accepted>>

JoinedMut_FreeSlotsOnly == \A e \in Endpoints : deliveries[e] # "post"

PostPanicsMut_Unguarded(e) ==
  /\ deliveries[e] = "post"
  /\ DeliveryTo(e, "lost")
  /\ UNCHANGED <<slots, store, dead, send, accepted>>
-----------------------------------------------------------------------------
(* Send and SendTo *)

\* Every delivery goroutine has left the wait group.
Joined == \A e \in Endpoints : deliveries[e] \in {"none", "done"}

SendBegins ==
  /\ send.pc = "idle"
  /\ send' = [send EXCEPT !.pc = "list"]
  /\ UNCHANGED <<slots, store, dead, deliveries, accepted>>

\* The list is read; SendTo starts its loop.
SendLists ==
  /\ send.pc = "list"
  /\ send' = [NoSend EXCEPT !.pc = "loop", !.left = store]
  /\ UNCHANGED <<slots, store, dead, deliveries, accepted>>

\* The store fails to list: the error, and the only one, that Send returns.
SendListFails ==
  /\ send.pc = "list"
  /\ send' = [NoSend EXCEPT !.pc = "done", !.err = TRUE]
  /\ UNCHANGED <<slots, store, dead, deliveries, accepted>>

\* The store panics, which unwinds out of Send.
SendPanics ==
  /\ send.pc = "list"
  /\ send' = NoSend
  /\ UNCHANGED <<slots, store, dead, deliveries, accepted>>

\* One turn of the loop: the caller waits for a slot and starts the goroutine.
Launches ==
  /\ send.pc = "loop" /\ send.left # {}
  /\ Cardinality(InFlight) < slots
  /\ \E e \in send.left :
       /\ send' = [send EXCEPT !.left = @ \ {e}]
       /\ DeliveryTo(e, "post")
  /\ UNCHANGED <<slots, store, dead, accepted>>

\* wg.Wait is over: the tally is returned.
SendReturns ==
  /\ send.pc = "loop" /\ send.left = {} /\ Joined
  /\ send' = [NoSend EXCEPT !.pc = "done", !.tally = send.tally]
  /\ deliveries' = [e \in Endpoints |-> IF deliveries[e] = "done" THEN "none" ELSE deliveries[e]]
  /\ UNCHANGED <<slots, store, dead, accepted>>

\* The caller has the answer.
SendForgotten ==
  /\ send.pc = "done"
  /\ send' = NoSend
  /\ accepted' = {}
  /\ UNCHANGED <<slots, store, dead, deliveries>>
-----------------------------------------------------------------------------
(* The delivery goroutine *)

\* A 2xx is counted.
PostAccepted(e) ==
  /\ deliveries[e] = "post"
  /\ DeliveryTo(e, "release")
  /\ send' = [send EXCEPT !.tally = @ + 1]
  /\ accepted' = accepted \cup {e}
  /\ UNCHANGED <<slots, store, dead>>

\* 404 or 410, which a push service says of a subscription thrown away.
PostGone(e) ==
  /\ deliveries[e] = "post" /\ e \in dead
  /\ DeliveryTo(e, "gone")
  /\ UNCHANGED <<slots, store, dead, send, accepted>>

\* Any other status, no answer within the timeout, or the end of the context.
PostEnds(e) ==
  /\ deliveries[e] = "post"
  /\ DeliveryTo(e, "release")
  /\ UNCHANGED <<slots, store, dead, send, accepted>>

\* The library panics, and safe.Recover ends the delivery.
PostPanics(e) ==
  /\ deliveries[e] = "post"
  /\ DeliveryTo(e, "release")
  /\ UNCHANGED <<slots, store, dead, send, accepted>>

\* DeleteSubscription retires the subscription, or fails and is logged.
Retires(e) ==
  /\ deliveries[e] = "gone"
  /\ store' = store \ {e}
  /\ DeliveryTo(e, "release")
  /\ UNCHANGED <<slots, dead, send, accepted>>

RetireFails(e) ==
  /\ deliveries[e] = "gone"
  /\ DeliveryTo(e, "release")
  /\ UNCHANGED <<slots, store, dead, send, accepted>>

\* The deferred `<-sem`, and after it wg.Done.
SlotReturned(e) ==
  /\ deliveries[e] = "release"
  /\ DeliveryTo(e, "leave")
  /\ UNCHANGED <<slots, store, dead, send, accepted>>

DeliveryLeaves(e) ==
  /\ deliveries[e] = "leave"
  /\ DeliveryTo(e, "done")
  /\ UNCHANGED <<slots, store, dead, send, accepted>>

\* A browser throws its subscription away.
BrowserDrops(e) ==
  /\ e \notin dead
  /\ dead' = dead \cup {e}
  /\ UNCHANGED <<slots, store, send, deliveries, accepted>>
-----------------------------------------------------------------------------
Delivering(e) ==
  \/ PostAccepted(e) \/ PostGone(e) \/ PostEnds(e) \/ PostPanics(e)
  \/ Retires(e) \/ RetireFails(e) \/ SlotReturned(e) \/ DeliveryLeaves(e)

\* The client's timeout ends every post, and the store's calls end.
DeliveryFairness ==
  /\ WF_deliveryVars(SendLists \/ SendListFails)
  /\ WF_deliveryVars(Launches) /\ WF_deliveryVars(SendReturns)
  /\ \A e \in Endpoints : WF_deliveryVars(Delivering(e))
-----------------------------------------------------------------------------
(* Properties *)

\* Every variable has its type.
DeliveryTypeOK ==
  /\ store \subseteq Endpoints /\ dead \subseteq Endpoints
  /\ slots \in Nat \ {0} /\ accepted \subseteq Endpoints
  /\ send \in [pc : {"idle", "list", "loop", "done"}, left : SUBSET Endpoints,
              tally : 0..Cardinality(Endpoints), err : BOOLEAN]
  /\ deliveries \in [Endpoints -> {"none", "post", "gone", "release", "leave", "done"}]

\* Send accounts for every subscription: it "reports how many the push services
\* accepted" when none of its deliveries is still under way to be counted or to
\* retire its subscription, and what left the store had been thrown away
\* ("unsubscribing a working device over a transient 403 is the worse failure").
SendAccounts ==
  /\ send.pc = "done" => /\ \A e \in Endpoints : deliveries[e] = "none"
                         /\ send.tally = Cardinality(accepted)
  /\ Endpoints \ store \subseteq dead
=============================================================================
