------------------------------- MODULE PubSub -------------------------------
(***************************************************************************)
(* pubsub.Bus (pubsub/pubsub.go): topic-keyed fan-out to buffered channels *)
(* that drops rather than blocks. Publish holds the read lock while it     *)
(* offers the event to one channel after another, in any order, alongside  *)
(* other publishers; Subscribe and unsubscribe take the write lock, and    *)
(* unsubscribe closes the channel after releasing it.                      *)
(***************************************************************************)
EXTENDS Integers, Sequences, FiniteSets

CONSTANTS
  Topics, Publishers, Subscribers,
  Buffer,      \* Bus.buffer
  MaxEvents    \* bound: events each publisher publishes

ASSUME PubSubAssumption == Buffer \in Nat \ {0} /\ MaxEvents \in Nat

VARIABLES
  subs,    \* Bus.subs: for each topic with a map, its channels
  sub,     \* each subscription: its topic and how far it has got
  queue,   \* what each channel holds
  todo,    \* each Publish under way: the channels it has still to offer to
  count    \* events each publisher has begun to publish

busVars == <<subs, sub, queue, todo, count>>

SubState == {"none", "live", "removed", "closed"}
NoTodo == [on |-> FALSE, left |-> {}]

\* sync.RWMutex: the write lock is granted when no Publish holds the other.
NoReader == \A p \in Publishers : ~todo[p].on

\* The event a publisher is offering; an event is known by who sent it and
\* as the how-manieth.
Event(p) == <<p, count[p]>>

ChannelsOf(t) == IF t \in DOMAIN subs THEN subs[t] ELSE {}

BusInit ==
  /\ subs = <<>>
  /\ sub = [s \in Subscribers |-> [topic |-> CHOOSE t \in Topics : TRUE, st |-> "none"]]
  /\ queue = [s \in Subscribers |-> <<>>]
  /\ todo = [p \in Publishers |-> NoTodo]
  /\ count = [p \in Publishers |-> 0]
-----------------------------------------------------------------------------
(* Plausible mistakes in this code, for checking that the properties see them *)

UnsubscribeMut_ReadLock(s) ==
  /\ sub[s].st = "live"
  /\ LET t == sub[s].topic IN
       subs' = [u \in DOMAIN subs \ (IF subs[t] = {s} THEN {t} ELSE {}) |-> subs[u] \ {s}]
  /\ sub' = [sub EXCEPT ![s].st = "removed"]
  /\ UNCHANGED <<queue, todo, count>>

OfferMut_Blocks(p, s) ==
  /\ todo[p].on /\ s \in todo[p].left
  /\ Len(queue[s]) < Buffer
  /\ todo' = [todo EXCEPT ![p].left = @ \ {s}]
  /\ queue' = [queue EXCEPT ![s] = Append(@, Event(p))]
  /\ UNCHANGED <<subs, sub, count>>
-----------------------------------------------------------------------------
\* Subscribe under the write lock, making the topic's map if there is none.
Subscribe(s, t) ==
  /\ sub[s].st = "none"
  /\ NoReader
  /\ subs' = [u \in DOMAIN subs \cup {t} |->
                IF u = t THEN ChannelsOf(t) \cup {s} ELSE subs[u]]
  /\ sub' = [sub EXCEPT ![s] = [topic |-> t, st |-> "live"]]
  /\ UNCHANGED <<queue, todo, count>>

\* unsubscribe, through sync.Once: the delete under the write lock, with the
\* topic's map when it empties.
Unsubscribe(s) ==
  /\ sub[s].st = "live"
  /\ NoReader
  /\ LET t == sub[s].topic IN
       subs' = [u \in DOMAIN subs \ (IF subs[t] = {s} THEN {t} ELSE {}) |-> subs[u] \ {s}]
  /\ sub' = [sub EXCEPT ![s].st = "removed"]
  /\ UNCHANGED <<queue, todo, count>>

\* unsubscribe's close, after the lock is released.
Close(s) ==
  /\ sub[s].st = "removed"
  /\ sub' = [sub EXCEPT ![s].st = "closed"]
  /\ UNCHANGED <<subs, queue, todo, count>>

\* Publish takes the read lock and ranges over the topic's channels.
PublishBegins(p, t) ==
  /\ ~todo[p].on /\ count[p] < MaxEvents
  /\ count' = [count EXCEPT ![p] = @ + 1]
  /\ todo' = [todo EXCEPT ![p] = [on |-> TRUE, left |-> ChannelsOf(t)]]
  /\ UNCHANGED <<subs, sub, queue>>

\* One turn of the loop: the send, or the drop when the buffer is full.
Offer(p, s) ==
  /\ todo[p].on /\ s \in todo[p].left
  /\ todo' = [todo EXCEPT ![p].left = @ \ {s}]
  /\ queue' = [queue EXCEPT ![s] = IF Len(@) < Buffer THEN Append(@, Event(p)) ELSE @]
  /\ UNCHANGED <<subs, sub, count>>

PublishEnds(p) ==
  /\ todo[p].on /\ todo[p].left = {}
  /\ todo' = [todo EXCEPT ![p] = NoTodo]
  /\ UNCHANGED <<subs, sub, queue, count>>

\* The consumer's `for v := range ch`; what was buffered survives the close.
Receive(s) ==
  /\ queue[s] # <<>>
  /\ queue' = [queue EXCEPT ![s] = Tail(@)]
  /\ UNCHANGED <<subs, sub, todo, count>>

Publishing(p) == (\E s \in Subscribers : Offer(p, s)) \/ PublishEnds(p)

BusNext ==
  \/ \E s \in Subscribers :
       \/ \E t \in Topics : Subscribe(s, t)
       \/ Unsubscribe(s) \/ Close(s) \/ Receive(s)
  \/ \E p \in Publishers :
       \/ \E t \in Topics : PublishBegins(p, t)
       \/ Publishing(p)

BusSpec == BusInit /\ [][BusNext]_busVars

\* Only the publisher's own goroutine: subscribers may never read.
BusFairness == \A p \in Publishers : WF_busVars(Publishing(p))
-----------------------------------------------------------------------------
(* Properties                                                              *)

Events == Publishers \X (1..MaxEvents)

\* Every variable has its type, and no channel of the bus holds more than its
\* buffer.
BusTypeOK ==
  /\ DOMAIN subs \subseteq Topics
  /\ \A t \in DOMAIN subs : subs[t] \subseteq Subscribers
  /\ sub \in [Subscribers -> [topic : Topics, st : SubState]]
  /\ \A s \in Subscribers : queue[s] \in Seq(Events) /\ Len(queue[s]) <= Buffer
  /\ todo \in [Publishers -> [on : BOOLEAN, left : SUBSET Subscribers]]
  /\ count \in [Publishers -> 0..MaxEvents]

\* "no send can race this close": a channel that a Publish under way has
\* still to send to is never closed, however unsubscribes interleave.
NoSendOnClosed ==
  \A p \in Publishers : \A s \in todo[p].left : sub[s].st # "closed"

\* "It never blocks": every Publish ends, although no subscriber reads.
PublishEndsAlways == \A p \in Publishers : todo[p].on ~> ~todo[p].on
=============================================================================
