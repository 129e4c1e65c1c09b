------------------------- MODULE EventSubscriptions -------------------------
(***************************************************************************)
(* The event subscription broker of the gRPC server                        *)
(* (crates/grpc/server/src/subscriptions/event.rs): EventManager's map     *)
(* of subscribers behind a tokio RwLock, clients that subscribe and then   *)
(* poll or drop their bounded channel, and the Service task that fans      *)
(* each event out with try_send under the read lock: a full or closed      *)
(* channel puts the subscriber on closed_stream, removed after the loop.   *)
(*                                                                         *)
(* Keys clauses are abstracted (every event matches every subscriber) and  *)
(* each client draws its id from a set of its own.  The writers           *)
(* (add_subscriber, remove_subscriber) are one step each, allowed when     *)
(* the Service does not hold the read lock.                                *)
(***************************************************************************)
EXTENDS Naturals, Sequences, SequencesExt, FiniteSets

CONSTANTS
  Clients,     \* gRPC clients calling subscribe_events
  IdsOf,       \* Clients -> ids rand::thread_rng may give that client
  Cap,         \* SUBSCRIPTION_CHANNEL_SIZE
  MaxEvents,   \* bound: events the broker publishes
  Readers      \* clients whose stream keeps being polled

ASSUME /\ Cap \in Nat \ {0} /\ MaxEvents \in Nat
       /\ \A c, d \in Clients : c # d => IdsOf[c] \cap IdsOf[d] = {}

Ids == UNION {IdsOf[c] : c \in Clients}

VARIABLES
  subs,         \* EventManager.subscribers: id -> the client whose sender it holds
  subscribed,   \* Clients -> add_subscriber has returned
  chan,         \* Clients -> messages queued (0 is the initial empty message)
  closed,       \* Clients -> the client dropped its receiver
  recv,         \* Clients -> event numbers the client read
  ppc,          \* Service: "idle", "loop" (read lock held) or "remove"
  forwarded,    \* events Service::poll moved from the broker to publish_updates
  published,    \* events publish_updates received so far
  toVisit,      \* ids left in this event's iteration
  closedStream, \* ids to remove after this event
  addedAt       \* Clients -> events published when it subscribed

vars == <<subs, subscribed, chan, closed, recv, ppc, forwarded, published, toVisit, closedStream, addedAt>>

-----------------------------------------------------------------------------
(* add_subscriber: a random id, the initial empty message on the new      *)
(* channel, then the insert under the write lock.                          *)
AddSubscriber(c, id) ==
  /\ ~subscribed[c]
  /\ ppc # "loop"
  /\ subs' = [x \in DOMAIN subs \cup {id} |-> IF x = id THEN c ELSE subs[x]]
  /\ chan' = [chan EXCEPT ![c] = <<0>>]
  /\ subscribed' = [subscribed EXCEPT ![c] = TRUE]
  /\ addedAt' = [addedAt EXCEPT ![c] = published]
  /\ UNCHANGED <<closed, recv, ppc, published, forwarded, toVisit, closedStream>>

(* The client's stream yields the next message.                           *)
Read(c) ==
  /\ subscribed[c] /\ ~closed[c]
  /\ chan[c] # <<>>
  /\ recv' = [recv EXCEPT ![c] = IF Head(chan[c]) = 0 THEN @ ELSE Append(@, Head(chan[c]))]
  /\ chan' = [chan EXCEPT ![c] = Tail(@)]
  /\ UNCHANGED <<subs, subscribed, closed, ppc, published, forwarded, toVisit, closedStream, addedAt>>

(* The client disconnects: its receiver is dropped.                       *)
Close(c) ==
  /\ subscribed[c] /\ ~closed[c]
  /\ closed' = [closed EXCEPT ![c] = TRUE]
  /\ chan' = [chan EXCEPT ![c] = <<>>]
  /\ UNCHANGED <<subs, subscribed, recv, ppc, published, forwarded, toVisit, closedStream, addedAt>>

-----------------------------------------------------------------------------
(* Service::poll: the broker yields an event and it is sent on the        *)
(* unbounded channel to publish_updates.                                   *)
Forward ==
  /\ forwarded < MaxEvents
  /\ forwarded' = forwarded + 1
  /\ UNCHANGED <<subs, subscribed, chan, closed, recv, ppc, published, toVisit,
                 closedStream, addedAt>>

(* publish_updates receives the next event; process_event parses keys and *)
(* data, then takes the read guard for the loop over the map, in the       *)
(* map's iteration order.                                                  *)
Publish ==
  /\ ppc = "idle"
  /\ published < forwarded
  /\ published' = published + 1
  /\ \E order \in SetToSeqs(DOMAIN subs) : toVisit' = order
  /\ closedStream' = <<>>
  /\ ppc' = "loop"
  /\ UNCHANGED <<subs, subscribed, chan, closed, recv, forwarded, addedAt>>

(* Mutant: send().await in place of try_send: a full channel blocks.     *)
VisitAwait ==
  /\ ppc = "loop" /\ toVisit # <<>>
  /\ LET c == subs[Head(toVisit)] IN
       \/ /\ closed[c]
          /\ closedStream' = Append(closedStream, Head(toVisit))
          /\ UNCHANGED chan
       \/ /\ ~closed[c] /\ Len(chan[c]) < Cap
          /\ chan' = [chan EXCEPT ![c] = Append(@, published)]
          /\ UNCHANGED closedStream
  /\ toVisit' = Tail(toVisit)
  /\ UNCHANGED <<subs, subscribed, closed, recv, ppc, published, forwarded, addedAt>>

(* Mutant: the channel is not bounded.                                   *)
VisitUnbounded ==
  /\ ppc = "loop" /\ toVisit # <<>>
  /\ LET c == subs[Head(toVisit)] IN
       \/ /\ closed[c]
          /\ closedStream' = Append(closedStream, Head(toVisit))
          /\ UNCHANGED chan
       \/ /\ ~closed[c]
          /\ chan' = [chan EXCEPT ![c] = Append(@, published)]
          /\ UNCHANGED closedStream
  /\ toVisit' = Tail(toVisit)
  /\ UNCHANGED <<subs, subscribed, closed, recv, ppc, published, forwarded, addedAt>>

(* Mutant: a Full channel only drops the event; the subscriber stays.    *)
VisitDropWhenFull ==
  /\ ppc = "loop" /\ toVisit # <<>>
  /\ LET c == subs[Head(toVisit)] IN
       \/ /\ ~closed[c] /\ Len(chan[c]) < Cap
          /\ chan' = [chan EXCEPT ![c] = Append(@, published)]
          /\ UNCHANGED closedStream
       \/ /\ ~closed[c] /\ Len(chan[c]) >= Cap
          /\ UNCHANGED <<chan, closedStream>>
       \/ /\ closed[c]
          /\ closedStream' = Append(closedStream, Head(toVisit))
          /\ UNCHANGED chan
  /\ toVisit' = Tail(toVisit)
  /\ UNCHANGED <<subs, subscribed, closed, recv, ppc, published, forwarded, addedAt>>

(* try_send to the next subscriber: Ok queues the event; Full (a slow     *)
(* subscriber) and Closed put the id on closed_stream.                     *)
Visit ==
  /\ ppc = "loop" /\ toVisit # <<>>
  /\ LET c == subs[Head(toVisit)] IN
       \/ /\ ~closed[c] /\ Len(chan[c]) < Cap
          /\ chan' = [chan EXCEPT ![c] = Append(@, published)]
          /\ UNCHANGED closedStream
       \/ /\ closed[c] \/ Len(chan[c]) >= Cap
          /\ closedStream' = Append(closedStream, Head(toVisit))
          /\ UNCHANGED chan
  /\ toVisit' = Tail(toVisit)
  /\ UNCHANGED <<subs, subscribed, closed, recv, ppc, published, forwarded, addedAt>>

(* The loop ends and the read guard is dropped.                           *)
EndLoop ==
  /\ ppc = "loop" /\ toVisit = <<>>
  /\ ppc' = "remove"
  /\ UNCHANGED <<subs, subscribed, chan, closed, recv, published, forwarded, toVisit, closedStream, addedAt>>

(* EventManager::remove_subscriber: the entry is dropped under the write  *)
(* lock, and with it the Sender, so the client's stream ends.              *)
RemoveSubscriber(id) == subs' = [x \in DOMAIN subs \ {id} |-> subs[x]]

(* remove_subscriber for the next id of closed_stream.                    *)
RemoveClosed ==
  /\ ppc = "remove" /\ closedStream # <<>>
  /\ RemoveSubscriber(Head(closedStream))
  /\ closedStream' = Tail(closedStream)
  /\ UNCHANGED <<subscribed, chan, closed, recv, ppc, published, forwarded, toVisit, addedAt>>

(* publish_updates goes back to the broker.                               *)
Done ==
  /\ ppc = "remove" /\ closedStream = <<>>
  /\ ppc' = "idle"
  /\ UNCHANGED <<subs, subscribed, chan, closed, recv, published, forwarded, toVisit, closedStream, addedAt>>

(* The broker has nothing more: the Service stays parked in recv().       *)
NoEvent ==
  /\ ppc = "idle" /\ published = MaxEvents
  /\ UNCHANGED vars

Init ==
  /\ subs = <<>>
  /\ subscribed = [c \in Clients |-> FALSE]
  /\ chan = [c \in Clients |-> <<>>]
  /\ closed = [c \in Clients |-> FALSE]
  /\ recv = [c \in Clients |-> <<>>]
  /\ ppc = "idle"
  /\ forwarded = 0
  /\ published = 0
  /\ toVisit = <<>>
  /\ closedStream = <<>>
  /\ addedAt = [c \in Clients |-> 0]

Next ==
  \/ \E c \in Clients :
       \/ \E id \in IdsOf[c] : AddSubscriber(c, id)
       \/ Read(c) \/ Close(c)
  \/ Forward \/ Publish \/ Visit \/ EndLoop \/ RemoveClosed \/ Done \/ NoEvent

(* The Service task is polled whenever it can progress; the streams of    *)
(* Readers keep being polled, other clients may stall.                     *)
Fairness ==
  /\ WF_vars(Visit) /\ WF_vars(EndLoop) /\ WF_vars(RemoveClosed) /\ WF_vars(Done)
  /\ \A c \in Readers : WF_vars(Read(c))

Spec == Init /\ [][Next]_vars /\ Fairness

-----------------------------------------------------------------------------
(* Types; a channel never holds more than SUBSCRIPTION_CHANNEL_SIZE.      *)
TypeOK ==
  /\ DOMAIN subs \subseteq Ids /\ \A id \in DOMAIN subs : subs[id] \in Clients
  /\ \A c \in Clients : chan[c] \in Seq(0..MaxEvents) /\ Len(chan[c]) <= Cap
  /\ ppc \in {"idle", "loop", "remove"} /\ published \in 0..forwarded /\ forwarded \in 0..MaxEvents
  /\ addedAt \in [Clients -> 0..MaxEvents]

(* The events a client has read or has queued, without the initial empty *)
(* message.                                                                *)
Delivered(c) == SelectSeq(recv[c] \o chan[c], LAMBDA n : n # 0)

(* The broker status of a client: a subscriber whose send found a full    *)
(* channel is on closed_stream, then out of the map: dropped.             *)
BrokerStatus(c) ==
  IF ~subscribed[c] THEN "new"
  ELSE IF closed[c] THEN "closed"
  ELSE IF c \notin Range(subs) \/ \E k \in DOMAIN closedStream : subs[closedStream[k]] = c
       THEN "dropped"
  ELSE "live"

Abstract == INSTANCE Broker WITH MaxEvents <- MaxEvents, MayDropSlow <- TRUE,
              status <- [c \in Clients |-> BrokerStatus(c)], from <- addedAt,
              stream <- [c \in Clients |-> Delivered(c)]

(* The event fan-out implements the broker's promise (spec 4.9, S6): each *)
(* send of process_event hands a live client the next event in order, a  *)
(* full channel drops the client for good, and the next event is taken    *)
(* from the broker only when every live client has the current one.       *)
BrokerSpec == Abstract!Spec

(* Spec 4.9 and S6: a client's stream carries the events published since *)
(* it subscribed in order and without a gap, up to the one that found its *)
(* channel full or closed: try_send never skips a subscriber that stays,   *)
(* and an evicted one is removed before the next event.  While its        *)
(* subscriber stays and its stream is open, between two events it has     *)
(* every event published since it subscribed.                              *)
GapFreeDelivery ==
  \A c \in Clients :
    /\ \A k \in 1..Len(Delivered(c)) - 1 : Delivered(c)[k + 1] = Delivered(c)[k] + 1
    /\ subscribed[c] /\ ~closed[c] /\ c \in Range(subs) /\ ppc = "idle" =>
         \A n \in addedAt[c] + 1..published : n \in Range(Delivered(c))

(* Every event's fan-out finishes, even while a client never polls: try_send *)
(* never waits on a subscriber.                                            *)
PublisherProgress == ppc = "loop" ~> ppc = "idle"
=============================================================================
