------------------------- MODULE EntitySubscriptions -------------------------
(***************************************************************************)
(* The entity subscription broker of the gRPC server                       *)
(* (crates/grpc/server/src/subscriptions/entity.rs): EntityManager's       *)
(* subscriber map behind a tokio RwLock, clients that subscribe, update    *)
(* their clause, read their bounded channel or drop it, and the Service    *)
(* task that fans each entity update out with send().await while holding   *)
(* the read lock, then removes the subscribers whose stream was closed.    *)
(*                                                                         *)
(* Clauses are abstracted: every update matches every subscriber, so a     *)
(* clause change only re-inserts the subscriber.  Each client subscribes   *)
(* once with an id of its own (IdsOf), so random ids never collide here.   *)
(* Only the publisher holds the lock across an await; every other lock     *)
(* section is one step, allowed when the publisher does not hold the read  *)
(* lock (for writers) or at any time (for readers).                        *)
(***************************************************************************)
EXTENDS Naturals, Sequences, SequencesExt, FiniteSets

CONSTANTS
  Clients,        \* gRPC clients calling subscribe_entities
  IdsOf,          \* Clients -> ids rand::thread_rng may give that client
  Cap,            \* SUBSCRIPTION_CHANNEL_SIZE
  MaxUpdates,     \* bound: entity updates the broker publishes
  MaxClauseUpdates  \* bound: update_subscriber calls per client

ASSUME /\ Cap \in Nat \ {0} /\ MaxUpdates \in Nat /\ MaxClauseUpdates \in Nat
       /\ \A c, d \in Clients : c # d => IdsOf[c] \cap IdsOf[d] = {}

Ids == UNION {IdsOf[c] : c \in Clients}

VARIABLES
  subs,       \* EntityManager.subscribers: id -> the client whose sender it holds
  cpc,        \* Clients -> "new", "sub" or "upd" (between the two locks of update_subscriber)
  cid,        \* Clients -> the subscription id the client was given
  clauseUpd,  \* Clients -> update_subscriber calls made
  chan,       \* Clients -> messages in the client's channel (0 is the initial empty message)
  closed,     \* Clients -> the client dropped its receiver
  recv,       \* Clients -> update numbers the client read
  addedAt,    \* Clients -> updates completed when the client subscribed
  ppc,        \* Service: "idle", "loop" (read lock held) or "remove"
  forwarded,  \* updates Service::poll moved from the broker to publish_updates
  published,  \* updates publish_updates received so far
  toVisit,    \* subscriber ids left in this update's iteration
  closedStream, \* ids whose send failed in this update
  evicted     \* ids the Service has removed (history)

vars == <<subs, cpc, cid, clauseUpd, chan, closed, recv, addedAt, ppc, forwarded, published,
          toVisit, closedStream, evicted>>

ReadLocked == ppc = "loop"
Completed == IF ppc = "loop" THEN published - 1 ELSE published

-----------------------------------------------------------------------------
(* add_subscriber: a random id, the initial empty message sent on the new *)
(* channel, then the subscriber inserted under the write lock.             *)
AddSubscriber(c, id) ==
  /\ cpc[c] = "new"
  /\ ~ReadLocked
  /\ subs' = [x \in DOMAIN subs \cup {id} |-> IF x = id THEN c ELSE subs[x]]
  /\ chan' = [chan EXCEPT ![c] = <<0>>]
  /\ cid' = [cid EXCEPT ![c] = id]
  /\ addedAt' = [addedAt EXCEPT ![c] = Completed]
  /\ cpc' = [cpc EXCEPT ![c] = "sub"]
  /\ UNCHANGED <<clauseUpd, closed, recv, ppc, published, forwarded, toVisit, closedStream, evicted>>

(* update_subscriber, first half: under the read lock, clone the sender   *)
(* of the id, or return when it is gone.                                   *)
UpdateRead(c) ==
  /\ cpc[c] = "sub"
  /\ clauseUpd[c] < MaxClauseUpdates
  /\ clauseUpd' = [clauseUpd EXCEPT ![c] = @ + 1]
  /\ cpc' = [cpc EXCEPT ![c] = IF cid[c] \in DOMAIN subs THEN "upd" ELSE "sub"]
  /\ UNCHANGED <<subs, cid, chan, closed, recv, addedAt, ppc, published, forwarded, toVisit, closedStream, evicted>>

(* update_subscriber, second half: insert (id, new clause, cloned sender) *)
(* under the write lock.                                                   *)
UpdateWrite(c) ==
  /\ cpc[c] = "upd"
  /\ ~ReadLocked
  /\ subs' = [x \in DOMAIN subs \cup {cid[c]} |-> IF x = cid[c] THEN c ELSE subs[x]]
  /\ cpc' = [cpc EXCEPT ![c] = "sub"]
  /\ UNCHANGED <<cid, clauseUpd, chan, closed, recv, addedAt, ppc, published, forwarded, toVisit, closedStream, evicted>>

(* The client's stream yields the next message.                           *)
Read(c) ==
  /\ cpc[c] # "new" /\ ~closed[c]
  /\ chan[c] # <<>>
  /\ recv' = [recv EXCEPT ![c] = IF Head(chan[c]) = 0 THEN @ ELSE Append(@, Head(chan[c]))]
  /\ chan' = [chan EXCEPT ![c] = Tail(@)]
  /\ UNCHANGED <<subs, cpc, cid, clauseUpd, closed, addedAt, ppc, published, forwarded, toVisit, closedStream, evicted>>

(* The client disconnects: its receiver is dropped with what it held.     *)
Close(c) ==
  /\ cpc[c] # "new" /\ ~closed[c]
  /\ closed' = [closed EXCEPT ![c] = TRUE]
  /\ chan' = [chan EXCEPT ![c] = <<>>]
  /\ UNCHANGED <<subs, cpc, cid, clauseUpd, recv, addedAt, ppc, published, forwarded, toVisit, closedStream, evicted>>

-----------------------------------------------------------------------------
(* Service::poll: the broker yields an update and it is sent on the       *)
(* unbounded channel to publish_updates, whatever the publisher is doing.  *)
Forward ==
  /\ forwarded < MaxUpdates
  /\ forwarded' = forwarded + 1
  /\ UNCHANGED <<subs, cpc, cid, clauseUpd, chan, closed, recv, addedAt, ppc, published,
                 toVisit, closedStream, evicted>>

(* publish_updates receives the next update and process_entity_update     *)
(* starts: the read guard is taken for the whole loop over the map, in    *)
(* the map's iteration order.                                              *)
Publish ==
  /\ ppc = "idle"
  /\ published < forwarded
  /\ published' = published + 1
  /\ \E order \in SetToSeqs(DOMAIN subs) : toVisit' = order
  /\ closedStream' = <<>>
  /\ ppc' = "loop"
  /\ UNCHANGED <<subs, cpc, cid, clauseUpd, chan, closed, recv, addedAt, forwarded, evicted>>

(* Mutant: the channel is not bounded.                                   *)
VisitUnbounded ==
  /\ ppc = "loop" /\ toVisit # <<>>
  /\ LET c == subs[Head(toVisit)] IN
       \/ /\ closed[c]
          /\ closedStream' = Append(closedStream, Head(toVisit))
          /\ UNCHANGED chan
       \/ /\ ~closed[c]
          /\ chan' = [chan EXCEPT ![c] = Append(@, published)]
          /\ UNCHANGED closedStream
  /\ toVisit' = Tail(toVisit)
  /\ UNCHANGED <<subs, cpc, cid, clauseUpd, closed, recv, addedAt, ppc, published, forwarded, evicted>>

(* Mutant: a full channel skips the update (try_send without eviction).  *)
VisitDropWhenFull ==
  /\ ppc = "loop" /\ toVisit # <<>>
  /\ LET c == subs[Head(toVisit)] IN
       \/ /\ closed[c]
          /\ closedStream' = Append(closedStream, Head(toVisit))
          /\ UNCHANGED chan
       \/ /\ ~closed[c]
          /\ chan' = [chan EXCEPT ![c] = IF Len(@) < Cap THEN Append(@, published) ELSE @]
          /\ UNCHANGED closedStream
  /\ toVisit' = Tail(toVisit)
  /\ UNCHANGED <<subs, cpc, cid, clauseUpd, closed, recv, addedAt, ppc, published, forwarded, evicted>>

(* sender.send(update).await for the next subscriber: it waits for room   *)
(* in the channel, and fails if the receiver is gone.                     *)
Visit ==
  /\ ppc = "loop" /\ toVisit # <<>>
  /\ LET c == subs[Head(toVisit)] IN
       \/ /\ closed[c]
          /\ closedStream' = Append(closedStream, Head(toVisit))
          /\ UNCHANGED chan
       \/ /\ ~closed[c] /\ Len(chan[c]) < Cap
          /\ chan' = [chan EXCEPT ![c] = Append(@, published)]
          /\ UNCHANGED closedStream
  /\ toVisit' = Tail(toVisit)
  /\ UNCHANGED <<subs, cpc, cid, clauseUpd, closed, recv, addedAt, ppc, published, forwarded, evicted>>

(* The loop ends and the read guard is dropped.                           *)
EndLoop ==
  /\ ppc = "loop" /\ toVisit = <<>>
  /\ ppc' = "remove"
  /\ UNCHANGED <<subs, cpc, cid, clauseUpd, chan, closed, recv, addedAt, published, forwarded, toVisit, closedStream, evicted>>

(* remove_subscriber for the next closed stream, under the write lock.    *)
RemoveClosed ==
  /\ ppc = "remove" /\ closedStream # <<>>
  /\ subs' = [x \in DOMAIN subs \ {Head(closedStream)} |-> subs[x]]
  /\ evicted' = evicted \cup {Head(closedStream)}
  /\ closedStream' = Tail(closedStream)
  /\ UNCHANGED <<cpc, cid, clauseUpd, chan, closed, recv, addedAt, ppc, published, forwarded, toVisit>>

(* publish_updates goes back to waiting on the broker.                    *)
Done ==
  /\ ppc = "remove" /\ closedStream = <<>>
  /\ ppc' = "idle"
  /\ UNCHANGED <<subs, cpc, cid, clauseUpd, chan, closed, recv, addedAt, published, forwarded, toVisit, closedStream, evicted>>

(* The broker has nothing more: the Service stays parked in recv().       *)
NoUpdate ==
  /\ ppc = "idle" /\ published = MaxUpdates
  /\ UNCHANGED vars

Init ==
  /\ subs = <<>>
  /\ cpc = [c \in Clients |-> "new"]
  /\ cid = [c \in Clients |-> CHOOSE id \in IdsOf[c] : TRUE]
  /\ clauseUpd = [c \in Clients |-> 0]
  /\ chan = [c \in Clients |-> <<>>]
  /\ closed = [c \in Clients |-> FALSE]
  /\ recv = [c \in Clients |-> <<>>]
  /\ addedAt = [c \in Clients |-> 0]
  /\ ppc = "idle"
  /\ forwarded = 0
  /\ published = 0
  /\ toVisit = <<>>
  /\ closedStream = <<>>
  /\ evicted = {}

ClientStep(c) ==
  \/ \E id \in IdsOf[c] : AddSubscriber(c, id)
  \/ UpdateRead(c) \/ UpdateWrite(c) \/ Read(c) \/ Close(c)

Next ==
  \/ \E c \in Clients : ClientStep(c)
  \/ Forward \/ Publish \/ Visit \/ EndLoop \/ RemoveClosed \/ Done \/ NoUpdate

Spec == Init /\ [][Next]_vars

-----------------------------------------------------------------------------
(* Types; a channel never holds more than SUBSCRIPTION_CHANNEL_SIZE.      *)
TypeOK ==
  /\ DOMAIN subs \subseteq Ids /\ \A id \in DOMAIN subs : subs[id] \in Clients
  /\ cpc \in [Clients -> {"new", "sub", "upd"}]
  /\ \A c \in Clients : chan[c] \in Seq(0..MaxUpdates) /\ Len(chan[c]) <= Cap
  /\ ppc \in {"idle", "loop", "remove"} /\ published \in 0..forwarded /\ forwarded \in 0..MaxUpdates

(* A client whose stream is open has, read or queued, every update        *)
(* published after it subscribed: send().await waits for room instead of  *)
(* dropping, and an open subscriber is never removed.                      *)
NoMissedUpdate ==
  \A c \in Clients : cpc[c] # "new" /\ ~closed[c] =>
    \A n \in addedAt[c] + 1 .. Completed : n \in Range(recv[c]) \cup Range(chan[c])

(* A subscriber found closed is gone from the map before the next update  *)
(* is published (spec section 8, property 6).                              *)
EvictedStaysRemoved == ppc = "idle" => evicted \cap DOMAIN subs = {}

(* The updates a client has read or has queued, without the initial      *)
(* empty message.                                                          *)
Delivered(c) == SelectSeq(recv[c] \o chan[c], LAMBDA n : n # 0)

BrokerStatus(c) ==
  IF cpc[c] = "new" THEN "new" ELSE IF closed[c] THEN "closed" ELSE "live"

Abstract == INSTANCE Broker WITH MaxEvents <- MaxUpdates, MayDropSlow <- FALSE,
              status <- [c \in Clients |-> BrokerStatus(c)], from <- addedAt,
              stream <- [c \in Clients |-> Delivered(c)]

(* The entity fan-out implements the broker's promise without dropping    *)
(* anyone (spec 4.9): send().await hands each open client the next update *)
(* in order, and the next update is taken from the unbounded channel only *)
(* when every open client has the current one.                             *)
BrokerSpec == Abstract!Spec
=============================================================================
