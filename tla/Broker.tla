------------------------------- MODULE Broker -------------------------------
(***************************************************************************)
(* What the subscription broker promises a client (spec.md 4.9 and S6),    *)
(* without locks, channels, ids or the Service's loop: events are          *)
(* published one at a time; a live client is handed, in order and without  *)
(* a gap, every event published since it subscribed, and the next event   *)
(* is published only once every live client has the current one.  A      *)
(* client stops receiving when it closes its stream (losing what it had   *)
(* not read) or, where the broker may drop slow clients, when it is        *)
(* dropped.  EntitySubscriptions and EventSubscriptions implement it.      *)
(***************************************************************************)
EXTENDS Naturals, Sequences

CONSTANTS
  Clients,      \* clients that may subscribe
  MaxEvents,    \* bound: events published
  MayDropSlow   \* a live client may be dropped (try_send) or not (send().await)

ASSUME MaxEvents \in Nat /\ MayDropSlow \in BOOLEAN

VARIABLES
  published,  \* events published so far, numbered 1..published
  status,     \* Clients -> "new", "live", "dropped" or "closed"
  from,       \* Clients -> events published when it subscribed
  stream      \* Clients -> the events handed to it and not lost by a close

vars == <<published, status, from, stream>>

(* The number of the next event a client is to be handed.               *)
NextEvent(c) == from[c] + Len(stream[c]) + 1

(* The client subscribes: it is owed the events published from now on.  *)
Subscribe(c) ==
  /\ status[c] = "new"
  /\ status' = [status EXCEPT ![c] = "live"]
  /\ from' = [from EXCEPT ![c] = published]
  /\ UNCHANGED <<published, stream>>

(* A live client is handed the next event it is owed.                    *)
Deliver(c) ==
  /\ status[c] = "live"
  /\ NextEvent(c) <= published
  /\ stream' = [stream EXCEPT ![c] = Append(@, NextEvent(c))]
  /\ UNCHANGED <<published, status, from>>

(* A live client is dropped and is handed nothing more.                  *)
Drop(c) ==
  /\ MayDropSlow
  /\ status[c] = "live"
  /\ status' = [status EXCEPT ![c] = "dropped"]
  /\ UNCHANGED <<published, from, stream>>

(* The client closes its stream and loses the events it had not read.    *)
Close(c) ==
  /\ status[c] \in {"live", "dropped"}
  /\ status' = [status EXCEPT ![c] = "closed"]
  /\ \E k \in 0..Len(stream[c]) : stream' = [stream EXCEPT ![c] = SubSeq(@, 1, k)]
  /\ UNCHANGED <<published, from>>

(* The next event is published once every live client has the current.  *)
Publish ==
  /\ published < MaxEvents
  /\ \A c \in Clients : status[c] = "live" => NextEvent(c) > published
  /\ published' = published + 1
  /\ UNCHANGED <<status, from, stream>>

Init ==
  /\ published = 0
  /\ status = [c \in Clients |-> "new"]
  /\ from = [c \in Clients |-> 0]
  /\ stream = [c \in Clients |-> <<>>]

Spec ==
  Init /\ [][\E c \in Clients : Subscribe(c) \/ Deliver(c) \/ Drop(c) \/ Close(c)
             \/ Publish]_vars
=============================================================================
