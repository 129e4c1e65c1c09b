------------------------------- MODULE Indexer -------------------------------
(***************************************************************************)
(* What the indexing engine promises (spec.md sections 5 and 8), without  *)
(* ticks, pages or cursors: a committed head and the sequence of events    *)
(* dispatched to the processors.  The chain only grows.  A commit moves    *)
(* the head forward to a mined block and, in the same step, appends new,   *)
(* distinct events of indexed contracts that lie at or below the new head  *)
(* or in the block being built on it (a pending tick); after it every      *)
(* indexed event up to the head has been dispatched.  Engine refines this  *)
(* specification (Engine!IndexerSpec).                                     *)
(***************************************************************************)
EXTENDS Naturals, Integers, Sequences, SequencesExt, FiniteSets

CONSTANTS Contracts, Indexed, MaxTxs, WorldBlock

VARIABLES
  blocks,      \* mined blocks: Seq of Seq of transaction numbers
  pending,     \* the pending block's transactions
  txEvents,    \* transaction -> emitted contracts, in emission order
  hd,          \* committed head, -1 before the first commit
  dispatched   \* events handed to the processors by committed ticks

vars == <<blocks, pending, txEvents, hd, dispatched>>

(* The block holding transaction t; the pending block is Len(blocks) + 1. *)
BlockOf(t) ==
  IF \E b \in DOMAIN blocks : t \in Range(blocks[b])
  THEN CHOOSE b \in DOMAIN blocks : t \in Range(blocks[b])
  ELSE Len(blocks) + 1

IndexedEventsOf(txs) ==
  UNION {{<<t, k>> : k \in {i \in DOMAIN txEvents[t] : txEvents[t][i] \in Indexed}} : t \in Range(txs)}

OnChain == IndexedEventsOf(FlattenSeq(blocks) \o pending)

Init ==
  /\ blocks = <<>> /\ pending = <<>>
  /\ txEvents = [t \in 1..MaxTxs |-> <<>>]
  /\ hd = -1 /\ dispatched = <<>>

(* Blocks are mined and transactions sent; what was emitted never changes. *)
ChainGrows ==
  /\ IsPrefix(blocks, blocks')
  /\ \A t \in Range(FlattenSeq(blocks) \o pending) : txEvents'[t] = txEvents[t]
  /\ UNCHANGED <<hd, dispatched>>

Commit ==
  /\ hd' \in hd..Len(blocks)
  /\ IsPrefix(dispatched, dispatched')
  /\ LET new == SubSeq(dispatched', Len(dispatched) + 1, Len(dispatched')) IN
       /\ IsInjective(new)
       /\ Range(new) \cap Range(dispatched) = {}
       /\ \A e \in Range(new) : e \in OnChain /\ BlockOf(e[1]) <= hd' + 1
  /\ \A b \in WorldBlock..hd' : b >= 1 => IndexedEventsOf(blocks[b]) \subseteq Range(dispatched')
  /\ UNCHANGED <<blocks, pending, txEvents>>

Next == ChainGrows \/ Commit

Spec == Init /\ [][Next]_vars
=============================================================================
