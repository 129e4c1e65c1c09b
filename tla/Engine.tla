------------------------------- MODULE Engine -------------------------------
(***************************************************************************)
(* The indexing engine of torii (crates/indexer/src/engine.rs): the tick   *)
(* loop of Engine::start, fetch_data with fetch_range / fetch_events /     *)
(* fetch_pending, and process_range / process_pending, committing through  *)
(* the cursor store of the persistence layer.                              *)
(*                                                                         *)
(* The chain is what the provider serves: mined blocks 1..Len(blocks)      *)
(* (block 0 is genesis and empty) and a pending block.  A transaction is   *)
(* a number; txEvents[t] lists the contract of each event it emitted, in   *)
(* emission order.  An event is identified by <<tx, index>>.  Processors  *)
(* are abstracted to the order in which a committed tick dispatched the    *)
(* events (processed); the task manager that runs them is TaskManager.tla. *)
(***************************************************************************)
EXTENDS Naturals, Sequences, SequencesExt, FiniteSets

CONSTANTS
  Contracts,      \* every address that may emit an event
  Indexed,        \* the contracts handed to Engine::new
  TxShapes,       \* possible emitted-event lists of a transaction
  MaxBlocks,      \* bound: blocks mined
  MaxTxs,         \* bound: transactions sent
  MaxTxPerBlock,  \* bound: transactions of one block
  EventsChunk,    \* EngineConfig.events_chunk_size
  BlocksChunk,    \* EngineConfig.blocks_chunk_size
  WorldBlock,     \* EngineConfig.world_block
  PendingBlocks,  \* IndexingFlags::PENDING_BLOCKS is set
  None            \* the absent Option value

ASSUME /\ Indexed \subseteq Contracts /\ Indexed # {}
       /\ TxShapes \subseteq Seq(Contracts)
       /\ {MaxBlocks, MaxTxs, MaxTxPerBlock, WorldBlock} \subseteq Nat
       /\ {EventsChunk, BlocksChunk} \subseteq Nat \ {0}
       /\ PendingBlocks \in BOOLEAN

TxIds == 1..MaxTxs

VARIABLES
  blocks,          \* mined blocks: Seq of Seq of TxIds
  pending,         \* the pending block's transactions
  txEvents,        \* TxIds -> emitted contracts, in emission order
  nextTx,          \* next transaction number
  head,            \* Cursors.head (None before the first commit)
  lastPendingTx,   \* Cursors.last_pending_block_tx
  contractTx,      \* Cursors.cursor_map: contract -> last processed tx
  processed,       \* events dispatched by committed ticks, in order
  pc,              \* where the engine loop is
  latest,          \* block_hash_and_number read by this tick
  unit,            \* the FetchDataResult being processed
  contractsOrder   \* iteration order of Engine.contracts (a HashMap)

chainVars  == <<blocks, pending, txEvents, nextTx>>
cursorVars == <<head, lastPendingTx, contractTx>>
vars == <<chainVars, cursorVars, processed, pc, latest, unit, contractsOrder>>

Event == [blk : Nat, tx : TxIds, idx : Nat]
NoUnit == [kind |-> "none", events |-> <<>>, head |-> 0, lastTx |-> None]

ContractOf(e) == txEvents[e.tx][e.idx]

(* The events of transaction t in block b whose contract is in S.          *)
TxEventsFrom(S, t, b) ==
  LET RECURSIVE From(_)
      From(i) == IF i > Len(txEvents[t]) THEN <<>>
                 ELSE (IF txEvents[t][i] \in S THEN <<[blk |-> b, tx |-> t, idx |-> i]>>
                       ELSE <<>>) \o From(i + 1)
  IN From(1)

(* The events of the transactions txs of block b whose contract is in S.  *)
RECURSIVE TxsEventsFrom(_, _, _)
TxsEventsFrom(S, txs, b) ==
  IF txs = <<>> THEN <<>>
  ELSE TxEventsFrom(S, Head(txs), b) \o TxsEventsFrom(S, Tail(txs), b)

(* What getEvents(from_block = from, to_block = Latest, address = c)       *)
(* pages through: the contract's events in chain order (block 0 is empty). *)
RECURSIVE ContractEvents(_, _)
ContractEvents(c, from) ==
  IF from > Len(blocks) THEN <<>>
  ELSE (IF from = 0 THEN <<>> ELSE TxsEventsFrom({c}, blocks[from], from))
         \o ContractEvents(c, from + 1)

(* Page i of a result with chunk_size = events_chunk_size, and whether the *)
(* provider returns a continuation_token with it.                         *)
Page(evs, i) ==
  SubSeq(evs, (i - 1) * EventsChunk + 1,
         IF i * EventsChunk < Len(evs) THEN i * EventsChunk ELSE Len(evs))
HasContinuation(evs, i) == i * EventsChunk < Len(evs)
LastBlockInPage(p) == IF p = <<>> THEN 0 ELSE p[Len(p)].blk

(* Mutant: the page loop without the skip of the cursor transaction's    *)
(* own events.                                                            *)
RECURSIVE PageFilterKeepLast(_, _, _, _)
PageFilterKeepLast(p, tmp, last, to) ==
  IF p = <<>> THEN <<>>
  ELSE LET e == Head(p) IN
       IF e.blk > to \/ (tmp # None /\ e.tx # tmp)
       THEN PageFilterKeepLast(Tail(p), tmp, last, to)
       ELSE <<e>> \o PageFilterKeepLast(Tail(p), None, last, to)

(* The loop over one page in fetch_events: drop events after `to`; while  *)
(* last_contract_tx_tmp is set, skip until its transaction; skip the      *)
(* events of the cursor transaction last_contract_tx itself.              *)
RECURSIVE PageFilter(_, _, _, _)
PageFilter(p, tmp, last, to) ==
  IF p = <<>> THEN <<>>
  ELSE LET e == Head(p) IN
       IF e.blk > to \/ (tmp # None /\ e.tx # tmp)
       THEN PageFilter(Tail(p), tmp, last, to)
       ELSE (IF last # None /\ e.tx = last THEN <<>> ELSE <<e>>)
              \o PageFilter(Tail(p), None, last, to)

(* The filtered pages kept for one contract, one per request round: a     *)
(* continuation is requested when the page has a token, is non-empty and  *)
(* its last block is below `to`.  last_contract_tx_tmp restarts per page. *)
RECURSIVE Rounds(_, _, _, _)
Rounds(evs, i, last, to) ==
  LET p == Page(evs, i) IN
  <<PageFilter(p, last, last, to)>>
    \o (IF HasContinuation(evs, i) /\ LastBlockInPage(p) < to /\ p # <<>>
        THEN Rounds(evs, i + 1, last, to) ELSE <<>>)

(* One round of fetch_events: the k-th kept page of each contract, in the *)
(* iteration order of the contracts map.                                  *)
RECURSIVE Round(_, _, _)
Round(r, k, order) ==
  IF order = <<>> THEN <<>>
  ELSE (IF k <= Len(r[Head(order)]) THEN r[Head(order)][k] ELSE <<>>)
         \o Round(r, k, Tail(order))

RECURSIVE RoundsFrom(_, _)
RoundsFrom(r, k) ==
  IF \A c \in DOMAIN r : k > Len(r[c]) THEN <<>>
  ELSE Round(r, k, contractsOrder) \o RoundsFrom(r, k + 1)

(* fetch_events: all_events gets, round after round, each contract's page. *)
FetchEvents(from, to) ==
  RoundsFrom([c \in Indexed |-> Rounds(ContractEvents(c, from), 1, contractTx[c], to)], 1)

(* The transactions of evs as <<block, tx>>, in first-insertion order.   *)
RECURSIVE TxOrder(_)
TxOrder(evs) ==
  IF evs = <<>> THEN <<>>
  ELSE <<<<Head(evs).blk, Head(evs).tx>>>>
         \o TxOrder(SelectSeq(Tail(evs), LAMBDA e : e.tx # Head(evs).tx))

RECURSIVE ByBlock(_, _, _)
ByBlock(txs, b, to) ==
  IF b > to THEN <<>>
  ELSE SelectSeq(txs, LAMBDA bt : bt[1] = b) \o ByBlock(txs, b + 1, to)

RECURSIVE EventsOfTxs(_, _)
EventsOfTxs(evs, ord) ==
  IF ord = <<>> THEN <<>>
  ELSE SelectSeq(evs, LAMBDA e : e.tx = Head(ord)[2]) \o EventsOfTxs(evs, Tail(ord))

(* fetch_range groups events into a BTreeMap by block of LinkedHashMaps   *)
(* by tx (first insertion order); process_range walks it in that order.   *)
GroupByBlockAndTx(evs, from, to) ==
  EventsOfTxs(evs, ByBlock(TxOrder(evs), from, to))

(* The unit process_range handles; its last block is `to`, which fetch_range *)
(* always adds to the block map.                                           *)
RangeUnit(from, to) ==
  [kind |-> "range", events |-> GroupByBlockAndTx(FetchEvents(from, to), from, to),
   head |-> to, lastTx |-> None]

(* process_pending skips transactions up to last_pending_block_tx.        *)
RECURSIVE SkipPending(_, _)
SkipPending(txs, cursor) ==
  IF txs = <<>> \/ cursor = None THEN txs
  ELSE SkipPending(Tail(txs), IF Head(txs) = cursor THEN None ELSE cursor)

(* Mutant: the pending tick records block_number, not block_number - 1.  *)
PendingUnitAtBlock ==
  LET txs == SkipPending(pending, lastPendingTx) IN
  [kind |-> "pending",
   events |-> TxsEventsFrom(Indexed, txs, latest + 1),
   head |-> latest + 1,
   lastTx |-> IF txs = <<>> THEN lastPendingTx ELSE txs[Len(txs)]]

(* The unit process_pending handles: events of indexed contracts of the   *)
(* new pending transactions; cursors recorded at block_number - 1.        *)
PendingUnit ==
  LET txs == SkipPending(pending, lastPendingTx) IN
  [kind |-> "pending",
   events |-> TxsEventsFrom(Indexed, txs, latest + 1),
   head |-> latest,
   lastTx |-> IF txs = <<>> THEN lastPendingTx ELSE txs[Len(txs)]]

(* The cursor_map a tick builds: per contract, the last transaction that  *)
(* had an event of it.                                                    *)
ContractMap(evs) ==
  [c \in {ContractOf(e) : e \in Range(evs)} |->
     evs[Max({k \in DOMAIN evs : ContractOf(evs[k]) = c})].tx]

(* Mutant: update_cursors that never clears the per-contract map.        *)
UpdateCursorsNoClear(newHead, newPendingTx, map) ==
  /\ head' = newHead
  /\ lastPendingTx' = newPendingTx
  /\ contractTx' = [c \in Indexed |-> IF c \in DOMAIN map THEN map[c] ELSE contractTx[c]]

(* update_cursors as the executor applies it: head and pending cursor are *)
(* replaced; per-contract transactions count since head, so a range tick  *)
(* (no pending cursor) clears them and a pending tick merges its map.     *)
UpdateCursors(newHead, newPendingTx, map) ==
  /\ head' = newHead
  /\ lastPendingTx' = newPendingTx
  /\ contractTx' = [c \in Indexed |->
                      IF newPendingTx = None THEN None
                      ELSE IF c \in DOMAIN map THEN map[c] ELSE contractTx[c]]

RECURSIVE EventIds(_)
EventIds(evs) == IF evs = <<>> THEN <<>>
                 ELSE <<<<Head(evs).tx, Head(evs).idx>>>> \o EventIds(Tail(evs))

FromBlock == IF head = None THEN WorldBlock ELSE head

(* Engine::new collects the contracts into a HashMap, never changed after: *)
(* its iteration order is one of the orders of Indexed, fixed for the run. *)
ContractsOrders == SetToSeqs(Indexed)

-----------------------------------------------------------------------------
(* The chain. *)

SendTransaction(s) ==
  /\ nextTx <= MaxTxs
  /\ Len(pending) < MaxTxPerBlock
  /\ pending' = Append(pending, nextTx)
  /\ txEvents' = [txEvents EXCEPT ![nextTx] = s]
  /\ nextTx' = nextTx + 1
  /\ UNCHANGED <<blocks, cursorVars, processed, pc, latest, unit, contractsOrder>>

MineBlock ==
  /\ Len(blocks) < MaxBlocks
  /\ blocks' = Append(blocks, pending)
  /\ pending' = <<>>
  /\ UNCHANGED <<txEvents, nextTx, cursorVars, processed, pc, latest, unit, contractsOrder>>

(* The engine. *)

(* Engine::start reads the cursors; fetch_data calls block_hash_and_number. *)
ReadCursors ==
  /\ pc = "idle"
  /\ pc' = "fetching"
  /\ latest' = Len(blocks)
  /\ UNCHANGED <<chainVars, cursorVars, processed, unit, contractsOrder>>

(* fetch_data, from < latest: fetch_range(from + 1 (or 0), min(latest, from + blocks_chunk_size)). *)
FetchRange ==
  /\ pc = "fetching"
  /\ FromBlock < latest
  /\ LET from == IF FromBlock = 0 THEN 0 ELSE FromBlock + 1
         to   == IF latest < FromBlock + BlocksChunk THEN latest ELSE FromBlock + BlocksChunk
     IN unit' = RangeUnit(from, to)
  /\ pc' = "processing"
  /\ UNCHANGED <<chainVars, cursorVars, processed, latest, contractsOrder>>

(* fetch_pending: the pending block is used only if its parent is the     *)
(* block that block_hash_and_number returned.                             *)
FetchPending ==
  /\ pc = "fetching"
  /\ FromBlock >= latest
  /\ PendingBlocks
  /\ Len(blocks) = latest
  /\ unit' = PendingUnit
  /\ pc' = "processing"
  /\ UNCHANGED <<chainVars, cursorVars, processed, latest, contractsOrder>>

(* FetchDataResult::None: nothing is processed, flushed or committed.     *)
FetchNone ==
  /\ pc = "fetching"
  /\ FromBlock >= latest
  /\ ~PendingBlocks \/ Len(blocks) # latest
  /\ pc' = "idle"
  /\ UNCHANGED <<chainVars, cursorVars, processed, latest, unit, contractsOrder>>

(* An RPC of fetch_data fails: the loop backs off and starts over.        *)
FetchError ==
  /\ pc = "fetching"
  /\ pc' = "idle"
  /\ UNCHANGED <<chainVars, cursorVars, processed, latest, unit, contractsOrder>>

(* Mutant: a tick that dispatched no event does not move the cursors.    *)
ProcessOkSkipEmpty ==
  /\ pc = "processing"
  /\ processed' = processed \o EventIds(unit.events)
  /\ IF unit.events = <<>> THEN UNCHANGED cursorVars
     ELSE UpdateCursors(unit.head, unit.lastTx, ContractMap(unit.events))
  /\ pc' = "idle"
  /\ unit' = NoUnit
  /\ UNCHANGED <<chainVars, latest, contractsOrder>>

(* process succeeds: its events are dispatched, update_cursors queued,    *)
(* apply_cache_diff and execute commit the tick as one transaction.       *)
ProcessOk ==
  /\ pc = "processing"
  /\ processed' = processed \o EventIds(unit.events)
  /\ UpdateCursors(unit.head, unit.lastTx, ContractMap(unit.events))
  /\ pc' = "idle"
  /\ unit' = NoUnit
  /\ UNCHANGED <<chainVars, latest, contractsOrder>>

(* Mutant: the tick's dispatched events persist although it rolled back. *)
ProcessErrorKeepDispatched ==
  /\ pc = "processing"
  /\ processed' = processed \o EventIds(unit.events)
  /\ pc' = "idle"
  /\ unit' = NoUnit
  /\ UNCHANGED <<chainVars, cursorVars, latest, contractsOrder>>

(* process fails: rollback and clear_tasks; nothing of the tick persists. *)
ProcessError ==
  /\ pc = "processing"
  /\ pc' = "idle"
  /\ unit' = NoUnit
  /\ UNCHANGED <<chainVars, cursorVars, processed, latest, contractsOrder>>

Init ==
  /\ blocks = <<>>
  /\ pending = <<>>
  /\ txEvents = [t \in TxIds |-> <<>>]
  /\ nextTx = 1
  /\ head = None
  /\ lastPendingTx = None
  /\ contractTx = [c \in Indexed |-> None]
  /\ processed = <<>>
  /\ pc = "idle"
  /\ latest = 0
  /\ unit = NoUnit
  /\ contractsOrder \in ContractsOrders

Fetch == FetchRange \/ FetchPending \/ FetchNone

Next ==
  \/ \E s \in TxShapes : SendTransaction(s)
  \/ MineBlock
  \/ ReadCursors
  \/ Fetch
  \/ FetchError
  \/ ProcessOk
  \/ ProcessError

(* The loop never stops; provider and processing errors are transient, so *)
(* a fetch and a process that keep being possible eventually succeed:     *)
(* strong fairness of Fetch and ProcessOk, written with the predicates     *)
(* they are enabled under (one of FetchRange, FetchPending, FetchNone is   *)
(* enabled whenever pc = "fetching").                                      *)
Fairness ==
  /\ WF_vars(ReadCursors)
  /\ []<>(pc = "fetching") => []<><<Fetch>>_vars
  /\ []<>(pc = "processing") => []<><<ProcessOk>>_vars

Spec == Init /\ [][Next]_vars /\ Fairness

-----------------------------------------------------------------------------
HeadNum == IF head = None THEN -1 ELSE head

(* Types of the state; the head is always a mined block (process_pending *)
(* records block_number - 1, the parent of the pending block).            *)
TypeOK ==
  /\ blocks \in Seq(Seq(TxIds)) /\ pending \in Seq(TxIds)
  /\ txEvents \in [TxIds -> Seq(Contracts)] /\ nextTx \in 1..MaxTxs + 1
  /\ head \in 0..Len(blocks) \cup {None} /\ lastPendingTx \in TxIds \cup {None}
  /\ contractTx \in [Indexed -> TxIds \cup {None}]
  /\ processed \in Seq(TxIds \X Nat)
  /\ pc \in {"idle", "fetching", "processing"}
  /\ latest \in 0..MaxBlocks
  /\ unit.events \in Seq(Event)

(* Every event of an indexed contract in a block from world_block up to   *)
(* the committed head has been dispatched: fetch_events' paging, `to`     *)
(* filter and cursor skips lose nothing the head claims.                  *)
NoEventLost ==
  \A b \in WorldBlock..HeadNum : b >= 1 =>
    \A e \in Range(TxsEventsFrom(Indexed, blocks[b], b)) :
      <<e.tx, e.idx>> \in Range(processed)

(* No event is dispatched by two committed ticks: the pending cursor and  *)
(* the per-contract skip in fetch_events exclude what a pending tick did. *)
NoEventProcessedTwice ==
  \A i, j \in DOMAIN processed : i < j => processed[i] # processed[j]

(* Chain order of events: blocks, then transactions, then emission.       *)
ChainTxs == FlattenSeq(blocks) \o pending
TxPos(t) == CHOOSE k \in DOMAIN ChainTxs : ChainTxs[k] = t
ChainBefore(e1, e2) ==
  \/ TxPos(e1[1]) < TxPos(e2[1])
  \/ e1[1] = e2[1] /\ e1[2] < e2[2]

(* The events of one contract are dispatched in chain order, as section 5 *)
(* of the spec promises for blocks, transactions and emission.            *)
ContractOrder ==
  \A i, j \in DOMAIN processed :
    /\ i < j
    /\ txEvents[processed[i][1]][processed[i][2]] = txEvents[processed[j][1]][processed[j][2]]
    => ChainBefore(processed[i], processed[j])

(* Once a block is mined the committed head eventually reaches it.        *)
CatchUp == \A n \in 1..MaxBlocks : (Len(blocks) >= n) ~> (HeadNum >= n)
(* The engine implements the abstract indexer: the chain maps to itself,  *)
(* the committed head to the cursor head and the dispatched events to the *)
(* events of committed ticks.                                              *)
Abstract == INSTANCE Indexer WITH hd <- HeadNum, dispatched <- processed

(* Each committed tick moves the head forward to a mined block and        *)
(* dispatches, in the same commit, new events at or below the head or of  *)
(* the pending block on it (process_range, process_pending, rollback).     *)
IndexerSpec == Abstract!Spec
=============================================================================
