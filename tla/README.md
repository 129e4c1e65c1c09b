# TLA+ models of torii

This directory holds TLA+ models of the torii indexer (`src/crates`). TLC checks them.
Each module is translated from the Rust source. `PROJECT.json` maps every definition
that models code to the lines it translates. It also lists the runs, the mutants that
show each property can fail, the findings, and the hazards of the code.

## The system

torii follows a Starknet chain and writes what it sees to SQLite. It then pushes
updates to gRPC subscribers. The parts, and how they interact:

| Part | Source | Role |
|------|--------|------|
| Engine | `indexer/src/engine.rs` | Runs the tick loop: read the cursors, fetch a block range or the pending block, dispatch every event to the processors, then commit or roll back. |
| Cursor store / executor | (not under `src/`; spec.md C4/C5) | Queues SQL messages, applies `update_cursors`, and runs `execute` (commit) or `rollback`. |
| Task manager | (not under `src/`; spec.md C6) | Runs processor tasks. Tasks with the same id run in FIFO order, tasks wait for their dependencies, and a tick's tasks are dropped on error. |
| World processors | `processors/src/processors/*.rs` | Give each event a task identifier and dependencies, and issue the store queries. |
| ERC handling | `sqlite/sqlite/src/erc.rs` | Handles transfers. It keeps a per-tick balance diff (`erc_cache`), registers each token once behind a per-token lock, and flushes the diff with `apply_cache_diff`. |
| Entity / event subscriptions | `grpc/server/src/subscriptions/{entity,event}.rs` | Keep subscriber maps behind an `RwLock` and fan broker updates out to bounded channels. |

A tick of `Engine::start` does the following:
1. It calls `fetch_data`. This reads `block_hash_and_number` and computes `from = head ?? world_block`.
   - If `from < latest`, it calls `fetch_range(from+1 or 0, min(latest, from+blocks_chunk))`. Each indexed contract gets one `getEvents` paging loop with continuation tokens. The events are then grouped by block and by transaction.
   - Otherwise, if pending indexing is on, it fetches the pending block. This is skipped when the pending block's parent is not `latest`.
2. `process_range` or `process_pending` dispatches the events and queues `update_cursors`.
3. On success, it runs `apply_cache_diff` and `execute`. On error, it runs `rollback` and `clear_tasks`, then backs off.

The cursors are:
- `head`;
- `last_pending_block_tx`, the last pending transaction processed;
- a per-contract map from contract to the last transaction of that contract.

The cursor store is not under `src/`, and spec.md C4 only says that `update_cursors` takes the map. `UpdateCursors` assumes that a range tick (which has no pending cursor) clears the map and that a pending tick merges its own map into it. This is what the engine's use of the map needs: it skips transactions only of the pending block that the map was recorded for. Once the pending block is mined, the next range tick uses the map to skip what the pending tick already did.

### Hard behaviours

- **Paging.** A continuation is requested only if the page is non-empty and its last block is below `to`. Events after `to` are filtered out.
- **Cursor skips.** The skip to the cursor transaction (`last_contract_tx_tmp`) starts again on every page.
- **Ordering.** Contracts are iterated in `HashMap` order, and pages are concatenated round by round. Transactions of a block are then ordered by first insertion.
- **Rollback.** A tick can fail half-way and is redone from the old cursors. The in-memory `erc_cache` and the registration marks survive the rollback.
- **Concurrency.** Registration tasks race on a per-token lock. Entity fan-out awaits `send` while it holds the read lock. `update_subscriber` drops its lock between its read and its write.

## Modules

| Module | Models | State ↔ code |
|--------|--------|--------------|
| `Engine.tla` | `Engine::start`, `fetch_data`, `fetch_range`, `fetch_events`, `fetch_pending`, `process_range`, `process_pending`, `update_cursors` | `blocks`, `pending` and `txEvents` are the chain the provider serves. `head`, `lastPendingTx` and `contractTx` are `Cursors`. `pc` is the loop's position. `unit` is the `FetchDataResult`. `processed` is the sequence of event ids that committed ticks dispatched. `contractsOrder` is the iteration order of `Engine.contracts`. |
| `MC_Engine.tla` | model values and sets for TLC | three contracts `c1`, `c2` and `u` (`u` is not indexed), and the transaction shapes |
| `Indexer.tla` | the promise of spec.md §5 and §8, without ticks, pages or cursors | `hd` is the committed head and `dispatched` the events handed to processors. `Commit` moves the head forward to a mined block and appends new, distinct, indexed events at or below the new head, or in the pending block on it. After a commit every indexed event up to the head has been dispatched. `Engine` maps `hd` to the cursor head and `dispatched` to `processed`. |
| `ErcCache.tla` | `handle_erc20_transfer`, `handle_nft_transfer`, both `try_register_*_token_metadata`, `update_nft_metadata`, `apply_cache_diff`, within one tick of `Engine::start` (commit, or rollback and retry) | `tpc[i]` is where transfer task `i` of the tick is. `holder` is the lock table (the task that holds each token's mutex). `registered` holds the `mark_token_registered` marks. `permits` counts the `nft_metadata_semaphore` permits held. `ercCache` is `local_cache.erc_cache`, keyed by balance id `<<holder, token>>`. `queue` is the open executor transaction and `committed` is what `execute()` made durable. |
| `MC_ErcCache.tla` | model values and tick contents | tokens `t1` to `t4` (`t2` and `t3` are NFTs; `t4` is an ERC-20 contract whose metadata does not parse at first), holders `a` and `b`, the zero address `z` |
| `EntitySubscriptions.tla` | `EntityManager::{add,update,remove}_subscriber`, `Service::poll`, `Service::publish_updates` and `process_entity_update` | `subs` is the subscriber map (id ↦ the client whose sender it holds). `cpc` and `cid` are where each client's `update_subscriber` is. `chan`, `recv` and `closed` are each client's channel, what it read, and whether it dropped its receiver. `ppc` is the Service: `"loop"` while it holds the read guard, `"remove"` while it drains `closed_stream`. `forwarded` counts the updates `Service::poll` moved from the broker into the unbounded channel; `published` counts those `publish_updates` received. |
| `MC_EntitySubscriptions.tla` | model values | clients `c1` (ids `i1`, `i2`) and `c2` (id `j1`) |
| `EventSubscriptions.tla` | `EventManager::{add,remove}_subscriber`, `Service::poll`, `Service::publish_updates` and `process_event` | As for entities, without `update_subscriber`. `addedAt` records how many events had been published when a client subscribed; `RemoveSubscriber` is `remove_subscriber`. |
| `MC_EventSubscriptions.tla` | model values | clients `c1` (id `i1`) and `c2` (id `j1`), of which only `c1` is sure to poll |
| `Broker.tla` | the promise of spec.md §4.9 and S6 to a subscriber, without locks, channels or ids | `published` numbers the events. `status` says whether a client is new, live, dropped or closed. `from` is what had been published when it subscribed. `stream` is what it was handed. `Deliver` hands a live client its next event, and `Publish` waits until every live client has the current one. `Drop` exists only where `MayDropSlow` holds. `Close` keeps a prefix of the stream, because a closed receiver loses what it had not read. Both subscription modules map `stream` to the messages read or queued (without the initial empty one) and `from` to `addedAt`. Events map a client on `closed_stream`, or out of the map, to `dropped`. |
| `TaskManager.tla` | one `process_tasks` call over a tick's world events (spec.md §4.6), with `StoreDelRecordProcessor` and `ControllerProcessor` (their `task_identifier`, `task_dependencies` and `process`) and, from spec.md §4.5, `RegisterModel` and `StoreSetRecord` | `tick` is the events the tick dispatched. `tpc[i]` is where task `i` is. `store` is what the processors' writes made: models registered, entity values, controllers. `mgr` is `process_tasks` returning Ok or an error. |
| `MC_TaskManager.tla` | model values and ticks | models `m1` (indexed) and `m2` (not indexed), entity `e1`, controllers `a1` and `a2`; a world tick and a tick with a controller username that does not parse |

Engine has one action per step of the loop:
- `ReadCursors`: the cursor read at the top of the loop.
- `FetchRange`, `FetchPending` and `FetchNone`: the three branches of `fetch_data`.
- `FetchError`: a provider error.
- `ProcessOk`: process, then `apply_cache_diff` and `execute`, as one commit.
- `ProcessError`: rollback and `clear_tasks`.

The chain moves through `SendTransaction`, which adds a transaction to the pending block, and `MineBlock`. Either can interleave with any engine step. A mined block can therefore appear between `block_hash_and_number` and the pending read, or between two pages.

Fetching is modelled by what it computes:
- `ContractEvents` is a contract's events in chain order.
- `Page` and `HasContinuation` model chunked pages.
- `PageFilter` models the per-page loop, with its two skips and the `to` filter.
- `Rounds` models the continuation rule.
- `Round` and `RoundsFrom` model the round-major concatenation.
- `GroupByBlockAndTx` models the BTreeMap/LinkedHashMap grouping.
- `SkipPending` models the skip in `process_pending`.

The processors are abstracted to the sequence of event ids that a committed tick dispatched. A failed tick adds nothing to it.

The tick's events are transfers and `update_nft_metadata` calls. A token is an NFT when it is in `NftTokens`; its id is `contract:id`. ErcCache has one action per await-separated step of a task:
- `StartTask`: the task manager starts a transfer task, and `get_token_registration_lock` returns no lock once the token is marked.
- `AcquireLock`: `lock().await` takes the token's mutex.
- `AcquirePermit`: an NFT registration takes an `nft_metadata_semaphore` permit while it holds the mutex.
- `RegisterOk`: the `name`/`symbol`/`decimals` batch call succeeds, the answers parse, and `RegisterErc20Token` is sent to the executor.
- `RegisterFail`: the batch call fails (`erc.rs:211`; a transient provider error, at most `MaxFailures` of them). The error drops the guard.
- `RegisterMalformed`: the token is in `malformed`, so its answers do not parse (`erc.rs:213-248`: a name or symbol that is neither a short string nor a UTF-8 `ByteArray`, decimals that are not a `u8`, or a reverting call). The error drops the guard. It is not bounded, because it repeats on every attempt while the contract keeps its class.
- `RegisterNftOk` and `RegisterNftFail`: `fetch_token_metadata` returns metadata and `RegisterNftToken` is sent; or it fails and the error drops the permit and the guard. Which one happens is decided by the token's URI now (`TokenUriFails`, from `fetch_token_uri`). An unanswered URI selector, an answer that is neither a `ByteArray` nor felts, or an unreachable URI all degrade to empty metadata. Only a URI that does not decode (a `ByteArray` that is not UTF-8, felts that are not short strings) is an error, and it is the same error on every attempt.
- `MarkRegistered`: `mark_token_registered` runs, and the guard and any permit are dropped.
- `RecordTransfer` and `RecordNftTransfer`: `store_erc_transfer_event` queues the transfer row (`TransferRow`), then the deltas go into `erc_cache`.
- `StartUpdate`: `update_nft_metadata` returns at once when the token is not marked; otherwise it waits for a permit.
- `UpdatePermit`, then `UpdateOk` or `UpdateFail`: the permit is taken; the fetch sends `UpdateNftMetadata`, or its error fails the task (again when the URI does not decode).

The token contracts are the environment. `SetTokenUri` changes a token's URI shape (`uri`), at most `MaxUriChanges` times, between any two steps. `Upgrade` is an ERC-20 contract replacing its class (`replace_class`), so that its metadata starts or stops parsing (`malformed`, starting from `InitialMalformed`), at most `MaxUpgrades` times.

The engine side has its own actions:
- `StartTick`: `process_event` adds the tick's tasks to the task manager.
- `Commit`: `apply_cache_diff` and `execute`.
- `Rollback`: `rollback` and `clear_tasks`. The cursors are untouched, so the same tick is retried.
- `NothingToFetch`: `FetchDataResult::None` after the last tick.

The task manager is not under `src/`. Its part here is modelled from spec.md §4.6:
- at most `MaxConcurrent` tasks run at once;
- tasks of one id run in the order they were enqueued (`TaskId`). A transfer's id comes from (contract, from, to, token_id), as spec §4.5 gives it. An update's id is its NFT;
- after a failure no pending task starts;
- `process_tasks` returns once the in-flight work has drained.

The ERC transfer processors are not under `src/` either. Following spec S5, two transfers of one token run as concurrent tasks.


## Runs

| Run | Expect | Checks | Bounds |
|-----|--------|--------|--------|
| `engine_core` | pass | `TypeOK`, `NoEventLost`, `NoEventProcessedTwice`, `CatchUp`, `IndexerSpec` | 3 blocks, 3 transactions, ≤2 per block, shapes `<<c1>>`, `<<c2,c1>>`, `<<u,c2>>`, `<<c1,c1>>`, pending ticks on, chunk 8 (pages never split), 1 block per range |
| `engine_page_at_to` | violation | `NoEventLost` | one contract, events chunk 1, two transactions in a block |
| `engine_skip_per_page` | violation | `NoEventLost` | one contract, events chunk 1, pending ticks, 2 blocks per range |
| `engine_contract_order` | violation | `ContractOrder` | two contracts, shapes `<<c2>>` and `<<c1,c2>>` |
| `erc_sequential` | pass | `TypeOK`, `RegisteredBeforeBalance`, `BalancesMatchTransfers`, `TicksCommitted` (and no deadlock) | 6 ticks: an ERC-20 mint; two concurrent transfers of a registered token; an NFT mint next to an update of an NFT not yet registered; a mint of that NFT; updates of the two NFTs competing for 1 permit; a mint of the malformed `t4`. A tick with a task that may fail has no other task that marks a token or moves a balance. ≤3 failed batch calls; `t2`'s URI is of neither shape and `t3`'s decodes, and one URI may change to any shape |
| `erc_double_register` | violation | `SingleRegistration` | the same tick, 3 at once, no failures |
| `erc_rollback_balance` | violation | `BalancesMatchTransfers` | one tick minting two new tokens; 1 failed attempt |
| `erc_bad_uri` | violation | `AllTicksCommitted` | an NFT mint whose URI does not decode, then an ERC-20 mint; no URI change |
| `entity_fanout` | pass | `TypeOK`, `NoMissedUpdate`, `BrokerSpec` | 2 clients, channel of 1, 2 updates, 1 clause update per client |
| `entity_resurrect` | violation | `EvictedStaysRemoved` | the same |
| `event_fanout` | pass | `TypeOK`, `GapFreeDelivery`, `PublisherProgress`, `BrokerSpec` | 2 clients, channel of 1, 3 events, `c2` may never poll |
| `task_world` | pass | `TypeOK`, `SequentialResult` (and no deadlock) | two ticks of 10 and 4 events (two entities of one model), 3 tasks at once, 1 transient error |

What the properties say:
- **NoEventLost.** Every event of an indexed contract in a block from `world_block` to the head is in `processed`.
- **NoEventProcessedTwice.** No event id is dispatched twice.
- **ContractOrder.** A contract's events are dispatched in chain order.
- **CatchUp.** A mined block is eventually covered by the head.
- **IndexerSpec.** `Engine` refines `Indexer` under the mapping `hd <- HeadNum`, `dispatched <- processed`. Every commit is one abstract step: the head never goes back, and a tick's events become dispatched only together with the cursor move that covers them.

`engine_core` passes (about 250,000 distinct states, under two minutes). With pages that never split, pending ticks, rollbacks and blocks mined at any point:
- no event is lost;
- no event is duplicated;
- the head catches up, under the assumption that the database never fails (see Not modelled).

The three violation runs are findings in `PROJECT.json`:
- **Page ending at `to`.** A page that ends at block `to` stops the continuation, so the rest of that block's events are lost while the head moves past them.
- **Skip restarted per page.** After a pending tick, the skip to the cursor transaction starts again on each continuation page. A page without that transaction is dropped.
- **Contract order.** The round-major merge with first-insertion grouping dispatches one contract's events out of chain order.

Setting `WorldBlock` to 1 in the model also shows that the first range starts at `world_block + 1`, so block `world_block` itself is never fetched. It is a plain off-by-one, so the project does not keep a run for it.

Each property of `engine_core` has a mutant in `PROJECT.json`, and TLC finds each mutant violating its property:
- dropping the skip of the cursor transaction's own events duplicates them;
- an `update_cursors` that never clears the per-contract map loses events;
- a commit that skips ticks with no events leaves the head behind empty blocks;
- a rollback whose dispatched events persist (as if processors wrote outside the transaction) breaks `IndexerSpec`.

ERC properties:
- **SingleRegistration** (checked by `erc_double_register`). At most one `Register*Token` per token reaches the store.
- **RegisteredBeforeBalance.** Every balance id of a committed `ApplyBalanceDiff` has its token's registration committed before it (spec §8.5).
- **BalancesMatchTransfers.** The sum of the committed diffs for each `(holder, token)` equals the sum of the committed transfer rows. The rows are deduplicated by id, as `ON CONFLICT DO NOTHING` does.
- **TicksCommitted** (liveness). Each tick is eventually committed, provided the metadata it and the ticks before it need stays fetchable from the start on: the URIs their NFT events fetch decode, and none of their ERC-20 tokens is in `malformed`. A livelock would need a lock or permit never given back, or an error repeated on every retry.
- **AllTicksCommitted** (liveness, what spec §7 promises). Every tick is eventually committed whatever the URIs are, since metadata fetches degrade to empty.

`erc_sequential` passes. When no tick mixes a task that may fail with another task that marks a token or moves a balance, every committed diff follows its token's registration and the balances are exact, across failed attempts and retries. A failed registration releases the token's mutex, or the retried tick would deadlock. Metadata updates wait for the semaphore without deadlock. Every tick commits while its metadata stays fetchable. When a URI becomes undecodable, its tick retries for ever; this is the `erc_bad_uri` finding. The last tick mints `t4`, whose ERC-20 metadata does not parse. It is retried until the contract is upgraded, while the ticks before it are committed; without the upgrade it would be retried for ever. The condition on the ticks is needed: with it relaxed, the rollback finding below shows up (a failed update also rolls back a tick whose deltas or marks stay).

The three ERC violation runs are findings:
- **Double registration.** No re-check after `lock().await`, so two concurrent transfers of an unseen token both register it (spec S5 expects exactly one).
- **Balances counted twice.** `rollback` leaves `erc_cache` filled. The retried tick adds its deltas again, so balances are counted twice. Spec §5 claims the diff is discarded. The registered marks of the same local cache survive the rollback as well (`Rollback` leaves `registered`). A retried tick whose registration was rolled back would then skip it and commit a diff for a token never registered (spec §8.5). No run checks this second effect, since `erc_rollback_balance` stops at the first violation. One reset of `local_cache` on rollback would fix both.
- **Indexing stops at an undecodable token URI.** `fetch_token_uri` returns an error for a `ByteArray` URI that is not UTF-8 (`erc.rs:414`) or felt URIs that are not short strings (`erc.rs:421`). The error fails the tick, and the retried tick fails the same way, so the engine never gets past that block. Spec §7 makes metadata fetches the exception that degrades to empty metadata. The controller processor has the same retry loop for a username that is not a short string (`controller.rs:110`), but there spec §7 accepts it as a bug signal.


Each property of `erc_sequential` has a mutant:
- a balance kept for the zero address breaks `TypeOK`;
- marking before the RPC breaks `RegisteredBeforeBalance`;
- an `apply_cache_diff` that keeps the map breaks `BalancesMatchTransfers`;
- a `fetch_token_uri` whose fallback for a URI of neither shape is an error breaks `TicksCommitted`: `t2` then never registers.

TaskManager has one action per step of a task:
- `Start`: a task is scheduled. This needs a free slot, no failure so far, the tasks of its id enqueued before it done (the FIFO slot), and its dependency ids drained.
- `Finish`: the processor completes and its writes reach the executor.
- `ProcessorError`: the processor returns its own error. A record write whose model is missing fails without namespaces; a controller username that does not parse fails.
- `TransientError`: an RPC or database error.
- `Return`: `process_tasks` returns Ok when every task is done. After a failure it returns once nothing runs, and clears the pending tasks.

Task identifiers are modelled as the tuples they hash. A `DefaultHasher` collision only serializes more tasks.

- **SequentialResult.** When `process_tasks` returns Ok, the store is what applying the tick's events one by one in dispatch order gives. This holds however the tasks interleaved. The reference `Sequential` is a recursive operator over the tick. The property stands for spec S3 and §8 properties 2 and 3. It says something only about the world tick: the tick with the bad username fails on every attempt, so `process_tasks` never returns Ok there, and that tick only exercises the error path (the drain after a failure and `clear_tasks`).

`task_world` passes. A `Start` that ignores `max_concurrent_tasks` breaks `TypeOK`. A `Start` that waits only for a running task of its id, not for the ones enqueued before it, breaks `SequentialResult`.

Two hazards of the task identifiers are not checked:
- `StoreUpdateMember` (spec §4.5; not in this repository) hashes `(model, entity, member)`. A member update and a record write of the same entity are then not serialized.
- A controller username that never parses fails its tick on every retry, and `Engine` treats processing errors as transient.

Both subscription modules have one action per lock section or await of the code:
- `AddSubscriber`: the initial empty message, then the insert under the write lock.
- `UpdateRead` and `UpdateWrite`: the two lock sections of `update_subscriber`. Between them the lock is free.
- `Forward`: `Service::poll` sends an item from the broker on the unbounded channel. This does not wait for the publisher.
- `Publish`: `publish_updates` receives the next item, the read guard is taken, and the map's iteration order is fixed.
- `Visit`: one subscriber of the loop. Entities `send().await`, so the step waits while the channel is full. Events `try_send`; a full or closed channel puts the id on `closed_stream`.
- `EndLoop`, `RemoveClosed` and `Done`: the guard is dropped, each id of `closed_stream` is removed under the write lock, and the Service goes back to the broker.
- `Read` and `Close` are the clients polling or dropping their stream.

Writers are atomic steps allowed only while the Service does not hold the read guard. Only the Service holds a guard across an await, so this is the tokio `RwLock`'s exclusion. Clauses are abstracted: every update matches every subscriber.

Subscription properties:
- **NoMissedUpdate.** An open entity subscriber has, read or queued, every update published after it subscribed.
- **EvictedStaysRemoved.** When the Service is back at the broker, no subscriber it removed for a closed stream is in the map (spec §8.6).
- **GapFreeDelivery.** A client's event stream holds consecutive events, and while its subscriber stays and its stream is open it holds every event published since it subscribed: `try_send` never skips a subscriber that stays, and one that found its channel full or closed is removed before the next event (spec §4.9 and S6).
- **BrokerSpec.** Each subscription module refines `Broker`: entities with `MayDropSlow = FALSE`, events with `TRUE`. Every step of the fan-out is a broker step or a stutter. A send hands a live client exactly its next event, a full event channel drops the client for good, and `publish_updates` takes the next item only once every live client has the current one. A removed client is never handed another event.
- **PublisherProgress** (events). Every fan-out finishes, even when a client never polls.

`entity_fanout` and `event_fanout` pass. Their mutants are:
- an unbounded channel breaks `TypeOK`;
- an entity send that drops the update when the channel is full breaks `NoMissedUpdate`;
- a full channel that only drops the event and keeps the subscriber (`VisitDropWhenFull`) breaks `GapFreeDelivery`;
- the same drop breaks `BrokerSpec` in both modules;
- `send().await` in place of `try_send` breaks `PublisherProgress`.

`entity_resurrect` is a finding. A client's `update_subscriber` reads the sender and releases the lock. The publisher finds the stream closed and removes the subscriber. The client's write then puts it back.

The entity fan-out waits on a full channel under the read guard, so one client that stops polling holds every `add`, `update` and `remove` of entity subscribers. Spec §4.9 asks for this back-pressure, so it is a hazard, not a finding, and no liveness property is stated for the entity publisher: it finishes only if every client polls, which is the design.

### Bounds

- **Blocks and transactions.** Three blocks and three transactions allow the following: a pending tick, the pending block being mined, a range over it, another block, and a failed tick retried.
- **Shapes.** The four transaction shapes cover:
  - one event;
  - two events of one contract (the cursor skips every event of its transaction);
  - a transaction that emits for `c2` before `c1`, which exercises ordering;
  - an event of a contract that is not indexed.
- **Events chunk.** The paging bugs need a page boundary inside a block, so their runs use events chunk 1. `engine_core` uses chunk 8 so that it states what holds when pages do not split.

The ERC bounds:
- **Tokens and holders.** Two tokens and two holders separate balance ids by holder and by token.
- **Tasks.** Two or three tasks per tick are enough for one token's mutex to be contended while another task runs, and for two metadata updates to contend for the one semaphore permit.
- **Failed attempts.** Three failed batch calls let the first ERC-20 registration fail again on a retry. They are bounded because they are transient. The parse errors of a `malformed` token and the decoding errors are not bounded: they repeat for as long as the URI stays the same. One URI change is enough to make a registration and an update fail and to make an NFT mint in a later tick retry for ever.

- **Tasks.** Three running tasks let several things overlap: the writes of two entities of one model (different ids, one dependency), the register task they wait for, and the controllers. The ten-event tick still serializes the three writes of `(m1, e1)` and the two of `(m1, e2)`. The failure bound lets a transient error hit any task.
- **Subscriptions.** A channel of capacity 1 makes full channels common. Two clients, one with two possible ids, let a client subscribe, update, close and be removed while the other is served. Two or three published values give a removal before a later publish.

### Fairness

`Engine::start` loops forever. Provider and processing errors are transient: each one leads to a back-off and a retry. Strong fairness is therefore assumed for `Fetch` (one of the three `fetch_data` outcomes) and for `ProcessOk`. A fetch or a commit that keeps being possible eventually succeeds. `ReadCursors` has weak fairness, because it is only ever delayed by the polling interval. Nothing is assumed about the chain: blocks and transactions may stop arriving. In ErcCache the engine steps (`StartTick`, `Commit`, `Rollback`) are weakly fair, because `Engine::start` loops for ever. Each task is strongly fair. The tokio runtime keeps polling spawned tasks, but a task waiting for the token's `Mutex` or for the metadata `Semaphore` is only intermittently enabled. Both primitives queue waiters fairly (FIFO). Nothing is assumed about URI changes or class replacements. In the subscription modules the Service task is weakly fair: it is a spawned tokio task that keeps being polled whenever it can progress. In `event_fanout` only the clients in `Readers` are weakly fair in `Read`: `c2` may stall forever, and `PublisherProgress` still holds. The entity runs check only safety and refinement, so they assume no fairness.

## Plan

1. `Engine` (done): the tick loop, with the three findings above.
2. `ErcCache` (done): ERC handling from `erc.rs`, composed with the engine's commit and rollback. It covers:
   - `handle_erc20_transfer` and `handle_nft_transfer` updating `erc_cache`;
   - `try_register_*_token_metadata` under the per-token lock, run by concurrent tasks, the NFT one with a metadata permit taken under the lock;
   - `update_nft_metadata` and the `nft_metadata_semaphore`;
   - `apply_cache_diff`.

   Properties:
   - every token is registered once;
   - the committed balances equal the committed transfers;
   - no balance diff names a token that is not registered.

   Hazards: the missing re-check after the lock, the rollback that keeps `erc_cache`, and the undecodable URI that stops indexing.
3. `TaskManager` (done): same-id FIFO order, dependencies, `max_concurrent_tasks` and clearing after a failure, with the task identifiers of `store_del_record.rs` and `controller.rs`.
4. `EntitySubscriptions` and `EventSubscriptions` (done). They cover:
   - the `RwLock`;
   - bounded channels;
   - clients that stall or disconnect;
   - the resurrection finding.
5. `Indexer` (done): an abstract specification of the engine. `engine_core` checks, with `INSTANCE ... WITH`, that `Engine` refines it.
6. `Broker` (done): the abstract subscription broker. `entity_fanout` and `event_fanout` check that both fan-outs refine it.

## Not modelled

- **The provider, gRPC transport, CLI and migrations.** They are I/O. The chain actions of `Engine` stand in for the provider.
- **Token metadata content** (`fetch_metadata`, the selector calls). A URI is modelled only by its shape, which decides whether `fetch_token_uri` fails. The HTTP/IPFS/data-URI fetching and the JSON parsing always degrade to empty metadata, so they are left out as I/O. Of the ERC-20 `name`/`symbol`/`decimals` answers, only whether they parse is kept (`malformed`).
- **Block timestamps.** Events carry the timestamp of their block, which `fetch_range` requests by number, except for the block equal to the latest number the tick read, which it requests with the `Latest` tag (`engine.rs:380`). A block mined in between lends that block a later timestamp, so `executed_at` can go backwards across ticks. Spec §4.7 f prescribes the tag, so this is listed as a hazard. Timestamps change no cursor or control flow, so they are not part of the state.
- **Database errors.** `cursors()`, `apply_cache_diff()`, `execute()` and `rollback()` end `Engine::start` with `?` when the database fails (`engine.rs:186`, `207-208`, `216`), and indexing stops until the process is restarted. `Engine` assumes that the database never fails, and `CatchUp` holds only under that assumption. A restart re-reads the committed cursors, so safety is unaffected.
- **The `TRANSACTIONS` flag path** (`process_transaction`), `process_block` and the catch-all processor. They dispatch to processors that are not in this repository, and they do not change the cursors. The block and catch-all processors run inline, ahead of the range's deferred tasks. This is listed as an ordering hazard (`engine.rs:617`).
- **Subscription filters and parsing.** `match_entity`, `match_keys` and the felt parsing of `process_entity_update` and `process_event` are left out. Every update matches every subscriber, and ids and keys are produced by torii, so they parse.
- **World processors not in this repository** (`RegisterModel`, `StoreSetRecord`, `StoreUpdateRecord`, `StoreUpdateMember`, `EventEmitted`). Their ids and dependencies follow spec.md §4.5. Only `RegisterModel` and `StoreSetRecord` appear in `TaskManager`.
