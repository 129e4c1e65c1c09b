------------------------------ MODULE ErcCache ------------------------------
(***************************************************************************)
(* ERC transfer handling (crates/sqlite/sqlite/src/erc.rs) inside the      *)
(* engine's tick: the transfer tasks of a tick run concurrently under the  *)
(* task manager; each registers its token once behind the per-token lock   *)
(* of the local cache (try_register_erc20_token_metadata), queues its      *)
(* transfer row and adds its balance deltas to erc_cache.  The engine then *)
(* commits (apply_cache_diff + execute) or rolls back (rollback +          *)
(* clear_tasks) and retries the tick.  NFT transfers                      *)
(* (handle_nft_transfer) register contract:id the same way but fetch the  *)
(* metadata under a permit of nft_metadata_semaphore, taken while the     *)
(* token's mutex is held; update_nft_metadata tasks refetch the metadata  *)
(* of a registered NFT under a permit.  The NFT contracts are the        *)
(* environment: a token's URI, read at the pending block on every fetch,  *)
(* may change between ticks.                                               *)
(*                                                                         *)
(* The executor transaction is `queue`; what execute() made durable is     *)
(* `committed`.  erc_cache and the registered marks are in-memory state    *)
(* of the local cache: no rollback touches them.                           *)
(***************************************************************************)
EXTENDS Naturals, Integers, Sequences, FiniteSets, FiniteSetsExt, TLC

CONSTANTS
  Tokens,          \* token ids (contract address, or contract:id for NFTs)
  Holders,         \* non-zero account addresses
  Zero,            \* Felt::ZERO, the mint/burn address
  NftTokens,       \* the token ids of the form contract:id
  InitialMalformed, \* ERC-20 tokens whose name/symbol/decimals do not parse at start
  Ticks,           \* the events of each tick: Seq of Seq of transfers and updates
  MaxConcurrent,   \* max_concurrent_tasks of the task manager
  NftPermits,      \* permits of nft_metadata_semaphore
  UriShapes,       \* what token_uri / tokenURI / uri answer, by shape
  InitialUri,      \* NftTokens -> UriShapes: the URIs when indexing starts
  MaxUriChanges,   \* bound: URI changes made by the NFT contracts
  MaxUpgrades,     \* bound: ERC-20 contracts replacing their class
  MaxFailures,     \* bound: failed RPC batch calls of ERC-20 registrations
  None             \* no task holds the lock

Transfer == [kind : {"transfer"}, token : Tokens,
             from : Holders \cup {Zero}, to : Holders \cup {Zero}, amount : Nat]
(* An update_nft_metadata call for one NFT.                                *)
MetadataUpdate == [kind : {"update"}, token : NftTokens]

ASSUME /\ Zero \notin Holders /\ NftTokens \subseteq Tokens
       /\ InitialMalformed \subseteq Tokens \ NftTokens /\ MaxUpgrades \in Nat
       /\ Ticks \in Seq(Seq(Transfer \cup MetadataUpdate))
       /\ MaxConcurrent \in Nat \ {0} /\ NftPermits \in Nat \ {0} /\ MaxFailures \in Nat
       /\ UriShapes = {"string", "unknown", "undecodable"}
       /\ InitialUri \in [NftTokens -> UriShapes] /\ MaxUriChanges \in Nat

Slots == 1..Max({Len(Ticks[k]) : k \in DOMAIN Ticks} \cup {0})

VARIABLES
  tick,        \* the tick being indexed (Len(Ticks) + 1 when all are done)
  failures,    \* failed ERC-20 metadata batch calls so far
  epc,         \* engine: "idle" or "processing" (process_tasks running)
  tpc,         \* Slots -> where each transfer task of the tick is
  holder,      \* Tokens -> the task holding the token's registration mutex
  registered,  \* Tokens -> marked by mark_token_registered
  permits,     \* permits of nft_metadata_semaphore held
  ercCache,    \* local_cache.erc_cache: balance id <<holder, token>> -> delta
  queue,       \* messages sent to the executor in the open transaction
  committed,   \* messages made durable by execute(), in order
  uri,         \* NftTokens -> the shape of the token's URI now
  uriChanges,  \* URI changes so far
  malformed,   \* ERC-20 tokens whose name/symbol/decimals do not parse now
  upgrades     \* class replacements so far

contractVars == <<uri, uriChanges, malformed, upgrades>>
vars == <<contractVars, tick, failures, epc, tpc, holder, registered, permits, ercCache, queue, committed>>

Tasks == IF tick <= Len(Ticks) THEN DOMAIN Ticks[tick] ELSE {}
Ev(i) == Ticks[tick][i]
IsNft(i) == Ev(i).token \in NftTokens

Running == {i \in Tasks : tpc[i] \in {"wait", "permit", "rpc", "mark", "record", "upermit", "ufetch"}}
Failed  == {i \in Tasks : tpc[i] = "failed"}

(* erc_cache.entry(id).or_default() followed by += d.                     *)
AddDelta(c, k, d) == IF k \in DOMAIN c THEN [c EXCEPT ![k] = @ + d] ELSE c @@ (k :> d)

(* Mutant: the zero-address checks dropped.                             *)
ApplyTransferWithZero(c, e) ==
  AddDelta(AddDelta(c, <<e.from, e.token>>, -e.amount), <<e.to, e.token>>, e.amount)

(* The balance updates of one transfer: from loses, to gains, except for  *)
(* the zero address.                                                      *)
ApplyTransfer(c, e) ==
  LET c1 == IF e.from # Zero THEN AddDelta(c, <<e.from, e.token>>, -e.amount) ELSE c
  IN IF e.to # Zero THEN AddDelta(c1, <<e.to, e.token>>, e.amount) ELSE c1

(* Mutant: a URI that is neither a ByteArray nor an Array<Felt> is an     *)
(* error instead of the empty URI.                                        *)
TokenUriFailsUnknown(t) == uri[t] \in {"undecodable", "unknown"}

(* fetch_token_uri: a selector that does not answer, or an answer that is *)
(* neither a ByteArray nor an Array<Felt>, gives the empty URI (and empty *)
(* metadata, as does a failed HTTP/IPFS fetch); a ByteArray that is not    *)
(* UTF-8, or felts that are not short strings, return an error that        *)
(* fetch_token_metadata propagates.                                        *)
TokenUriFails(t) == uri[t] = "undecodable"

-----------------------------------------------------------------------------
(* Task identifiers: a transfer's is derived from (contract, from, to,    *)
(* token_id); an update's from the NFT it names.                           *)
TaskId(e) == IF e.kind = "transfer" THEN <<e.token, e.from, e.to>> ELSE <<e.token>>

(* The task manager starts a pending task while fewer than MaxConcurrent  *)
(* run, no task of the tick has failed (a failure clears pending work)     *)
(* and the tasks of its id enqueued before it are done (the FIFO slot).    *)
CanStart(i) ==
  /\ epc = "processing"
  /\ tpc[i] = "pending"
  /\ Cardinality(Running) < MaxConcurrent
  /\ Failed = {}
  /\ \A j \in Tasks : j < i /\ TaskId(Ev(j)) = TaskId(Ev(i)) => tpc[j] = "done"

(* A transfer task enters handle_erc20_transfer or handle_nft_transfer    *)
(* and calls get_token_registration_lock: no lock once the token is       *)
(* marked, and the task goes on to record the transfer.                   *)
StartTask(i) ==
  /\ CanStart(i) /\ Ev(i).kind = "transfer"
  /\ tpc' = [tpc EXCEPT ![i] = IF registered[Ev(i).token] THEN "record" ELSE "wait"]
  /\ UNCHANGED <<contractVars, tick, failures, epc, holder, registered, permits, ercCache, queue, committed>>

(* Mutant: the token is marked registered as soon as the lock is taken,  *)
(* before its metadata call.                                              *)
AcquireLockMarkFirst(i) ==
  /\ tpc[i] = "wait"
  /\ holder[Ev(i).token] = None
  /\ holder' = [holder EXCEPT ![Ev(i).token] = i]
  /\ registered' = [registered EXCEPT ![Ev(i).token] = TRUE]
  /\ tpc' = [tpc EXCEPT ![i] = IF IsNft(i) THEN "permit" ELSE "rpc"]
  /\ UNCHANGED <<contractVars, tick, failures, epc, permits, ercCache, queue, committed>>

(* _lock.lock().await: the token's mutex is free.  An NFT registration    *)
(* then waits for a metadata permit, still holding the mutex.             *)
AcquireLock(i) ==
  /\ tpc[i] = "wait"
  /\ holder[Ev(i).token] = None
  /\ holder' = [holder EXCEPT ![Ev(i).token] = i]
  /\ tpc' = [tpc EXCEPT ![i] = IF IsNft(i) THEN "permit" ELSE "rpc"]
  /\ UNCHANGED <<contractVars, tick, failures, epc, registered, permits, ercCache, queue, committed>>

(* try_register_nft_token_metadata: nft_metadata_semaphore.acquire().await *)
AcquirePermit(i) ==
  /\ tpc[i] = "permit"
  /\ permits < NftPermits
  /\ permits' = permits + 1
  /\ tpc' = [tpc EXCEPT ![i] = "rpc"]
  /\ UNCHANGED <<contractVars, tick, failures, epc, holder, registered, ercCache, queue, committed>>

(* The name/symbol/decimals batch call succeeds, the answers parse, and  *)
(* RegisterErc20Token is sent to the executor.                             *)
RegisterOk(i) ==
  /\ tpc[i] = "rpc" /\ ~IsNft(i)
  /\ Ev(i).token \notin malformed
  /\ queue' = Append(queue, [type |-> "register", token |-> Ev(i).token])
  /\ tpc' = [tpc EXCEPT ![i] = "mark"]
  /\ UNCHANGED <<contractVars, tick, failures, epc, holder, registered, permits, ercCache, committed>>

(* The batch call fails (the provider is overloaded or times out): the    *)
(* error returns from the task, dropping the mutex guard.                  *)
RegisterFail(i) ==
  /\ tpc[i] = "rpc" /\ ~IsNft(i)
  /\ failures < MaxFailures
  /\ failures' = failures + 1
  /\ holder' = [holder EXCEPT ![Ev(i).token] = None]
  /\ tpc' = [tpc EXCEPT ![i] = "failed"]
  /\ UNCHANGED <<contractVars, tick, epc, registered, permits, ercCache, queue, committed>>

(* The contract's answers do not parse (a name or symbol that is neither  *)
(* a short string nor a UTF-8 ByteArray, decimals that are not a u8, or   *)
(* a call that reverts): the error returns, dropping the guard, and does  *)
(* so on every retry while the contract keeps its class.                   *)
RegisterMalformed(i) ==
  /\ tpc[i] = "rpc" /\ ~IsNft(i)
  /\ Ev(i).token \in malformed
  /\ holder' = [holder EXCEPT ![Ev(i).token] = None]
  /\ tpc' = [tpc EXCEPT ![i] = "failed"]
  /\ UNCHANGED <<contractVars, tick, failures, epc, registered, permits, ercCache, queue, committed>>

(* fetch_token_metadata returns (empty metadata when no URI answers or    *)
(* the URI cannot be fetched) and RegisterNftToken is sent.                *)
RegisterNftOk(i) ==
  /\ tpc[i] = "rpc" /\ IsNft(i)
  /\ ~TokenUriFails(Ev(i).token)
  /\ queue' = Append(queue, [type |-> "register", token |-> Ev(i).token])
  /\ tpc' = [tpc EXCEPT ![i] = "mark"]
  /\ UNCHANGED <<contractVars, tick, failures, epc, holder, registered, permits, ercCache, committed>>

(* fetch_token_metadata fails (the token URI does not decode): the error  *)
(* returns, dropping the permit and the mutex guard.                       *)
RegisterNftFail(i) ==
  /\ tpc[i] = "rpc" /\ IsNft(i)
  /\ TokenUriFails(Ev(i).token)
  /\ holder' = [holder EXCEPT ![Ev(i).token] = None]
  /\ permits' = permits - 1
  /\ tpc' = [tpc EXCEPT ![i] = "failed"]
  /\ UNCHANGED <<contractVars, tick, failures, epc, registered, ercCache, queue, committed>>

(* mark_token_registered, then the guard (and an NFT's permit) is dropped *)
(* on return.                                                              *)
MarkRegistered(i) ==
  /\ tpc[i] = "mark"
  /\ registered' = [registered EXCEPT ![Ev(i).token] = TRUE]
  /\ holder' = [holder EXCEPT ![Ev(i).token] = None]
  /\ permits' = IF IsNft(i) THEN permits - 1 ELSE permits
  /\ tpc' = [tpc EXCEPT ![i] = "record"]
  /\ UNCHANGED <<contractVars, tick, failures, epc, ercCache, queue, committed>>

(* store_erc_transfer_event: the token_transfers row, keyed by            *)
(* event_id:token_id.                                                      *)
TransferRow(i) == [type |-> "transfer", id |-> <<tick, i>>, token |-> Ev(i).token]

(* handle_erc20_transfer: the transfer row is queued, then the deltas are *)
(* added to erc_cache under its write lock.                                *)
RecordTransfer(i) ==
  /\ tpc[i] = "record" /\ ~IsNft(i)
  /\ queue' = Append(queue, TransferRow(i))
  /\ ercCache' = ApplyTransfer(ercCache, Ev(i))
  /\ tpc' = [tpc EXCEPT ![i] = "done"]
  /\ UNCHANGED <<contractVars, tick, failures, epc, holder, registered, permits, committed>>

(* handle_nft_transfer: the same, with balance ids holder/contract:id.    *)
RecordNftTransfer(i) ==
  /\ tpc[i] = "record" /\ IsNft(i)
  /\ queue' = Append(queue, TransferRow(i))
  /\ ercCache' = ApplyTransfer(ercCache, Ev(i))
  /\ tpc' = [tpc EXCEPT ![i] = "done"]
  /\ UNCHANGED <<contractVars, tick, failures, epc, holder, registered, permits, committed>>

(* update_nft_metadata: a token the local cache has not marked returns    *)
(* Ok at once; otherwise the task waits for a metadata permit.            *)
StartUpdate(i) ==
  /\ CanStart(i) /\ Ev(i).kind = "update"
  /\ tpc' = [tpc EXCEPT ![i] = IF registered[Ev(i).token] THEN "upermit" ELSE "done"]
  /\ UNCHANGED <<contractVars, tick, failures, epc, holder, registered, permits, ercCache, queue, committed>>

(* update_nft_metadata: nft_metadata_semaphore.acquire().await             *)
UpdatePermit(i) ==
  /\ tpc[i] = "upermit"
  /\ permits < NftPermits
  /\ permits' = permits + 1
  /\ tpc' = [tpc EXCEPT ![i] = "ufetch"]
  /\ UNCHANGED <<contractVars, tick, failures, epc, holder, registered, ercCache, queue, committed>>

(* fetch_token_metadata returns and UpdateNftMetadata is sent; the permit *)
(* is dropped on return.                                                   *)
UpdateOk(i) ==
  /\ tpc[i] = "ufetch"
  /\ ~TokenUriFails(Ev(i).token)
  /\ queue' = Append(queue, [type |-> "update", token |-> Ev(i).token])
  /\ permits' = permits - 1
  /\ tpc' = [tpc EXCEPT ![i] = "done"]
  /\ UNCHANGED <<contractVars, tick, failures, epc, holder, registered, ercCache, committed>>

(* fetch_token_metadata fails: the error returns with the permit dropped. *)
UpdateFail(i) ==
  /\ tpc[i] = "ufetch"
  /\ TokenUriFails(Ev(i).token)
  /\ permits' = permits - 1
  /\ tpc' = [tpc EXCEPT ![i] = "failed"]
  /\ UNCHANGED <<contractVars, tick, failures, epc, holder, registered, ercCache, queue, committed>>

-----------------------------------------------------------------------------
(* The engine dispatches the tick's transfer events to the task manager.  *)
StartTick ==
  /\ epc = "idle"
  /\ tick <= Len(Ticks)
  /\ epc' = "processing"
  /\ tpc' = [i \in Slots |-> IF i \in DOMAIN Ticks[tick] THEN "pending" ELSE "idle"]
  /\ UNCHANGED <<contractVars, tick, failures, holder, registered, permits, ercCache, queue, committed>>

(* process_tasks has returned: every task finished, or failed with the    *)
(* rest of the pending tasks cleared.                                      *)
Settled == \A i \in Tasks : tpc[i] \in {"done", "failed"} \/ (tpc[i] = "pending" /\ Failed # {})

(* Mutant: apply_cache_diff sends the diff but keeps the map.            *)
CommitKeepCache ==
  /\ epc = "processing"
  /\ Settled /\ Failed = {}
  /\ LET q == IF DOMAIN ercCache # {}
              THEN Append(queue, [type |-> "diff", diff |-> ercCache]) ELSE queue
     IN committed' = committed \o q
  /\ queue' = <<>>
  /\ tick' = tick + 1
  /\ epc' = "idle"
  /\ tpc' = [i \in Slots |-> "idle"]
  /\ UNCHANGED <<contractVars, failures, holder, registered, permits, ercCache>>

(* apply_cache_diff: a non-empty erc_cache is sent as ApplyBalanceDiff    *)
(* and replaced by an empty map; execute() commits the transaction.        *)
Commit ==
  /\ epc = "processing"
  /\ Settled /\ Failed = {}
  /\ LET q == IF DOMAIN ercCache # {}
              THEN Append(queue, [type |-> "diff", diff |-> ercCache]) ELSE queue
     IN committed' = committed \o q
  /\ ercCache' = <<>>
  /\ queue' = <<>>
  /\ tick' = tick + 1
  /\ epc' = "idle"
  /\ tpc' = [i \in Slots |-> "idle"]
  /\ UNCHANGED <<contractVars, failures, holder, registered, permits>>

(* rollback discards the transaction, clear_tasks empties the manager;   *)
(* the cursors are unchanged, so the same tick is fetched again.           *)
Rollback ==
  /\ epc = "processing"
  /\ Settled /\ Failed # {}
  /\ queue' = <<>>
  /\ epc' = "idle"
  /\ tpc' = [i \in Slots |-> "idle"]
  /\ UNCHANGED <<contractVars, tick, failures, holder, registered, permits, ercCache, committed>>

(* Every tick is indexed: fetch_data keeps returning None.                *)
NothingToFetch ==
  /\ epc = "idle"
  /\ tick > Len(Ticks)
  /\ UNCHANGED vars

(* The NFT contract changes the URI of token t (the event that announces *)
(* it is an update of the next ticks).                                     *)
SetTokenUri(t, s) ==
  /\ uriChanges < MaxUriChanges
  /\ uri[t] # s
  /\ uri' = [uri EXCEPT ![t] = s]
  /\ uriChanges' = uriChanges + 1
  /\ UNCHANGED <<malformed, upgrades, tick, failures, epc, tpc, holder, registered, permits, ercCache, queue, committed>>

(* An ERC-20 contract replaces its class (replace_class), and its name,  *)
(* symbol and decimals start or stop parsing.                              *)
Upgrade(t) ==
  /\ upgrades < MaxUpgrades
  /\ malformed' = (malformed \ {t}) \cup ({t} \ malformed)
  /\ upgrades' = upgrades + 1
  /\ UNCHANGED <<uri, uriChanges, tick, failures, epc, tpc, holder, registered, permits, ercCache, queue, committed>>

Init ==
  /\ uri = InitialUri
  /\ uriChanges = 0
  /\ malformed = InitialMalformed
  /\ upgrades = 0
  /\ tick = 1
  /\ failures = 0
  /\ epc = "idle"
  /\ tpc = [i \in Slots |-> "idle"]
  /\ holder = [t \in Tokens |-> None]
  /\ registered = [t \in Tokens |-> FALSE]
  /\ permits = 0
  /\ ercCache = <<>>
  /\ queue = <<>>
  /\ committed = <<>>

TaskStep(i) ==
  \/ StartTask(i) \/ AcquireLock(i) \/ AcquirePermit(i)
  \/ RegisterOk(i) \/ RegisterFail(i) \/ RegisterMalformed(i)
  \/ RegisterNftOk(i) \/ RegisterNftFail(i)
  \/ MarkRegistered(i) \/ RecordTransfer(i) \/ RecordNftTransfer(i)
  \/ StartUpdate(i) \/ UpdatePermit(i) \/ UpdateOk(i) \/ UpdateFail(i)

Next ==
  \/ \E i \in Slots : TaskStep(i)
  \/ StartTick \/ Commit \/ Rollback \/ NothingToFetch
  \/ \E t \in NftTokens, s \in UriShapes : SetTokenUri(t, s)
  \/ \E t \in Tokens \ NftTokens : Upgrade(t)

(* Engine::start loops for ever, and the tokio runtime keeps polling the  *)
(* spawned tasks.  A task waiting on the token's Mutex or on the metadata *)
(* Semaphore is only intermittently able to go on; both are fair (FIFO)   *)
(* in tokio, hence strong fairness per task.  The NFT contracts are not    *)
(* bound to change a URI, nor the ERC-20 contracts their class.           *)
Fairness ==
  /\ WF_vars(StartTick) /\ WF_vars(Commit) /\ WF_vars(Rollback)
  /\ \A i \in Slots : SF_vars(TaskStep(i))

Spec == Init /\ [][Next]_vars /\ Fairness

-----------------------------------------------------------------------------
States == {"idle", "pending", "wait", "permit", "rpc", "mark", "record",
           "upermit", "ufetch", "done", "failed"}

(* Types; no balance row is ever kept for the zero address, and no more   *)
(* metadata fetches run than the semaphore has permits.                    *)
TypeOK ==
  /\ tick \in 1..Len(Ticks) + 1 /\ failures \in 0..MaxFailures
  /\ epc \in {"idle", "processing"} /\ tpc \in [Slots -> States]
  /\ holder \in [Tokens -> Slots \cup {None}] /\ registered \in [Tokens -> BOOLEAN]
  /\ permits \in 0..NftPermits
  /\ uri \in [NftTokens -> UriShapes] /\ uriChanges \in 0..MaxUriChanges
  /\ malformed \subseteq Tokens \ NftTokens /\ upgrades \in 0..MaxUpgrades
  /\ DOMAIN ercCache \subseteq Holders \X Tokens
  /\ \A k \in DOMAIN ercCache : ercCache[k] \in Int

RegistersOf(t) == {k \in DOMAIN committed : committed[k] = [type |-> "register", token |-> t]}
DiffsAt == {k \in DOMAIN committed : committed[k].type = "diff"}
TransferRows == {committed[k].id : k \in {j \in DOMAIN committed : committed[j].type = "transfer"}}

(* Single-flight registration (spec S5): the store receives at most one  *)
(* Register*Token per token id, however the transfer tasks interleave     *)
(* around get_token_registration_lock and the mutex.                      *)
SingleRegistration == \A t \in Tokens : Cardinality(RegistersOf(t)) <= 1

(* Every balance id of a committed ApplyBalanceDiff names a token whose   *)
(* Register*Token was committed before it (spec section 8, property 5).   *)
RegisteredBeforeBalance ==
  \A k \in DiffsAt : \A b \in DOMAIN committed[k].diff :
    \E j \in RegistersOf(b[2]) : j < k

(* The committed balances are the sums of the committed transfer rows:    *)
(* erc_cache carries each committed transfer exactly once into an         *)
(* ApplyBalanceDiff, across rollbacks and retries of a tick.               *)
CommittedBalance(h, t) ==
  MapThenSumSet(LAMBDA k : IF <<h, t>> \in DOMAIN committed[k].diff
                           THEN committed[k].diff[<<h, t>>] ELSE 0, DiffsAt)
RowsBalance(h, t) ==
  MapThenSumSet(LAMBDA r : LET e == Ticks[r[1]][r[2]] IN
                  (IF e.token = t /\ e.to = h THEN e.amount ELSE 0)
                  - (IF e.token = t /\ e.from = h THEN e.amount ELSE 0),
                TransferRows)
BalancesMatchTransfers ==
  \A h \in Holders, t \in Tokens : CommittedBalance(h, t) = RowsBalance(h, t)

(* The URIs that the NFT events of ticks 1..k fetch decode now, and no   *)
(* ERC-20 token those ticks register has metadata that does not parse.    *)
MetadataFetchable(k) ==
  \A j \in 1..k : \A i \in DOMAIN Ticks[j] :
    /\ Ticks[j][i].token \in NftTokens => uri[Ticks[j][i].token] # "undecodable"
    /\ Ticks[j][i].token \notin malformed

(* Tick progress: as long as the metadata its tokens need keeps being     *)
(* fetchable, each tick is eventually committed.  The engine retries a    *)
(* rolled-back tick, a failed batch call is transient, and every          *)
(* registration mutex and semaphore permit a failing task held is given   *)
(* back, so no retry waits for ever and no error repeats on every retry.  *)
TicksCommitted ==
  \A k \in DOMAIN Ticks : [](MetadataFetchable(k)) => <>(tick > k)

(* Spec section 7 (propagation policy): metadata fetches degrade to empty *)
(* metadata and never fail a tick, so every tick is eventually committed  *)
(* whatever the token URIs are.                                            *)
AllTicksCommitted == \A k \in DOMAIN Ticks : <>(tick > k)
=============================================================================
