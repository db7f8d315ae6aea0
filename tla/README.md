# TLA+ models of the xuperos miner

This directory holds TLA+ models of the block-producing core of the
xuperos engine, type `Miner` in
`src/kernel/engines/xuperos/xpb/xpb.pb.go`. Each module is checked with
TLC. Each model is translated from the Go source. `PROJECT.json` maps
every definition to the lines it models.

## The system

The repository snapshot holds three things:

| Source | Lines | What it is |
|---|---|---|
| `xpb.pb.go` 1-450 | generated | protobuf messages (ChainStatus, TipStatus, BlockID, ...) |
| `xpb.pb.go` 490-1888 | hand-written | the `Miner`: loop, mining, sync, ingress, side tables |
| `bcs/contract/xvm/*.go` | 200 | the XVM ahead-of-time compiler wrapper |
| `unnamed/part_000` | 148 | the network context and the p2p `Server` interface |

The ledger, the state machine, the consensus and the network are
collaborators. The Miner calls them, but their code is not in this
snapshot.

### Parts of the Miner and how they interact

- **Mining loop (`Start`, 596-670).** One goroutine. Each iteration runs
  these steps in order:
  1. It walks the state machine to the ledger tip it snapshotted at the
     end of the previous iteration. This walk does *not* hold the miner
     mutex.
  2. It asks consensus `CompeteMaster`.
  3. It reads the term table (`ReadTermTable`). On a new cycle it
     rewrites the candidate cache (`UpdateCacheTable`).
  4. If elected, it syncs (`trySyncBlock(nil)`) and mines (`mining`).
  5. It clears the thaw schedule for `TrunkHeight-1` (`ClearThawTx`).
  6. It sleeps 3 s on error, then re-reads the two tips.

  `Stop` sets `isExit`. It then waits for the loop.
- **Mining (`mining`, 980-1044).** Runs under `minerMutex`:
  1. Walk the state machine to the ledger tip.
  2. `ProcessBeforeMiner`, which may name a truncation target. If so,
     `truncateForMiner` walks the state machine back, then truncates the
     ledger.
  3. `packBlock` (award, timer, mempool, thaw and vote txs, then
     `FormatMinerBlock` on the state machine's tip).
  4. `confirmBlockForMiner` (CalculateBlock, Ledger.ConfirmBlock,
     PlayForMiner, ProcessConfirmBlock).
  5. A detached `broadcastBlock`.
- **Ingress (`ProcBlock`, 548-592).** One goroutine per block a peer
  pushes. It runs these gates in order:
  1. Size.
  2. Height and id against the in-sync target. This is read without the
     mutex.
  3. Tx validity.
  4. The atomic `minerQueue` counter, bounded by `MaxBlockQueueSize`.

  Then it calls `trySyncBlock(block)`.
- **Sync (`trySyncBlock`, `syncBlock`, `downloadMissBlock`,
  `batchConfirmBlock`, 1496-1765).** Discovery is lock-free: the loop
  runs `getWholeNetLongestBlock` and the `countConfirmBlock` quorum. The
  rest runs under `minerMutex`:
  1. Ignore stale or known targets.
  2. Record the in-sync target.
  3. Walk the state machine to the ledger tip.
  4. Backfill the missing ancestors.
  5. Confirm them oldest first.
  6. A deferred walk repairs the state machine.

  On error, a deferred function resets the in-sync target to the ledger
  tip.
- **Side tables (`ReadTermTable`, `UpdateCacheTable`, `GetThawTx`,
  `ClearThawTx`).** These are read-modify-writes of rows of the confirmed
  table. They go through the ledger's shared `ConfirmBatch` and are called
  from the loop *without* the mutex. The batch is never `Reset`: those
  calls are commented out.

## Modules

| Module | Models | State | Actions |
|---|---|---|---|
| `Miner` | loop, mining, sync, ingress, Stop, broadcast | ledger blocks and tip, state-machine tip, mutex holder, in-sync target, `minerQueue`, `isExit`, per-thread pc/err/target/blkIds, the loop's locals | one action per step of `Start`, one per phase of `mining`, one per phase of `trySyncBlock`/`syncBlock`/`batchConfirmBlock`, `ProcBlock` split at its atomic operations, `Stop`, `broadcastBlock`, peers producing |
| `TermTable` | `ReadTermTable`, `UpdateCacheTable` | consensus term, committed rows (term row, `cache_<addr>`), the `ConfirmBatch` as staged puts, `ballot_<addr>` rows, the loop's pc, failure budget, a history of reported cycles | read-and-stage and write of `ReadTermTable`; candidate read, per-candidate rewrite (with its early return) and write of `UpdateCacheTable`; new term, vote, ClearThawTx's write of the same batch |
| `Thaw` | `GetThawTx` (as `packBlock` uses it), `ClearThawTx` | trunk height, per-height payouts and unbonds of trunk blocks, per-address `frozen`/`thaw`/`total`, the node schedule, `ClearThawTx`'s locals | mining a block (with a failing `GetThawTx`), an iteration without mining, a sync confirming a block, `ClearThawTx` split at its reads and writes |
| `LoopTables` | the loop iteration over the confirmed table | both modules' state, one shared failure budget, the loop's stage | `TermTable`'s steps, then mining and `ClearThawTx`, whose `Write`s commit the shared batch; terms, votes and syncs at any time |
| `Chain` | what the miner promises of ledger and state machine (spec 2, 4.6-4.8) | ledger blocks, head, state-machine block | attach a block, cut back to an ancestor of the head, walk the state machine |
| `SyncQuorum` | `getWholeNetLongestBlock`, `BCSByHeight`, `isConfirmed`, `countConfirmBlock` | the parsed chain statuses, the probe index, a history of probes, the result | status query, unstable sort, one probe, exhaustion |
| `PackBlock` | `packBlock`, `getTimerTx`, `getUnconfirmedTx`, `getAwardTx`, `convertConsData` | the inputs of one call (size limit, mempool, flag, award split) and the tx list | one `packBlock` call over all collaborator answers and failures, the next call |
| `Download` | `downloadMissBlock`, `getBlock` | the ledger and pending store (fixed but arbitrary), the target, `beginBlock`, `blkIds`, the function's pc and error | one pass of the loop (genesis check, pending block, `getBlock` with its failures, `SavePendingBlock` with its failure), the return |
| `SyncAndPack` | an iteration that syncs, then mines | the three modules' state, `trySyncBlock`'s target, the stage | the target search, `trySyncBlock`/`syncBlock`'s ledger checks, the backfill, its end with `batchConfirmBlock`'s outcome, `packBlock`, the next iteration |
| `XVMCreator` | `newXVMCreator`, `CompileCode`, `MakeExecCode`, `isLegacyAOT`, `resolveSymbols` (darwin) | the creator's state and `vmconfig`, the file at each contract's output path, the legacy flag of each contract's loaded code, leaked temporary directories, a panic | construction, one compile call, one load call |
| `MC*` | model values and small sets for each module | | |

### How `Miner` corresponds to the code

- **Blocks.** A block is its path of producer addresses from genesis
  (`<< >>`). Its height is `Len`, its `pre_hash` is `Front`, and its id
  is the path itself. A fork is two paths with a common prefix.
- **Ledger.** `ledger` and `tip` model the ledger's blocks and
  `GetMeta().TipBlockid`. `ConfirmBlock` attaches a block of height
  at most the trunk to a branch (`Orphan`); a higher block becomes the
  tip. `Truncate` removes the blocks above the target.
- **State machine.** `stateTip` is `State.GetLatestBlockid()`. A failed
  `Walk` leaves the state machine anywhere on the path it was walking
  (`WalkPath`).
- **Failures.** Every collaborator call that returns an error is a
  disjunct that consumes one unit of the failure budget `MaxFailures`.
- **Threads.** `pc` holds one program counter per thread: the loop and
  each ingress task. `lock` is `minerMutex`. `err`, `target` and
  `blkIds` are the threads' locals. The loop's locals are `isMiner`,
  `isSync`, the two tip snapshots, `height` and `packed`.
- **Split actions.** An action is split only where the code lets
  another goroutine run in between:
  - at a mutex acquisition;
  - between the separate atomic operations of `ProcBlock`;
  - between the unlocked steps of the loop.

  Each step of `batchConfirmBlock` confirms one block, because every
  block goes through ledger and state calls that may fail on their own.
- **History.** `elected` is a history variable. It records whether
  `CompeteMaster` ran in the current iteration and elected the node.

### How `TermTable` corresponds to the code

- `tbl` is the confirmed table and `batch` the ledger's `ConfirmBatch`:
  a map from key to the last row staged, or `None`. `Committed` is what a
  `Write` makes of the table. Nothing resets the batch (the `Reset` calls
  are commented out at 675 and 724), so every `Write` commits again all
  that was ever staged.
- `NextTermRow` is `ReadTermTable`'s decision (683-704): no row, the
  term already observed (return before staging), a new term (new cycle),
  or the same term after a new-cycle row.
- `fired[t]` counts the calls that returned true for term `t`.
- `OtherWrite` stands for `ClearThawTx`'s `Write` later in the same
  iteration when `TermTable` is read alone; `LoopTables` replaces it by
  the real `ClearThawTx` steps.

### How `Thaw` corresponds to the code

- Every asset amount is one unit, and a `thaw_detail` entry is its
  height. `frozen`, `thaw` and `total` are the fields of `amount_<addr>`,
  `sched` the `nodeinfo_tdos_thaw_total_assets` row.
- `paid[x]` holds the addresses the trunk block at `x` pays back with
  reverse transfers; `unbonds[x]` those whose unbond tx it holds. The
  unbond contract (spec 3, not in this repository) moves a unit from
  `frozen` to a thaw entry `Delay` blocks ahead.
- `Mine` and `Sync` confirm whole blocks under the miner mutex.
  `ClearThawTx` runs without it, so it is split into `ClearStart` (read
  the schedule), `ClearRead` and `ClearPut` per address (the row is read,
  then written back), and `ClearFinal` (delete the height from the
  schedule read at the start).
- `staged` is what `ClearThawTx` put on the ledger's `ConfirmBatch`: the
  last `amount_<addr>` row per address and the last schedule row.
  `ClearThawTx` never resets the batch (1362), so `WriteBatch`, a
  `Write`, commits every row staged so far, including rows staged by
  earlier calls, and the batch keeps them. A failed `Write` (the
  per-address one at 1415, whose error is ignored, or the final one at
  1431) commits nothing, but the row stays staged and the next `Write`
  commits it.
- `cleared` records the `<<address, height>>` entries `ClearThawTx`
  removed.

### How `LoopTables` composes `TermTable` and `Thaw`

- Each component is an `INSTANCE`. Their program counters and work sets
  are renamed (`ttPc`, `ttTodo`, `thPc`, `thTodo`), and `failures` is
  shared, so `MaxFailures` bounds the failures of the whole loop.
- `stage` orders the loop (607-665). `Tables` runs `ReadTermTable` and
  `UpdateCacheTable` (631-634). `ToMining` moves on to sync and mining.
  `ThawLocal` is mining and `ClearThawTx`'s reads. `ClearPutCommit` and
  `ClearFinalCommit` are `ClearThawTx`'s `Put`+`Write` (1413-1415,
  1429-1431); each also commits the term and cache rows left staged on
  the one `ConfirmBatch`. In the other direction, `ReadTermTable`'s and
  `UpdateCacheTable`'s `Write`s (712, 962) commit the amount and schedule
  rows `ClearThawTx` left staged (`ThawRowsCommitted`). A failed `Write`
  commits nothing.
  `IterationEnd` is an early return of `ClearThawTx`, followed by the
  refresh.
- New terms, votes and ingress syncs (`Environment`) interleave with
  every step, because none of these functions holds the miner mutex.

### How `Miner` refines `Chain`

`Chain` is the abstract promise. The ledger is a tree rooted at genesis,
and a block joins only on top of a ledger block. The head is always a
highest block, and the ledger is cut back only to a strict ancestor of
the head. The state machine stands only on ledger blocks. `Miner`
instantiates it with the identity mapping `blocks <- ledger`,
`head <- tip`, `applied <- stateTip`. `ChainRefinement == Abstract!Spec`
is checked as a property of `miner_safety`. Every `Miner` step is
therefore a `Chain` step or a stutter: mining, a sync, a truncation, a
failed walk, a peer's block. One consequence is that `downloadMissBlock`
must confirm the missing blocks oldest first.

### How `XVMCreator` corresponds to the code

- The creator's calls run one after another from the code manager, and
  each temporary directory is private to its call, so each call is one
  step over the outcomes of its file and process calls. A failure that
  changes nothing is a stutter and is left out.
- A symbol name is a sequence of name parts. The compiler (xvm's
  `compile`, not in this repository) names exported wasm function `m`
  `<<ExportPrefix, m>>`; `strings.HasPrefix` is `IsPrefix`. So
  `resolveSymbols` keeps whole names, and `isLegacyAOT` looks up
  `<<Initialize>>`, the bare method name, exactly as the code does.
- `CompileCode`'s outcomes are: the wasm write fails; `x.vmconfig` is
  nil and the dereference at 94 panics; or the copy ends with a whole
  library or, when `WriteFile` fails after truncating, a partial one.
  The deferred `RemoveAll`'s error is dropped, so the directory may be
  left behind.
- `MakeExecCode` loads only a whole library and records the legacy
  flag.
- `CreateInstance`, `getContractCodeCache` and `RemoveCache` only call
  `codeManager` and `createInstance`, which are not in this repository.

### How `SyncQuorum` and `PackBlock` correspond to the code

- A chain status is its tip and trunk height; a probe reply is agree,
  disagree or a message that does not unmarshal. `countConfirmBlock`
  folds the replies with `FoldLeft`; `SortedBy` is every order
  `sort.Sort` may produce, since it is not stable.
- `packBlock` runs under the mutex and reads only collaborators, so one
  call is one step over every combination of their answers and at most
  `MaxFailures` failing calls. A tx is its kind, size and amount.
  `TakeFitting` is `getUnconfirmedTx`'s loop (RECURSIVE).

### How `Download` and `SyncAndPack` correspond to the code

- A block is its path from its genesis, `<<root, producer, ...>>`: the
  id is the path, `PreHash` drops the last element (a genesis block
  has an empty `pre_hash`), `Height` is the length less one.
- `Init` is any state in which `downloadMissBlock` can have just saved
  its target (1613-1622): any ledger tree on the local genesis, a target
  the ledger lacks, and ancestors of the target left pending by an
  earlier sync of it. The ledger and pending store are the Ledger's,
  which is not in this repository; they change under the walk only by
  its own `SavePendingBlock`s, since the walk holds the miner mutex.
- `Walk` is one pass of the `for` loop (1625-1654). The genesis check
  returns `ErrGenesisBlockDiff` with nil ids, a pending parent is
  collected, and otherwise `getBlock` is called: its error, or
  `SavePendingBlock`'s, returns the ids so far.
- `getBlock(id)` is every result of the reply loop (1677-1700) over up
  to `MaxResponses` replies, each a failure header, a message that does
  not unmarshal, a nil block or a block. `FirstBlock` (RECURSIVE) takes
  the first usable one. With `Faulty` false a neighbour answers only
  with the block asked for; with it true, with any block.
- `SyncAndPack` runs `SyncQuorum`, `Download` and `PackBlock` in the
  order of an elected iteration with `isSync` set (638-647). `SyncFound`
  is `getWholeNetLongestBlock`'s return (1499-1505); `SyncStart` is
  `trySyncBlock`'s and `syncBlock`'s checks that skip a target in the
  ledger or below the trunk (1530-1535, 1568-1571); `SyncEnd` is the
  backfill's return with `batchConfirmBlock` succeeding or failing.
  Mining follows only a nil error. Each function's locals are reset
  when it returns, so the phases' state spaces add up instead of
  multiplying.
- `Download` exports `DownloadStart` and `DownloadIdle` as tuples of
  its variables, with `DlIs`/`DlBecomes` to assign them; TLC cannot
  evaluate the prime of an instanced state predicate.

## Runs

| Run | Config | Checks | Result |
|---|---|---|---|
| `miner_safety` | `MCMiner.cfg` | `TypeOK`, `MinedBlockExtendsTip`, `StateTipInLedger`, `ChainRefinement` | pass |
| `miner_queue` | `MCMinerQueue.cfg` | `QueueAdmissionBound` | pass |
| `miner_liveness` | `MCMinerLive.cfg` | `DivergenceRepaired`, `StopTerminates` | pass |
| `miner_election_stale` | `MCMiner_MiningOnlyAfterElection.cfg` | `MiningOnlyAfterElection` | violation |
| `loop_tables` | `MCLoopTables.cfg` | `TypeOK`, `NewCycleAtMostOncePerTerm`, `ThawConservation` | pass |
| `term_table_lost_cycle` | `MCLoopTables_TermRowImpliesReported.cfg` | `TermRowImpliesReported` | violation |
| `thaw_lost_payout` | `MCThaw_ClearedOnlyAfterPayout.cfg` | `ClearedOnlyAfterPayout` | violation |
| `thaw_lost_update` | `MCThaw_PayoutBacked.cfg` | `PayoutBacked` | violation |
| `thaw_schedule_skipped` | `MCThaw_ScheduleDrained.cfg` | `ScheduleDrained` | violation |
| `sync_and_pack` | `MCSyncAndPack.cfg` | `TypeOK`, `TargetIsHighestConfirmed`, `BackfillConnects`, `TxOrder`, `MempoolPrefix` | pass |
| `backfill_faulty_neighbour` | `MCDownload_Faulty.cfg` | `BackfillConnects` | violation |
| `xvm_legacy_flag` | `MCXVMCreator_LegacyFlagMatchesExports.cfg` | `LegacyFlagMatchesExports` | violation |

- **`MinedBlockExtendsTip`.** The block mining formats has the ledger tip
  as `pre_hash` and `TrunkHeight+1` as height. This holds because of two
  things in the code:
  - mining walks the state machine again under the mutex, so the
    unlocked walk with stale snapshots does not matter;
  - the height is recomputed after `truncateForMiner`.
- **`ChainRefinement`.** `Miner` implements `Chain`. Every step of
  the loop, the sync threads, the ingress tasks and the peers is an
  attach, a cut-back to an ancestor of the tip, or a state-machine walk
  (see above).
- **`StateTipInLedger`.** The state machine never points at a block the
  ledger lacks. This holds because `truncateForMiner` walks the state
  machine back before it truncates the ledger.
- **`QueueAdmissionBound`.** Two concurrent ingress tasks never put
  `MaxBlockQueueSize` blocks past the gate.
- **`DivergenceRepaired`.** Every divergence between ledger and state
  machine is eventually repaired, or the miner stops.
- **`StopTerminates`.** After `Stop` the loop exits.
- **Violation: `miner_election_stale`.** It shows that a failed unlocked
  walk leaves `isMiner` from an earlier iteration in place.
  `ReadTermTable` then overwrites `err` with nil (632), so the loop mines
  without having won this iteration's `CompeteMaster`.

The next four results are checked on `LoopTables`, where
`ClearThawTx`'s real steps commit the shared batch.

- **`NewCycleAtMostOncePerTerm`.** `ReadTermTable` reports a new cycle
  at most once per term, although its staged rows stay on the batch and
  every later `Write` (its own and `ClearThawTx`'s) commits them again.
- **Violation: `term_table_lost_cycle`.** A failed `Write` in
  `ReadTermTable` (713) leaves the new-cycle row staged. `ClearThawTx`'s
  `Write` commits it, and the next call finds the term already observed
  and returns false. The cycle is never reported and the candidate cache
  is not rewritten for that term (spec 4.1 says it fires once).
- **`ThawConservation`.** Every `amount_<addr>` row keeps
  `total = frozen + thawing` through `ClearThawTx`'s subtraction and the
  unbond contract's moves.
- **Violation: `thaw_lost_payout`.** `packBlock` ignores a `GetThawTx`
  error (1100-1104) and mines the block without reverse transfers;
  `ClearThawTx` then removes the thaw entries all the same, so the
  unit is gone from `total` and never paid.
- **Violation: `thaw_lost_update`.** `ClearThawTx` reads `amount_<addr>`,
  an ingress sync confirms a block whose unbond adds a thaw entry, and
  `ClearThawTx` writes back the row it read (1413). A later block pays
  back an entry no row holds.
- **Violation: `thaw_schedule_skipped`.** No call fails in this run.
  Ingress syncs confirm two blocks in one iteration, and the loop
  clears only `TrunkHeight-1` (650). The height in between keeps its
  schedule and thaw entries: when `ClearThawTx` next starts, a lower
  height still has an entry.
The remaining results are checked along `SyncAndPack`'s iteration.

- **`TargetIsHighestConfirmed`.** The returned target is the last probed
  candidate, and every status of a higher trunk was probed before it and
  rejected, whatever order the unstable sort gives equal heights.
- **`TxOrder`.** A packed block is award, timer (if it has extension
  outputs), mempool, thaw and vote-award txs, in that order, whichever
  ignored call failed (spec 4.5, 8.6).
- **`MempoolPrefix`.** The mempool txs of a block are a prefix of the
  mempool within the budget the code computes, and the next mempool tx
  does not fit: the loop breaks and never skips.
- **`BackfillConnects`.** The ids `downloadMissBlock` collects are the
  target and its ancestors, newest first, and a walk that returns
  without error ends on a block whose parent the ledger has, so
  `batchConfirmBlock` can attach them oldest first. It holds with
  honest neighbours, whatever the ledger and the pending store hold and
  whichever call fails.
- **Violation: `backfill_faulty_neighbour`.** `getBlock` returns the
  first usable reply without comparing its `Blockid` with the id asked
  for (1697). One neighbour that answers with another block, here the
  local genesis for the parent of a foreign chain's block, makes
  `downloadMissBlock` save it as pending and return ids that are not
  ancestors of the target. Spec 4.7 step 3 fetches `getBlock(cur.pre_hash)`.
  The same missing check lets such a neighbour keep the walk, and the
  miner mutex, busy for as long as it answers (1625).
- **Violation: `xvm_legacy_flag`.** The creator is built, compiles a
  contract that exports `initialize`, and `MakeExecCode` flags it
  legacy. `resolveSymbols` keys the map by whole symbol names such as
  `_export_initialize` (darwin resolver, 28-29), and `isLegacyAOT`
  looks up `initialize` (161), which is never a key. So every AOT
  library counts as legacy. With the lookup made on the whole name,
  the same bounds pass.

### Observations kept out of the runs

The project keeps at most twelve runs. These disagreements were shown by
TLC on the modules above while they were built. No run checks them now:

- `UpdateCacheTable` returns on a cache row that does not parse (809)
  without resetting the batch; the next `Write` commits the rows it had
  already staged, leaving cache rows of two cycles. Spec 4.2 says a
  failure aborts the batch write.
- `countConfirmBlock` tests `>=` where its comment (1803) says "greater
  than". Spec 4.7, 8.4 and S6 (the 2-2-2 tie is accepted) agree with the
  code, so only the comment is stale. Because Go's `len(messages)/3` is 0
  below 3 replies, a probe that gets no reply, or only replies that do
  not unmarshal, confirms a candidate that no neighbour agreed to. No
  property is checked on the count: any statement of it would restate
  line 1804.
- `ClearThawTx`'s final `Put` of the node schedule (1429) stays on the
  batch, which is never reset. The next `Write` of any caller commits
  that old schedule again. This can be `ClearThawTx`'s per-address
  `Write`, or `ReadTermTable`'s or `UpdateCacheTable`'s. It overwrites
  the entries that unbonds confirmed in the meantime added. On
  `LoopTables`, TLC finds a thaw entry above the trunk with no schedule
  entry at its height, and no later block pays it back: a `ClearThawTx`,
  a mined block holding an unbond, then the next `ClearThawTx`'s first
  `Write`. Spec 9 ("Batch re-use") says an unreset batch leaks stale
  writes into the next commit, and calls this an open question.
- `packBlock` subtracts only the timer tx size from `MaxTxSizePerBlock`
  (1087). Spec 4.5 also subtracts the award tx, so a block whose mempool
  txs fill the budget goes over the limit.
- `GenerateVoteAward`'s error is only logged (1136-1139), after
  `getAwardTx` has withheld `remainAward` from the miner award. That
  share is then paid to nobody.

- `syncBlock`'s deferred walk drops its error (1589). `trySyncBlock`
  then returns success with the state machine behind the ledger tip,
  contrary to spec 8.1. `Miner`'s `SyncSuccessLeavesStateAtTip` states
  spec 8.1 and TLC found it violated. `DivergenceRepaired` shows that
  the loop's next walk repairs the divergence.
- `newXVMCreator` accepts a nil `VMConfig` (55), but `CompileCode`
  dereferences `x.vmconfig` (94), so the first compile panics.
  `XVMCreator`'s `NoNilConfigPanic` states this, and TLC found it
  violated in three steps.

### Bounds

- **`MCMiner.cfg`:**
  - one peer;
  - one ingress task;
  - `MaxHeight = 2`: nobody produces above height 2, and consensus elects
    nobody above it;
  - `MaxFailures = 1`;
  - `MaxBlockQueueSize = 2`.

  The interesting cases all occur at these bounds. Examples are a trunk
  switch from the node's block `<<me>>` to the peer's `<<p1,p1>>`, a
  truncation of height 1, an ingress sync racing the loop, and a failure
  at every collaborator call. The run reaches about a million distinct
  states.
- **`MCMinerQueue.cfg`.** Two ingress tasks and no failures. This is the
  smallest setting in which two tasks race on the counter.
- **`MCMinerLive.cfg`.** Like the safety bounds, but with no failures.
  Liveness with a failure budget of one takes about 8 minutes. Failures
  only delay repair, because every failure path returns to the loop's
  refresh.

- **`MCLoopTables.cfg`:**
  - two candidates and two ballot values, so a cache rewrite can stop
    half-way;
  - terms 1..2, enough for a new cycle that is reported or lost;
  - two addresses, heights 1..3 and `Delay = 1`;
  - one failure for the whole loop.

  Each address starts with one unit frozen and one thawing at height 1.
  So a thaw, an unbond by a sync and its later thaw, a truncation, and a
  `ClearThawTx` commit of a staged term row all occur. The run reaches
  2.6 million distinct states in about a minute and a half.
- **`MCThaw_*.cfg` (violations):** `Thaw` alone, with two addresses,
  heights 1..4, `Delay = 1` and one failure (none for
  `ScheduleDrained`), so that a two-block gap fits.
- **`MCSyncAndPack.cfg`:**
  - the target search: tips `<<g1,p1,p2>>` (on the local genesis, two
    blocks up) and `<<g2,p1>>` (a foreign chain), trunk heights 0..2,
    up to three status answers and three probe replies. Three replies
    make `n/3` round (`3/3 = 1`, `2/3 = 0`), and equal heights with
    different tips exercise the unstable sort;
  - the backfill: blocks up to two above their genesis, over two
    producers, every ledger tree on `g1` and every pending subset of
    the target's ancestors, so a target in the ledger, below its trunk,
    one or two blocks ahead, and on a foreign genesis all occur;
  - the pack: limits 0..3, tx sizes 1 and 2, up to three mempool txs,
    one thaw tx, an award of 2 split any way, one failing call. A
    size-2 tx after a size-1 tx under limit 2 exercises the break.

  The iteration loops back, so deadlock is checked. The run reaches
  1.26 million distinct states in under two minutes.
- **`MCDownload_Faulty.cfg` (violation):** `Download` alone with the
  backfill bounds above, two replies per broadcast and a faulty
  neighbour.

- **`MCXVMCreator_LegacyFlagMatchesExports.cfg` (violation):** two
  contracts, one exporting `initialize` and `invoke` and one only
  `invoke`; one internal symbol; OptLevels -1, 0, 3 and 4, which fall
  on both sides of each end of 0..3; a nil config; one leaked temporary
  directory. The creator stops after it fails, so deadlock is not
  checked.

### Fairness

- Every goroutine that can step eventually does: weak fairness on the
  loop's steps, on each sync thread's steps and on the ingress steps.
- Taking the miner mutex gets strong fairness. Go's `sync.Mutex` enters
  starvation mode when a waiter has waited over 1 ms, and then hands the
  lock to the oldest waiter. So a goroutine that keeps trying eventually
  gets the lock.
- The network (pushes, peers producing, delivery of broadcasts) and
  `Stop` get no fairness. The code does not rely on them.
- `LoopTables`, `Thaw`, `SyncAndPack` and `Download` are checked for
  safety only, so their specifications assume no fairness.

## Plan

Done: `Miner`, `TermTable`, `Thaw`, `SyncQuorum`, `PackBlock`,
`Download`, `XVMCreator`, the `Chain` refinement of `Miner`, and the `LoopTables` and
`SyncAndPack` compositions. Left:

1. **A run for the stale schedule row.** An invariant "every pending
   thaw entry is scheduled at its height" on `LoopTables` states the
   observation above.
2. **Ingress gates.** The block size and tx validity gates of `ProcBlock`
   (spec 8.7) are abstracted in `Miner`.
3. **Runs for the remaining observations.** Those runs would cover the
   cache rows left by a partial rewrite (809), the block size budget
   (1087) and the lost vote share (1136), but no run slot is free for them.

## Not modelled

- Generated protobuf code. It has no behaviour.
- The network context constructors and the p2p interface.
- Logging, metrics and timers.
- The XVM code manager, `createInstance` and the resolvers, which
  `aot_creator.go` calls but which are not in this repository. What the
  code cache does with a failed or partial compile cannot be checked
  here.
- The bodies of the ledger, state and consensus. Only their contracts,
  as the Miner uses them, are modelled.
- The contracts (unbond, vote award, `AssignRewards`): only what spec 3
  and 4.4 say of them, as far as the Miner's tables depend on it.
- Amounts: `Thaw` moves unit amounts and `PackBlock` scales sizes down;
  the code's big-integer arithmetic has no overflow to model.
