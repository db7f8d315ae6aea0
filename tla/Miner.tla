------------------------------- MODULE Miner -------------------------------
(***************************************************************************)
(* The block-producing and block-syncing core of the xuperos engine: type  *)
(* Miner in src/kernel/engines/xuperos/xpb/xpb.pb.go (lines 519-1888).     *)
(*                                                                         *)
(* Threads: the mining loop (Start), one ingress task per block pushed by  *)
(* the network (ProcBlock), and detached broadcastBlock tasks.  Ledger,    *)
(* state machine and consensus are collaborators: each of their calls is  *)
(* one atomic step that may fail, and at most MaxFailures calls fail.      *)
(*                                                                         *)
(* A block is identified by its path from genesis, a sequence of producer  *)
(* addresses: its height is Len, its pre_hash is Front, genesis is << >>.  *)
(* Side tables (term, cache, thaw) are modelled in TermTable and Thaw.     *)
(***************************************************************************)
EXTENDS Naturals, Sequences, SequencesExt, FiniteSets

CONSTANTS
    Me,                 \* t.ctx.Address.Address: producer of blocks mined here
    Peers,              \* addresses of the other producers
    Ingress,            \* tasks that run ProcBlock
    MaxBlockQueueSize,  \* EngCfg.MaxBlockQueueSize
    MaxHeight,          \* bound: nobody is elected for a height above it
    MaxFailures,        \* bound: number of collaborator calls that fail
    None                \* nil

ASSUME MaxBlockQueueSize \in Nat \ {0} /\ MaxHeight \in Nat /\ MaxFailures \in Nat

Loop == "loop"                      \* the goroutine running Start
Threads == {Loop} \cup Ingress
Producers == {Me} \cup Peers
Blocks == BoundedSeq(Producers, MaxHeight + MaxFailures + 1)
Genesis == << >>

VARIABLES
    net,            \* blocks the peers hold and serve (GET_BLOCK, pushes)
    bcast,          \* blocks handed to detached broadcastBlock tasks
    ledger,         \* blocks confirmed into the ledger, trunk and branches
    tip,            \* Ledger.GetMeta().TipBlockid; TrunkHeight is Len(tip)
    stateTip,       \* State.GetLatestBlockid()
    lock,           \* minerMutex: the thread holding it, or None
    inSyncHeight,   \* inSyncTargetHeight
    inSyncId,       \* inSyncTargetBlockId
    minerQueue,     \* minerQueue
    isExit,         \* isExit
    failures,       \* collaborator calls that have failed so far
    pc,             \* the program counter of each thread
    err,            \* each thread's err local (TRUE when non-nil)
    target,         \* each thread's targetBlock (ProcBlock's block)
    blkIds,         \* each thread's blocks left to batch-confirm, oldest first
    isMiner, isSync,            \* Start's locals, kept across iterations
    ledgerTipId, stateTipId,    \* Start's snapshots of the two tips
    height,         \* mining's height local
    packed,         \* the block packBlock formatted: [pre, height]
    elected         \* history: CompeteMaster ran in this iteration and said isMiner

env == <<net, bcast>>
stores == <<ledger, tip, stateTip>>
shared == <<lock, inSyncHeight, inSyncId, minerQueue, isExit>>
threads == <<pc, err, target, blkIds>>
locals == <<isMiner, isSync, ledgerTipId, stateTipId, height, packed, elected>>
vars == <<env, stores, shared, failures, threads, locals>>

-----------------------------------------------------------------------------
(* Collaborators *)

Parent(b) == Front(b)

\* a collaborator call fails, within the failure budget
Fail == failures < MaxFailures /\ failures' = failures + 1

\* State.Walk(to) undoes blocks down to the common ancestor and redoes up to
\* the target; when it fails the state machine is left anywhere on that path.
WalkPath(from, to) ==
    LET lca == LongestCommonPrefix({from, to})
    IN  {p \in Prefixes(from) \cup Prefixes(to) : Len(p) >= Len(lca)} \ {to}

WalkFails(to) == Fail /\ stateTip' \in WalkPath(stateTip, to)

\* Ledger.ConfirmBlock(b, false) for a block whose parent is known: a block
\* higher than the trunk becomes the tip (extending or switching the
\* trunk), any other one is attached to a branch (Orphan).
Orphan(b) == Len(b) <= Len(tip)
ConfirmBlock(b) ==
    /\ ledger' = ledger \cup {b}
    /\ tip' = IF Orphan(b) THEN tip ELSE b

\* Ledger.Truncate(tg): the blocks above the target are removed
Truncate(tg) ==
    /\ ledger' = {b \in ledger : Len(b) <= Len(tg)}
    /\ tip' = tg

\* CompeteMaster(h): consensus may elect this node for any height up to the bound
ElectionOutcome(h) == IF h <= MaxHeight THEN BOOLEAN ELSE {FALSE}

\* ProcessBeforeMiner may name an ancestor of the tip to truncate to
TruncateTargets == {p \in Prefixes(tip) : p # tip}

\* downloadMissBlock's walk back from the target: the target and its
\* ancestors down to the first one whose parent is in the ledger, oldest first
\* mutant: the missing blocks are listed newest first
MissingNewestFirst(b) ==
    LET d == CHOOSE k \in 0..Len(b) :
                /\ SubSeq(b, 1, k) \in ledger
                /\ \A j \in k+1..Len(b) : SubSeq(b, 1, j) \notin ledger
    IN  [i \in 1..Len(b) - d |-> SubSeq(b, 1, Len(b) + 1 - i)]

LedgerDepth(b) ==
    CHOOSE k \in 0..Len(b) :
        /\ SubSeq(b, 1, k) \in ledger
        /\ \A j \in k+1..Len(b) : SubSeq(b, 1, j) \notin ledger
Missing(b) == [i \in 1..Len(b) - LedgerDepth(b) |-> SubSeq(b, 1, LedgerDepth(b) + i)]

-----------------------------------------------------------------------------
Init ==
    \* a restarted node holding one peer block; its state machine may lag
    /\ \E p \in Peers :
         /\ net = {Genesis, <<p>>}
         /\ ledger = {Genesis, <<p>>}
         /\ tip = <<p>>
    /\ stateTip \in ledger
    /\ bcast = {}
    /\ lock = None
    /\ inSyncHeight = 0
    /\ inSyncId = None
    /\ minerQueue = 0
    /\ isExit = FALSE
    /\ failures = 0
    /\ pc = [t \in Threads |-> IF t = Loop THEN "loop" ELSE "idle"]
    /\ err = [t \in Threads |-> FALSE]
    /\ target = [t \in Threads |-> None]
    /\ blkIds = [t \in Threads |-> << >>]
    /\ isMiner = FALSE
    /\ isSync = FALSE
    /\ ledgerTipId = tip
    /\ stateTipId = stateTip
    /\ height = 0
    /\ packed = None
    /\ elected = FALSE

-----------------------------------------------------------------------------
(* Start: the mining loop (596-670) *)

SetPc(t, l) == pc' = [pc EXCEPT ![t] = l]
SetErr(t, e) == err' = [err EXCEPT ![t] = e]

\* mutant: the loop condition does not look at the exit flag
LoopTopIgnoresExit ==
    /\ pc[Loop] = "loop"
    /\ SetPc(Loop, "walk")
    /\ elected' = FALSE
    /\ UNCHANGED <<env, stores, shared, failures, err, target, blkIds,
                   isMiner, isSync, ledgerTipId, stateTipId, height, packed>>

\* for !t.IsExit() (608)
LoopTop ==
    /\ pc[Loop] = "loop"
    /\ SetPc(Loop, IF isExit THEN "done" ELSE "walk")
    /\ elected' = FALSE
    /\ UNCHANGED <<env, stores, shared, failures, err, target, blkIds,
                   isMiner, isSync, ledgerTipId, stateTipId, height, packed>>

\* 1. walk the state machine to the snapshot of the ledger tip; the miner
\*    lock is not held (618-621)
LoopWalk ==
    /\ pc[Loop] = "walk"
    /\ SetPc(Loop, "compete")
    /\ \/ /\ ledgerTipId = stateTipId
          /\ UNCHANGED <<stateTip, failures, err>>
       \/ /\ ledgerTipId # stateTipId
          /\ stateTip' = ledgerTipId
          /\ UNCHANGED <<failures, err>>
       \/ /\ ledgerTipId # stateTipId
          /\ WalkFails(ledgerTipId)
          /\ SetErr(Loop, TRUE)
    /\ UNCHANGED <<env, ledger, tip, shared, target, blkIds, locals>>

\* 2. CompeteMaster(ledgerTipHeight + 1), only when the walk succeeded (622-627)
LoopCompete ==
    /\ pc[Loop] = "compete"
    /\ SetPc(Loop, "term")
    /\ \/ /\ err[Loop]
          /\ UNCHANGED <<isMiner, isSync, elected, err, failures>>
       \/ /\ ~err[Loop]
          /\ \E m \in ElectionOutcome(Len(ledgerTipId) + 1), s \in BOOLEAN :
               /\ isMiner' = m
               /\ isSync' = s
               /\ elected' = m
          /\ UNCHANGED <<err, failures>>
       \/ /\ ~err[Loop]
          /\ Fail
          /\ isMiner' = FALSE /\ isSync' = FALSE /\ elected' = FALSE
          /\ SetErr(Loop, TRUE)
    /\ UNCHANGED <<env, stores, shared, target, blkIds,
                   ledgerTipId, stateTipId, height, packed>>

\* 3. flag, err = t.ReadTermTable(ctx), then UpdateCacheTable on a new
\*    cycle (628-636).  The tables are modelled in TermTable; here what
\*    matters is that err is overwritten by ReadTermTable's result.
LoopTerm ==
    /\ pc[Loop] = "term"
    /\ SetPc(Loop, "synccheck")
    /\ \/ /\ SetErr(Loop, FALSE)
          /\ UNCHANGED failures
       \/ /\ Fail
          /\ SetErr(Loop, TRUE)
    /\ UNCHANGED <<env, stores, shared, target, blkIds, locals>>

\* 4. trySyncBlock(ctx, nil) when isMiner and isSync (638-642)
LoopSyncCheck ==
    /\ pc[Loop] = "synccheck"
    /\ SetPc(Loop, IF ~err[Loop] /\ isMiner /\ isSync THEN "discover" ELSE "minecheck")
    /\ UNCHANGED <<env, stores, shared, failures, err, target, blkIds, locals>>

\* 5. mining(ctx, flag) when isMiner (643-648)
LoopMineCheck ==
    /\ pc[Loop] = "minecheck"
    /\ SetPc(Loop, IF ~err[Loop] /\ isMiner THEN "minelock" ELSE "refresh")
    /\ UNCHANGED <<env, stores, shared, failures, err, target, blkIds, locals>>

\* mutant: the snapshots of the two tips are not refreshed
LoopRefreshNoSnapshot ==
    /\ pc[Loop] = "refresh"
    /\ SetPc(Loop, "loop")
    /\ IF isExit THEN UNCHANGED err ELSE SetErr(Loop, FALSE)
    /\ height' = 0 /\ packed' = None
    /\ target' = [target EXCEPT ![Loop] = None]
    /\ UNCHANGED <<env, stores, shared, failures, blkIds, isMiner, isSync, elected,
                   ledgerTipId, stateTipId>>

\* 6. ClearThawTx (modelled in Thaw), the 3s back-off, and unless exiting
\*    the reset of err and new snapshots of the two tips (649-665)
LoopRefresh ==
    /\ pc[Loop] = "refresh"
    /\ SetPc(Loop, "loop")
    /\ IF isExit
         THEN UNCHANGED <<err, ledgerTipId, stateTipId>>
         ELSE /\ SetErr(Loop, FALSE)
              /\ ledgerTipId' = tip
              /\ stateTipId' = stateTip
    \* mining's and trySyncBlock's locals are out of scope
    /\ height' = 0 /\ packed' = None
    /\ target' = [target EXCEPT ![Loop] = None]
    /\ UNCHANGED <<env, stores, shared, failures, blkIds, isMiner, isSync, elected>>

-----------------------------------------------------------------------------
(* mining (980-1044), under the miner lock *)

\* mining returns an error: the deferred unlock, back in the loop
MineAbort ==
    /\ lock' = None
    /\ SetErr(Loop, TRUE)
    /\ SetPc(Loop, "refresh")

\* take the lock, walk the state machine to the ledger tip (982-998)
MineLock ==
    /\ pc[Loop] = "minelock"
    /\ lock = None
    /\ \/ /\ tip = stateTip
          /\ lock' = Loop
          /\ SetPc(Loop, "minebefore")
          /\ UNCHANGED <<stateTip, failures, err>>
       \/ /\ tip # stateTip
          /\ stateTip' = tip
          /\ lock' = Loop
          /\ SetPc(Loop, "minebefore")
          /\ UNCHANGED <<failures, err>>
       \/ /\ tip # stateTip
          /\ WalkFails(tip)
          /\ SetErr(Loop, TRUE)
          /\ SetPc(Loop, "refresh")
          /\ UNCHANGED lock
    /\ UNCHANGED <<env, ledger, tip, inSyncHeight, inSyncId, minerQueue, isExit,
                   target, blkIds, locals>>

\* mutant: the height computed before the truncation is kept
HeightAfterTruncateStale(tg) == Len(tip) + 1

\* the height of the block to pack once the ledger was truncated (1015-1016)
HeightAfterTruncate(tg) == Len(tg) + 1

\* mutant: the ledger is truncated before the state machine walks back
truncateForMinerLedgerFirst(tg) ==
    \/ /\ stateTip' = tg
       /\ Truncate(tg)
       /\ height' = HeightAfterTruncate(tg)
       /\ SetPc(Loop, "minepack")
       /\ UNCHANGED <<lock, err, failures>>
    \/ /\ Truncate(tg)
       /\ WalkFails(tg)
       /\ MineAbort
       /\ UNCHANGED height
    \/ /\ Fail
       /\ MineAbort
       /\ UNCHANGED <<stores, height>>

\* truncateForMiner(target) (1047-1070): query the target, walk the state
\* machine back to it, then truncate the ledger
truncateForMiner(tg) ==
    \/ /\ Fail                               \* Ledger.QueryBlockHeader fails
       /\ MineAbort
       /\ UNCHANGED <<stores, height>>
    \/ /\ stateTip' = tg
       /\ Truncate(tg)
       /\ height' = HeightAfterTruncate(tg)
       /\ SetPc(Loop, "minepack")
       /\ UNCHANGED <<lock, err, failures>>
    \/ /\ WalkFails(tg)
       /\ MineAbort
       /\ UNCHANGED <<ledger, tip, height>>
    \/ /\ stateTip' = tg
       /\ Fail                               \* Ledger.Truncate fails
       /\ MineAbort
       /\ UNCHANGED <<ledger, tip, height>>

\* ProcessBeforeMiner(now), and truncateForMiner when it names a target (1000-1017)
MineBefore ==
    /\ pc[Loop] = "minebefore"
    /\ \/ /\ Fail
          /\ MineAbort
          /\ UNCHANGED <<stores, height>>
       \/ /\ height' = Len(tip) + 1
          /\ SetPc(Loop, "minepack")
          /\ UNCHANGED <<stores, lock, err, failures>>
       \/ \E tg \in TruncateTargets : truncateForMiner(tg)
    /\ UNCHANGED <<env, inSyncHeight, inSyncId, minerQueue, isExit, target, blkIds,
                   isMiner, isSync, ledgerTipId, stateTipId, packed, elected>>

\* packBlock (1072-1211): Ledger.FormatMinerBlock(..., State.GetLatestBlockid(),
\* ..., height); any of the calls before it may fail
packBlock ==
    /\ pc[Loop] = "minepack"
    /\ \/ /\ packed' = [pre |-> stateTip, height |-> height]
          /\ SetPc(Loop, "mineconfirm")
          /\ UNCHANGED <<lock, err, failures>>
       \/ /\ Fail
          /\ MineAbort
          /\ UNCHANGED packed
    /\ UNCHANGED <<env, stores, inSyncHeight, inSyncId, minerQueue, isExit,
                   target, blkIds, isMiner, isSync, ledgerTipId, stateTipId,
                   height, elected>>

\* confirmBlockForMiner (1442-1492), then go t.broadcastBlock (1038-1043)
MineDone(b) ==
    /\ lock' = None
    /\ bcast' = bcast \cup {b}
    /\ SetPc(Loop, "refresh")
    /\ UNCHANGED err

confirmBlockForMiner ==
    /\ pc[Loop] = "mineconfirm"
    /\ LET b == Append(packed.pre, Me) IN
       \/ /\ Fail                            \* CalculateBlock or Ledger.ConfirmBlock fails
          /\ MineAbort
          /\ UNCHANGED <<stores, bcast>>
       \/ /\ ConfirmBlock(b)
          /\ IF Orphan(b) \/ stateTip # Parent(b)
               \* an orphan is not played; PlayForMiner refuses a block whose
               \* pre_hash is not the state machine's tip
               THEN /\ UNCHANGED <<stateTip, failures>>
                    /\ IF Orphan(b) THEN MineDone(b) ELSE MineAbort /\ UNCHANGED bcast
               ELSE \/ /\ stateTip' = b           \* PlayForMiner, ProcessConfirmBlock
                       /\ MineDone(b)
                       /\ UNCHANGED failures
                    \/ /\ Fail                    \* PlayForMiner fails
                       /\ MineAbort
                       /\ UNCHANGED <<stateTip, bcast>>
                    \/ /\ stateTip' = b
                       /\ Fail                    \* ProcessConfirmBlock fails
                       /\ MineAbort
                       /\ UNCHANGED bcast
    /\ UNCHANGED <<net, inSyncHeight, inSyncId, minerQueue, isExit, target, blkIds,
                   locals>>

-----------------------------------------------------------------------------
(* trySyncBlock (1496-1564) and what it calls, run by the loop (with a nil *)
(* target) and by ProcBlock.                                               *)

\* where trySyncBlock returns to
Return(t) == SetPc(t, IF t = Loop THEN "minecheck" ELSE "dec")

\* getWholeNetLongestBlock (1499-1506, 1844-1876): some block the peers
\* report and the neighbours confirm (the probe is modelled in SyncQuorum)
SyncDiscover ==
    /\ pc[Loop] = "discover"
    /\ \/ /\ \E b \in net : target' = [target EXCEPT ![Loop] = b]
          /\ SetPc(Loop, "synclock")
          /\ UNCHANGED <<err, failures>>
       \/ /\ Fail
          /\ SetErr(Loop, TRUE)
          /\ Return(Loop)
          /\ UNCHANGED target
    /\ UNCHANGED <<env, stores, shared, blkIds, locals>>

\* targets trySyncBlock ignores (1522-1536)
Ignored(b) == Len(b) < inSyncHeight \/ b = inSyncId \/ b \in ledger

\* take the lock; ignore stale or known targets; record the target; walk
\* the state machine to the ledger tip.  On error the deferred function
\* resets the in-sync target to the ledger tip (1510-1552)
SyncLock(t) ==
    /\ pc[t] = "synclock"
    /\ lock = None
    /\ LET b == target[t] IN
       IF Ignored(b)
         THEN /\ SetErr(t, FALSE)
              /\ Return(t)
              /\ UNCHANGED <<stateTip, lock, inSyncHeight, inSyncId, failures>>
         ELSE \/ /\ tip = stateTip
                 /\ lock' = t
                 /\ inSyncHeight' = Len(b) /\ inSyncId' = b
                 /\ SetPc(t, "download")
                 /\ UNCHANGED <<stateTip, failures, err>>
              \/ /\ tip # stateTip
                 /\ stateTip' = tip
                 /\ lock' = t
                 /\ inSyncHeight' = Len(b) /\ inSyncId' = b
                 /\ SetPc(t, "download")
                 /\ UNCHANGED <<failures, err>>
              \/ /\ tip # stateTip
                 /\ WalkFails(tip)
                 /\ inSyncHeight' = Len(tip) /\ inSyncId' = tip
                 /\ SetErr(t, TRUE)
                 /\ Return(t)
                 /\ UNCHANGED lock
    /\ UNCHANGED <<env, ledger, tip, minerQueue, isExit, target, blkIds, locals>>

\* syncBlock (1567-1580) ignores a target below the trunk; otherwise
\* downloadMissBlock (1610-1657) collects the missing ancestors from
\* pending blocks and GET_BLOCK, any request of which may fail
syncBlock(t) ==
    /\ pc[t] = "download"
    /\ LET b == target[t] IN
       IF Len(b) < Len(tip) \/ b = tip
         THEN /\ SetErr(t, FALSE)
              /\ SetPc(t, "unlock")
              /\ UNCHANGED <<blkIds, failures>>
         ELSE \/ /\ blkIds' = [blkIds EXCEPT ![t] = Missing(b)]
                 /\ SetPc(t, "batch")
                 /\ UNCHANGED <<err, failures>>
              \/ /\ Fail
                 /\ SetErr(t, TRUE)
                 /\ SetPc(t, "unlock")
                 /\ UNCHANGED blkIds
    /\ UNCHANGED <<env, stores, shared, target, locals>>

\* batchConfirmBlock (1704-1765), one block per step, oldest first:
\* VerifyBlock, CheckMinerMatch, Ledger.ConfirmBlock, PlayAndRepost when the
\* state machine is at the block's pre_hash, ProcessConfirmBlock.  After the
\* last block, or on error, syncBlock's deferred walk follows.
batchConfirmBlock(t) ==
    /\ pc[t] = "batch"
    /\ LET b == Head(blkIds[t])
           played == IF stateTip = Parent(b) THEN b ELSE stateTip
       IN
       \/ /\ Fail                            \* VerifyBlock, CheckMinerMatch or ConfirmBlock
          /\ SetErr(t, TRUE)
          /\ SetPc(t, "defer")
          /\ UNCHANGED <<stores, blkIds>>
       \/ /\ ConfirmBlock(b)
          /\ stateTip' = played
          /\ blkIds' = [blkIds EXCEPT ![t] = Tail(@)]
          /\ SetPc(t, IF Len(blkIds[t]) = 1 THEN "defer" ELSE "batch")
          /\ UNCHANGED <<err, failures>>
       \/ /\ ConfirmBlock(b)
          /\ stateTip = Parent(b)
          /\ Fail                            \* PlayAndRepost fails
          /\ SetErr(t, TRUE)
          /\ SetPc(t, "defer")
          /\ UNCHANGED <<stateTip, blkIds>>
       \/ /\ ConfirmBlock(b)
          /\ stateTip' = played
          /\ Fail                            \* ProcessConfirmBlock fails
          /\ SetErr(t, TRUE)
          /\ SetPc(t, "defer")
          /\ UNCHANGED blkIds
    /\ UNCHANGED <<env, shared, target, locals>>

\* syncBlock's deferred walk when the ledger tip moved away from the state
\* machine; its error is logged and dropped (1582-1596)
SyncDefer(t) ==
    /\ pc[t] = "defer"
    /\ SetPc(t, "unlock")
    /\ \/ /\ tip = stateTip
          /\ UNCHANGED <<stateTip, failures>>
       \/ /\ tip # stateTip
          /\ stateTip' = tip
          /\ UNCHANGED failures
       \/ /\ tip # stateTip
          /\ WalkFails(tip)
    /\ UNCHANGED <<env, ledger, tip, shared, err, target, blkIds, locals>>

\* trySyncBlock's deferred function: on error reset the in-sync target to
\* the ledger tip, then unlock (1512-1520)
SyncUnlock(t) ==
    /\ pc[t] = "unlock"
    /\ lock' = None
    /\ IF err[t]
         THEN inSyncHeight' = Len(tip) /\ inSyncId' = tip
         ELSE UNCHANGED <<inSyncHeight, inSyncId>>
    /\ blkIds' = [blkIds EXCEPT ![t] = << >>]
    /\ Return(t)
    /\ UNCHANGED <<env, stores, minerQueue, isExit, failures, err, target, locals>>

-----------------------------------------------------------------------------
(* ProcBlock (548-592), one ingress task per pushed block *)

\* a peer pushes a block; the height/id gate reads the in-sync target
\* without the lock (549-576; sizes and txs of peer blocks are valid)
ProcBlock(t) ==
    /\ pc[t] = "idle"
    /\ \E b \in net :
         IF Len(b) < inSyncHeight \/ b = inSyncId
           THEN UNCHANGED <<pc, target>>
           ELSE /\ target' = [target EXCEPT ![t] = b]
                /\ SetPc(t, "inc")
    /\ SetErr(t, FALSE)
    /\ UNCHANGED <<env, stores, shared, failures, blkIds, locals>>

\* atomic.AddInt64(&t.minerQueue, 1) (578)
ProcBlockEnqueue(t) ==
    /\ pc[t] = "inc"
    /\ minerQueue' = minerQueue + 1
    /\ SetPc(t, "queue")
    /\ UNCHANGED <<env, stores, lock, inSyncHeight, inSyncId, isExit, failures,
                   err, target, blkIds, locals>>

\* mutant: off by one in the queue gate
QueueFullOffByOne == minerQueue > MaxBlockQueueSize

\* the queue gate reads the counter after the increment (580-585)
QueueFull == minerQueue >= MaxBlockQueueSize

ProcBlockAdmit(t) ==
    /\ pc[t] = "queue"
    /\ SetPc(t, IF QueueFull THEN "dec" ELSE "synclock")
    /\ UNCHANGED <<env, stores, shared, failures, err, target, blkIds, locals>>

\* mutant: the deferred decrement is missing
ProcBlockDoneNoDecrement(t) ==
    /\ pc[t] = "dec"
    /\ SetPc(t, "idle")
    /\ target' = [target EXCEPT ![t] = None]
    /\ SetErr(t, FALSE)
    /\ UNCHANGED <<env, stores, shared, failures, blkIds, locals>>

\* the deferred atomic.AddInt64(&t.minerQueue, -1) (579)
ProcBlockDone(t) ==
    /\ pc[t] = "dec"
    /\ minerQueue' = minerQueue - 1
    /\ SetPc(t, "idle")
    /\ target' = [target EXCEPT ![t] = None]
    /\ SetErr(t, FALSE)
    /\ UNCHANGED <<env, stores, lock, inSyncHeight, inSyncId, isExit, failures,
                   blkIds, locals>>

-----------------------------------------------------------------------------
(* Stop, broadcastBlock, and the other producers *)

\* Stop (970-973): set the flag; Stop then waits for the loop to drain
Stop ==
    /\ ~isExit
    /\ isExit' = TRUE
    /\ UNCHANGED <<env, stores, lock, inSyncHeight, inSyncId, minerQueue,
                   failures, threads, locals>>

\* broadcastBlock (1816-1842): SENDBLOCK reaches the peers or is lost
broadcastBlock ==
    \E b \in bcast :
       /\ bcast' = bcast \ {b}
       /\ \/ net' = net \cup {b}
          \/ UNCHANGED net
       /\ UNCHANGED <<stores, shared, failures, threads, locals>>

\* another producer extends the highest chain the peers hold
PeerProduce ==
    \E b \in net, p \in Peers :
       /\ Len(b) < MaxHeight
       /\ \A c \in net : Len(c) <= Len(b)
       /\ net' = net \cup {Append(b, p)}
       /\ UNCHANGED <<bcast, stores, shared, failures, threads, locals>>

-----------------------------------------------------------------------------
LoopStep ==
    \/ LoopTop \/ LoopWalk \/ LoopCompete \/ LoopTerm \/ LoopSyncCheck
    \/ LoopMineCheck \/ LoopRefresh \/ MineBefore \/ packBlock
    \/ confirmBlockForMiner \/ SyncDiscover

SyncStep(t) == syncBlock(t) \/ batchConfirmBlock(t) \/ SyncDefer(t) \/ SyncUnlock(t)

IngressStep(t) == ProcBlockEnqueue(t) \/ ProcBlockAdmit(t) \/ ProcBlockDone(t)

Next ==
    \/ LoopStep
    \/ MineLock
    \/ \E t \in Threads : SyncLock(t) \/ SyncStep(t)
    \/ \E t \in Ingress : ProcBlock(t) \/ IngressStep(t)
    \/ Stop
    \/ broadcastBlock
    \/ PeerProduce

\* Goroutines that can run eventually do (weak fairness); Go's sync.Mutex
\* hands the lock to a waiter that keeps waiting (starvation mode), which
\* justifies strong fairness for taking the miner lock.  The network
\* (pushes, peers producing, delivery) and Stop get no fairness.
Fairness ==
    /\ WF_vars(LoopStep)
    /\ SF_vars(MineLock)
    /\ \A t \in Threads : SF_vars(SyncLock(t)) /\ WF_vars(SyncStep(t))
    /\ \A t \in Ingress : WF_vars(IngressStep(t))

Spec == Init /\ [][Next]_vars
FairSpec == Spec /\ Fairness

-----------------------------------------------------------------------------
(* Properties *)

SyncPcs == {"synclock", "download", "batch", "defer", "unlock"}
LoopPcs == {"loop", "walk", "compete", "term", "synccheck", "minecheck", "refresh",
            "minelock", "minebefore", "minepack", "mineconfirm", "discover", "done"}

TypeOK ==
    /\ net \subseteq Blocks /\ bcast \subseteq Blocks
    /\ ledger \subseteq Blocks /\ tip \in ledger /\ stateTip \in Blocks
    /\ lock \in Threads \cup {None}
    /\ inSyncHeight \in Nat /\ inSyncId \in Blocks \cup {None}
    /\ minerQueue \in 0..Cardinality(Ingress)
    /\ isExit \in BOOLEAN /\ failures \in 0..MaxFailures
    /\ pc[Loop] \in LoopPcs \cup SyncPcs
    /\ \A t \in Ingress : pc[t] \in {"idle", "inc", "queue", "dec"} \cup SyncPcs
    /\ err \in [Threads -> BOOLEAN]
    /\ target \in [Threads -> Blocks \cup {None}]
    /\ blkIds \in [Threads -> Seq(Blocks)]
    /\ isMiner \in BOOLEAN /\ isSync \in BOOLEAN /\ elected \in BOOLEAN
    /\ ledgerTipId \in Blocks /\ stateTipId \in Blocks /\ height \in Nat
    /\ packed \in [pre : Blocks, height : Nat] \cup {None}

\* The block mining formats extends the ledger tip: its pre_hash, taken from
\* the state machine, is the ledger tip and its height is the trunk height
\* plus one.  It rests on mining walking the state machine under the lock
\* (the loop's own walk is unlocked and uses stale snapshots) and on the
\* height being recomputed after truncateForMiner.
MinedBlockExtendsTip ==
    pc[Loop] = "mineconfirm" => packed.pre = tip /\ packed.height = Len(tip) + 1

\* The state machine's tip is always a block of the ledger: truncateForMiner
\* walks the state machine back before it truncates the ledger, so a failed
\* walk never leaves the state machine on a removed block.
StateTipInLedger == stateTip \in ledger

\* Fewer than MaxBlockQueueSize ProcBlock tasks are past the queue gate at
\* once, although the counter is incremented and read in separate steps by
\* concurrent tasks.
QueueAdmissionBound ==
    Cardinality({t \in Ingress : pc[t] \in SyncPcs}) < MaxBlockQueueSize

\* Whenever the state machine and the ledger disagree while the miner runs,
\* they agree again later (or the miner is stopped): the loop's snapshots,
\* walks and mining's walk repair every divergence left by a failed call or
\* a concurrent sync.
DivergenceRepaired ==
    (tip # stateTip /\ ~isExit) ~> (tip = stateTip \/ isExit)

\* After Stop the mining loop eventually exits (Stop's exitWG.Wait returns).
StopTerminates == isExit ~> pc[Loop] = "done"

\* (spec 4.8) mining is entered only in an iteration whose CompeteMaster
\* elected this node.  The loop keeps isMiner from an earlier iteration when
\* its walk fails, and ReadTermTable then clears err.
MiningOnlyAfterElection == pc[Loop] = "minelock" => elected

\* (spec 4.7, 8.1) when trySyncBlock releases the lock without error the
\* state machine is at the ledger tip.  syncBlock's deferred walk drops
\* its error.
SyncSuccessLeavesStateAtTip ==
    \A t \in Threads : pc[t] = "unlock" /\ ~err[t] => stateTip = tip

\* (spec 2, 4.6-4.8) the miner drives the ledger and the state machine only
\* as Chain allows: batchConfirmBlock confirms the missing ancestors oldest
\* first so that every block joins on top of a ledger block, a mined block
\* extends the tip, truncation is only to an ancestor of the tip with the
\* state machine walked back first, and every walk ends on a ledger block.
Abstract == INSTANCE Chain WITH
    MaxLen <- MaxHeight + MaxFailures + 1,
    blocks <- ledger, head <- tip, applied <- stateTip

ChainRefinement == Abstract!Spec
=============================================================================
