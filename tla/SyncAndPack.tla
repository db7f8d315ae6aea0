---------------------------- MODULE SyncAndPack ----------------------------
(***************************************************************************)
(* An iteration of the mining loop in which the node is elected and must   *)
(* sync first (Miner.Start, 636-647, in src/kernel/engines/xuperos/xpb/    *)
(* xpb.pb.go): trySyncBlock(nil) finds the target with                     *)
(* getWholeNetLongestBlock (SyncQuorum), syncBlock backfills the missing   *)
(* blocks (Download), and only when the sync returned nil does mining      *)
(* pack a block (PackBlock).                                               *)
(*                                                                         *)
(* The three run one after the other and pass nothing but the target and   *)
(* the error: when a function returns its locals go out of scope, so they  *)
(* are reset.  The checks of trySyncBlock on inSyncTarget, the lock and    *)
(* batchConfirmBlock's steps are Miner's; here batchConfirmBlock only      *)
(* succeeds or fails.                                                      *)
(***************************************************************************)
EXTENDS Naturals, Sequences, SequencesExt

CONSTANTS
    Tips, MaxTrunk, MaxResponses, Garbled, NotFound,            \* SyncQuorum
    Roots, LocalRoot, Producers, MaxLen,                        \* Download
    MaxLimit, TxSizes, MaxMempool, MaxThaw, Award, MaxFailures, NoBlock  \* PackBlock

VARIABLES
    sqPc, bcs, i, probes, result,
    ledger, pending, target, cur, blkIds, dlPc, dlErr,
    pkPc, limit, mempool, flag, remain, block,
    syncTarget, \* trySyncBlock's targetBlock
    stage       \* "discover", "sync", "download", "pack" or "end"

SQ == INSTANCE SyncQuorum WITH pc <- sqPc
DL == INSTANCE Download WITH Faulty <- FALSE
PB == INSTANCE PackBlock WITH pc <- pkPc

sqVars == <<sqPc, bcs, i, probes, result>>
dlVars == <<ledger, pending, target, cur, blkIds, dlPc, dlErr>>
pkVars == <<pkPc, limit, mempool, flag, remain, block>>
vars == <<sqVars, dlVars, pkVars, syncTarget, stage>>

Init == SQ!Init /\ DL!DlIs(DL!DownloadIdle) /\ PB!Init /\ syncTarget = NotFound
        /\ stage = "discover"

\* getWholeNetLongestBlock's locals go out of scope
SQReset ==
    sqPc' = "query" /\ bcs' = << >> /\ i' = 1 /\ probes' = << >> /\ result' = NotFound

\* packBlock's locals go out of scope
PBReset ==
    /\ pkPc' = "pack" /\ limit' = 0 /\ mempool' = << >> /\ flag' = FALSE
    /\ remain' = 0 /\ block' = NoBlock

\* getWholeNetLongestBlock's steps
Discover ==
    /\ stage = "discover"
    /\ SQ!Next
    /\ UNCHANGED <<dlVars, pkVars, syncTarget, stage>>

\* the height of the ledger's trunk
TrunkHeight(L) == DL!Height(CHOOSE b \in L : \A c \in L : Len(c) <= Len(b))

\* getWholeNetLongestBlock returns.  No target: trySyncBlock fails and the
\* iteration does not mine (1499-1505, 643).
SyncFound ==
    /\ stage = "discover"
    /\ sqPc = "done"
    /\ SQReset
    /\ syncTarget' = result
    /\ stage' = IF result = NotFound THEN "end" ELSE "sync"
    /\ UNCHANGED <<dlVars, pkVars>>

\* under the miner mutex, a target the ledger has, or below its trunk, is
\* ignored and the sync returns nil (1530-1535, 1568-1571); otherwise
\* downloadMissBlock starts (1575).  The ledger is whatever earlier
\* iterations and ingress syncs made of it.
SyncStart ==
    /\ stage = "sync"
    /\ \E L \in DL!Ledgers :
         IF syncTarget \in L \/ DL!Height(syncTarget) < TrunkHeight(L)
           THEN stage' = "pack" /\ UNCHANGED dlVars
           ELSE /\ \E P \in SUBSET DL!Ancestors(syncTarget) :
                     \E v \in DL!DownloadStart(syncTarget, L, P) : DL!DlBecomes(v)
                /\ stage' = "download"
    /\ UNCHANGED <<sqVars, pkVars, syncTarget>>

\* downloadMissBlock's steps
Backfill ==
    /\ stage = "download"
    /\ DL!Next
    /\ UNCHANGED <<sqVars, pkVars, syncTarget, stage>>

\* downloadMissBlock returns; on success batchConfirmBlock runs and may
\* fail (1575-1605).  Mining follows only a sync that returned nil.
SyncEnd ==
    /\ stage = "download"
    /\ dlPc = "done"
    /\ DL!DlBecomes(DL!DownloadIdle)
    /\ \/ dlErr = "none" /\ stage' = "pack"
       \/ stage' = "end"
    /\ UNCHANGED <<sqVars, pkVars, syncTarget>>

\* mining's packBlock call
Pack ==
    /\ stage = "pack"
    /\ PB!Pack
    /\ UNCHANGED <<sqVars, dlVars, syncTarget, stage>>

\* the loop goes on to its next iteration
NextIteration ==
    /\ stage = "end" \/ (stage = "pack" /\ pkPc = "done")
    /\ SQReset /\ DL!DlBecomes(DL!DownloadIdle) /\ PBReset
    /\ syncTarget' = NotFound /\ stage' = "discover"

Next == Discover \/ SyncFound \/ SyncStart \/ Backfill \/ SyncEnd \/ Pack \/ NextIteration

Spec == Init /\ [][Next]_vars

-----------------------------------------------------------------------------
(* Properties: each component's, checked along the iteration *)

TypeOK ==
    /\ SQ!TypeOK /\ DL!TypeOK /\ PB!TypeOK
    /\ stage \in {"discover", "sync", "download", "pack", "end"}

\* the sync target is the first confirmed candidate in descending trunk
\* height, whatever order the unstable sort gives equal heights
TargetIsHighestConfirmed == SQ!TargetIsHighestConfirmed

\* the backfill of the target found collects exactly its missing
\* ancestors, newest first, down to a block of the ledger (see Download)
BackfillConnects == DL!BackfillConnects

\* a packed block is award, timer, mempool, thaw and vote txs in that order
TxOrder == PB!TxOrder

\* the mempool txs of a block are the prefix of the mempool that fits
MempoolPrefix == PB!MempoolPrefix
=============================================================================
