------------------------------ MODULE Download ------------------------------
(***************************************************************************)
(* The backfill of a sync: Miner.downloadMissBlock (1610-1657) and         *)
(* Miner.getBlock (1659-1703), in src/kernel/engines/xuperos/xpb/          *)
(* xpb.pb.go.                                                              *)
(*                                                                         *)
(* From the sync target, the node walks pre_hash back until it meets a     *)
(* block of its ledger.  A block it lacks is taken from the pending store  *)
(* or fetched from the neighbours with GET_BLOCK and saved as pending.     *)
(* A block is its path from its genesis: <<root, producer, ...>>, its id   *)
(* the path, its pre_hash the path without its last element (a genesis     *)
(* block has an empty pre_hash).  The ledger and the pending store belong  *)
(* to the Ledger, which is not in this repository; the whole backfill runs *)
(* under the miner mutex, so neither changes under it except by its own    *)
(* SavePendingBlock calls.                                                 *)
(***************************************************************************)
EXTENDS Naturals, Sequences, SequencesExt

CONSTANTS
    Roots,          \* genesis block names; the node's own is LocalRoot
    LocalRoot,
    Producers,      \* addresses that sign blocks
    MaxLen,         \* bound: a block has at most MaxLen blocks below it
    MaxResponses,   \* bound: replies to one GET_BLOCK broadcast
    Faulty          \* whether a neighbour may answer with a block not asked for

ASSUME LocalRoot \in Roots /\ Faulty \in BOOLEAN

Blocks == { <<r>> \o s : r \in Roots, s \in BoundedSeq(Producers, MaxLen) }
Height(b) == Len(b) - 1
PreHash(b) == Front(b)              \* << >> for a genesis block

\* the ledgers the node can have: trees of blocks on its own genesis
Ledgers == { L \in SUBSET { b \in Blocks : b[1] = LocalRoot } :
               <<LocalRoot>> \in L /\ \A b \in L : Len(b) > 1 => Front(b) \in L }

\* bound: the walk is cut off past this many ids (an honest walk never
\* gets there)
MaxIds == MaxLen + 2

\* a GET_BLOCK reply: an error header, one that does not unmarshal, a nil
\* block, or a block
Replies(asked) ==
    { [kind |-> k, block |-> <<>>] : k \in {"fail", "garbled", "nil"} } \cup
    { [kind |-> "block", block |-> b] :
        b \in IF Faulty THEN Blocks ELSE {asked} \cap Blocks }

VARIABLES
    ledger,     \* the blocks of the local ledger
    pending,    \* the blocks of the ledger's pending store
    target,     \* targetBlock
    cur,        \* beginBlock
    blkIds,     \* the ids collected, newest first
    dlPc,       \* "walk" inside the loop, "done" after the return, "idle"
    dlErr       \* "none", "GenesisBlockDiff" or "Err" (a failed call)

dlVars == <<ledger, pending, target, cur, blkIds, dlPc, dlErr>>

-----------------------------------------------------------------------------
(* getBlock (1659-1703) *)

\* the first reply with a success header that unmarshals to a non-nil
\* block gives the block; none gives "no response"
RECURSIVE FirstBlock(_)
FirstBlock(rs) ==
    IF rs = << >> THEN << >>
    ELSE IF Head(rs).kind = "block" THEN Head(rs).block ELSE FirstBlock(Tail(rs))

\* what getBlock(id) can return: a block, or << >> for an error (the
\* broadcast failed, or no reply was usable)
getBlock(id) ==
    { << >> } \cup { FirstBlock(rs) : rs \in BoundedSeq(Replies(id), MaxResponses) }

-----------------------------------------------------------------------------
(* downloadMissBlock (1610-1657) *)

\* the values of dlVars right after SavePendingBlock(target); its error
\* ends the function (1616-1622)
DownloadStart(t, L, P) ==
    { <<L, P \cup {t}, t, t, <<t>>, "walk", "none">>,
      <<L, P, t, t, << >>, "done", "Err">> }

\* the values of dlVars when no backfill runs: downloadMissBlock's locals
\* are out of scope
DownloadIdle ==
    <<{<<LocalRoot>>}, {}, <<LocalRoot>>, <<LocalRoot>>, << >>, "idle", "none">>

\* the variables hold v
DlIs(v) ==
    /\ ledger = v[1] /\ pending = v[2] /\ target = v[3] /\ cur = v[4]
    /\ blkIds = v[5] /\ dlPc = v[6] /\ dlErr = v[7]

\* the variables are set to v
DlBecomes(v) ==
    /\ ledger' = v[1] /\ pending' = v[2] /\ target' = v[3] /\ cur' = v[4]
    /\ blkIds' = v[5] /\ dlPc' = v[6] /\ dlErr' = v[7]

\* mutant: a pending block is collected, but the walk goes on from the
\* block it stood on
TakePendingNoStep(b) ==
    /\ cur' = cur
    /\ blkIds' = Append(blkIds, b)

\* GetPendingBlock found the parent: step to it (1633-1638)
TakePending(b) ==
    /\ cur' = b
    /\ blkIds' = Append(blkIds, b)

\* one pass of the loop while the ledger lacks the parent of beginBlock
Walk ==
    /\ dlPc = "walk"
    /\ PreHash(cur) \notin ledger
    /\ Len(blkIds) < MaxIds
    /\ \/ /\ PreHash(cur) = << >> \/ Height(cur) = 0        \* 1625-1631
          /\ blkIds' = << >>
          /\ dlPc' = "done" /\ dlErr' = "GenesisBlockDiff"
          /\ UNCHANGED <<pending, cur>>
       \/ /\ PreHash(cur) # << >> /\ Height(cur) # 0
          /\ \/ /\ PreHash(cur) \in pending
                /\ TakePending(PreHash(cur))
                /\ UNCHANGED <<pending, dlPc, dlErr>>
             \/ /\ PreHash(cur) \notin pending
                /\ \E b \in getBlock(PreHash(cur)) :
                     IF b = << >> THEN                      \* 1641-1645
                        /\ dlPc' = "done" /\ dlErr' = "Err"
                        /\ UNCHANGED <<pending, cur, blkIds>>
                     ELSE                                   \* 1646-1653
                        \/ /\ pending' = pending \cup {b}
                           /\ cur' = b
                           /\ blkIds' = Append(blkIds, b)
                           /\ UNCHANGED <<dlPc, dlErr>>
                        \/ /\ dlPc' = "done" /\ dlErr' = "Err"
                           /\ UNCHANGED <<pending, cur, blkIds>>
    /\ UNCHANGED <<ledger, target>>

\* the ledger has the parent: return the ids (1656)
WalkDone ==
    /\ dlPc = "walk"
    /\ PreHash(cur) \in ledger
    /\ dlPc' = "done"
    /\ UNCHANGED <<ledger, pending, target, cur, blkIds, dlErr>>

\* the ancestors of b below it
Ancestors(b) == { SubSeq(b, 1, k) : k \in 1..Len(b) - 1 }

\* the node's state before a backfill: any ledger, a target the ledger
\* lacks, and ancestors of the target left pending by an earlier sync of
\* it (the walk looks up no other pending block)
Init ==
    \E t \in Blocks, L \in Ledgers :
        /\ t \notin L
        /\ \E P \in SUBSET Ancestors(t) : \E v \in DownloadStart(t, L, P) : DlIs(v)

Next == Walk \/ WalkDone

Spec == Init /\ [][Next]_dlVars

-----------------------------------------------------------------------------
(* Properties *)

TypeOK ==
    /\ ledger \in Ledgers
    /\ pending \subseteq Blocks
    /\ target \in Blocks /\ cur \in Blocks
    /\ blkIds \in Seq(Blocks)
    /\ dlPc \in {"idle", "walk", "done"}
    /\ dlErr \in {"none", "GenesisBlockDiff", "Err"}

\* the k-th ancestor of b (its 0-th is b itself)
Ancestor(b, k) == SubSeq(b, 1, Len(b) - k)

\* (spec 4.7 step 3) the ids downloadMissBlock collects are the target and
\* its ancestors in order, newest first, and when it returns without error
\* the oldest of them sits on a block of the ledger: batchConfirmBlock,
\* which confirms them oldest first, attaches each to its parent.  Blocks
\* reach the walk from the pending store left by earlier syncs and from
\* whichever neighbour's reply comes first.
BackfillConnects ==
    /\ \A k \in 1..Len(blkIds) : Len(target) >= k /\ blkIds[k] = Ancestor(target, k - 1)
    /\ dlPc = "done" /\ dlErr = "none" =>
          blkIds # << >> /\ PreHash(Last(blkIds)) \in ledger
=============================================================================
