-------------------------------- MODULE Thaw --------------------------------
(***************************************************************************)
(* The thaw (un-bonding) schedule: Miner.GetThawTx (1278-1345), called by  *)
(* packBlock (1100-1104), and Miner.ClearThawTx (1347-1439), called by the *)
(* mining loop with TrunkHeight-1 (649-652), in                            *)
(* src/kernel/engines/xuperos/xpb/xpb.pb.go.                               *)
(*                                                                         *)
(* The node schedule maps a height to the addresses whose frozen assets    *)
(* thaw there; each address has a frozen-assets row.  A block at height h  *)
(* carries a reverse transfer for every address scheduled at h; after it   *)
(* is confirmed ClearThawTx drops the row entries and the schedule entry.  *)
(* ClearThawTx runs without the miner mutex, so blocks confirmed by an     *)
(* ingress sync (whose unbond transactions add row and schedule entries)   *)
(* interleave with its reads and writes.  Every asset unit is 1; tags of   *)
(* thaw_detail entries are abstracted to their heights.                    *)
(***************************************************************************)
EXTENDS Naturals, FiniteSets, Sequences

CONSTANTS
    Addresses,      \* owners of frozen assets
    MaxHeight,      \* bound: blocks are produced up to this height
    Delay,          \* the unbond contract schedules a thaw Delay blocks ahead
    MaxFailures     \* bound: number of reads and writes that fail

ASSUME MaxHeight \in Nat \ {0} /\ Delay \in Nat \ {0} /\ MaxFailures \in Nat

Heights == 1..MaxHeight

VARIABLES
    trunk,      \* Ledger.GetMeta().TrunkHeight
    paid,       \* height -> addresses the trunk block there pays back (reverse txs)
    unbonds,    \* height -> addresses whose unbond tx the trunk block there holds
    frozen,     \* amount_<addr>.frozen_detail, in units
    thaw,       \* amount_<addr>.thaw_detail: the heights of its entries
    total,      \* amount_<addr>.total
    sched,      \* nodeinfo_tdos_thaw_total_assets: height -> addresses
    pc,         \* where the mining loop is
    h,          \* ClearThawTx's height argument
    snap,       \* ClearThawTx's NodeTable, read at its start
    todo,       \* addresses of snap[h] still to clear
    cur,        \* the address being cleared
    row,        \* the frozen-assets row ClearThawTx read for cur
    staged,     \* Ledger.ConfirmBatch: the last amount row Put per address and the
                \* last schedule Put, each <<>> or <<value>>; never Reset (1362)
    failures,   \* reads and writes that have failed so far
    cleared     \* history: the <<addr, height>> entries ClearThawTx removed

chain == <<trunk, paid, unbonds>>
rows == <<frozen, thaw, total, sched>>
clearer == <<pc, h, snap, todo, cur, row>>
vars == <<chain, rows, clearer, staged, failures, cleared>>

Fail == failures < MaxFailures /\ failures' = failures + 1

Row(a) == [frozen |-> frozen[a], thaw |-> thaw[a], total |-> total[a]]

\* the amount row of a once the batch st is written
RowAfter(st, a) == IF st.rows[a] = << >> THEN Row(a) ELSE Head(st.rows[a])

\* batch.Write(): commits every row staged on st, the ones staged by
\* earlier calls included, and the batch keeps them
WriteBatch(st) ==
    /\ frozen' = [a \in Addresses |-> RowAfter(st, a).frozen]
    /\ thaw' = [a \in Addresses |-> RowAfter(st, a).thaw]
    /\ total' = [a \in Addresses |-> RowAfter(st, a).total]
    /\ sched' = IF st.sched = << >> THEN sched ELSE Head(st.sched)

Init ==
    /\ trunk = 0
    /\ paid = [x \in Heights |-> {}]
    /\ unbonds = [x \in Heights |-> {}]
    \* every address has one unit frozen and one thawing at height 1
    /\ frozen = [a \in Addresses |-> 1]
    /\ thaw = [a \in Addresses |-> {1}]
    /\ total = [a \in Addresses |-> 2]
    /\ sched = [x \in Heights |-> IF x = 1 THEN Addresses ELSE {}]
    /\ pc = "mine"
    /\ h = 0
    /\ snap = sched
    /\ todo = {}
    /\ cur = CHOOSE a \in Addresses : TRUE
    /\ row = Row(cur)
    /\ staged = [rows |-> [a \in Addresses |-> << >>], sched |-> << >>]
    /\ failures = 0
    /\ cleared = {}

-----------------------------------------------------------------------------
(* Blocks, confirmed under the miner mutex *)

\* The unbond contract run by a confirmed block at height x moves a frozen
\* unit of a to thaw at x + Delay and schedules it there (spec 3).
Unbond(a, x) ==
    /\ frozen' = [frozen EXCEPT ![a] = @ - 1]
    /\ thaw' = [thaw EXCEPT ![a] = @ \cup {x + Delay}]
    /\ sched' = [sched EXCEPT ![x + Delay] = @ \cup {a}]
    /\ UNCHANGED total

\* mutant: the contract does not check the frozen balance
CanUnbondNoBalance(a, x) == x + Delay <= MaxHeight /\ x + Delay \notin thaw[a]

CanUnbond(a, x) == frozen[a] > 0 /\ x + Delay <= MaxHeight /\ x + Delay \notin thaw[a]

\* The trunk after a block at height x paying back ps is confirmed on top
\* of the blocks up to x-1 (a truncation drops those above); the block may
\* hold one unbond tx.  The rows the contracts of dropped blocks wrote are
\* not modelled, so only blocks without unbond txs are dropped.
ConfirmBlock(x, ps) ==
    /\ \A y \in x..trunk : unbonds[y] = {}
    /\ trunk' = x
    /\ paid' = [y \in Heights |-> IF y = x THEN ps ELSE IF y > x THEN {} ELSE paid[y]]
    /\ \/ /\ unbonds' = [unbonds EXCEPT ![x] = {}]
          /\ UNCHANGED rows
       \/ \E a \in Addresses :
            /\ CanUnbond(a, x)
            /\ unbonds' = [unbonds EXCEPT ![x] = {a}]
            /\ Unbond(a, x)

\* GetThawTx(height): the reverse txs for the addresses scheduled there
GetThawTx(x) == sched[x]

\* mining (980-1044), when the loop was elected: ProcessBeforeMiner may
\* truncate to an ancestor of the tip, packBlock asks GetThawTx for the new
\* height and ignores its error (the schedule does not parse, ReverseTx
\* fails: 1100-1104), confirmBlockForMiner confirms the block
Mine ==
    /\ pc = "mine"
    /\ \E x \in 1..trunk + 1 :
         /\ x <= MaxHeight
         /\ \/ ConfirmBlock(x, GetThawTx(x)) /\ UNCHANGED failures
            \/ Fail /\ ConfirmBlock(x, {})
    /\ pc' = "clear"
    /\ UNCHANGED <<h, snap, todo, cur, row, staged, cleared>>

\* an iteration in which the loop is not elected, or mining fails
NotMine ==
    /\ pc = "mine"
    /\ pc' = "clear"
    /\ UNCHANGED <<chain, rows, h, snap, todo, cur, row, staged, failures, cleared>>

\* an ingress task confirms a peer's block at TrunkHeight+1 (batchConfirmBlock);
\* the peer packed the reverse txs of the same replicated schedule
Sync ==
    /\ trunk < MaxHeight
    /\ ConfirmBlock(trunk + 1, sched[trunk + 1])
    /\ UNCHANGED <<clearer, staged, failures, cleared>>

-----------------------------------------------------------------------------
(* ClearThawTx(TrunkHeight - 1) (649-652, 1347-1439), without the mutex *)

\* read the node schedule; no entry at the height returns nil
ClearStart ==
    /\ pc = "clear"
    /\ h' = trunk - 1
    /\ snap' = sched
    /\ IF trunk - 1 \in Heights /\ sched[trunk - 1] # {}
         THEN /\ todo' = sched[trunk - 1]
              /\ pc' = "read"
         ELSE /\ todo' = {}
              /\ pc' = "mine"
    /\ UNCHANGED <<chain, rows, cur, row, staged, failures, cleared>>

\* for an address of the entry: Get amount_<addr>; a missing row, or one
\* that does not parse, returns the error and ends ClearThawTx (1363-1375)
ClearRead ==
    /\ pc = "read"
    /\ \E a \in todo :
         \/ /\ cur' = a
            /\ row' = Row(a)
            /\ pc' = "put"
            /\ UNCHANGED failures
         \/ /\ Fail
            /\ pc' = "mine"
            /\ UNCHANGED <<cur, row>>
    /\ UNCHANGED <<chain, rows, h, snap, todo, staged, cleared>>

\* mutant: the removed entries are not subtracted from total
ClearedNoSubtract(r, x) ==
    [frozen |-> r.frozen, thaw |-> {y \in r.thaw : y > x}, total |-> r.total]

\* the row ClearThawTx writes back from the row r it read: the thaw entries
\* above the height are kept, the others subtracted from total (1376-1405)
Cleared(r, x) ==
    [frozen |-> r.frozen,
     thaw   |-> {y \in r.thaw : y > x},
     total  |-> r.total - Cardinality({y \in r.thaw : y <= x})]

\* Put amount_<addr> on the batch and batch.Write(), whose error is ignored
\* (1406-1416): a failed Write leaves the row staged for a later Write
ClearPut ==
    /\ pc = "put"
    /\ staged' = [staged EXCEPT !.rows[cur] = <<Cleared(row, h)>>]
    /\ \/ WriteBatch(staged') /\ UNCHANGED failures
       \/ Fail /\ UNCHANGED rows
    /\ cleared' = cleared \cup {<<cur, y>> : y \in {y \in row.thaw : y <= h}}
    /\ todo' = todo \ {cur}
    /\ pc' = IF todo' = {} THEN "final" ELSE "read"
    /\ UNCHANGED <<chain, h, snap, cur, row>>

\* delete the height from the schedule read at the start, Put it and Write
\* (1418-1437); a failed Write is returned and leaves the row staged
ClearFinal ==
    /\ pc = "final"
    /\ staged' = [staged EXCEPT !.sched = <<[snap EXCEPT ![h] = {}]>>]
    /\ \/ WriteBatch(staged') /\ UNCHANGED failures
       \/ Fail /\ UNCHANGED rows
    /\ pc' = "mine"
    /\ UNCHANGED <<chain, h, snap, todo, cur, row, cleared>>

Next ==
    \/ Mine \/ NotMine \/ Sync
    \/ ClearStart \/ ClearRead \/ ClearPut \/ ClearFinal

Spec == Init /\ [][Next]_vars

-----------------------------------------------------------------------------
(* Properties *)

Rows == [frozen : Nat, thaw : SUBSET Heights, total : Nat]

TypeOK ==
    /\ trunk \in 0..MaxHeight
    /\ paid \in [Heights -> SUBSET Addresses]
    /\ unbonds \in [Heights -> SUBSET Addresses]
    /\ frozen \in [Addresses -> Nat]
    /\ thaw \in [Addresses -> SUBSET Heights]
    /\ total \in [Addresses -> Nat]
    /\ sched \in [Heights -> SUBSET Addresses]
    /\ pc \in {"mine", "clear", "read", "put", "final"}
    /\ snap \in [Heights -> SUBSET Addresses]
    /\ todo \subseteq Addresses /\ cur \in Addresses /\ row \in Rows
    /\ \A a \in Addresses : staged.rows[a] \in Seq(Rows) /\ Len(staged.rows[a]) <= 1
    /\ staged.sched \in Seq([Heights -> SUBSET Addresses]) /\ Len(staged.sched) <= 1
    /\ failures \in 0..MaxFailures
    /\ cleared \subseteq Addresses \X Heights

\* (spec 3, 8.5) every frozen-assets row keeps total equal to its frozen
\* amount plus its thawing entries, through ClearThawTx's subtraction and
\* the unbond contract's moves.
ThawConservation ==
    \A a \in Addresses : total[a] = frozen[a] + Cardinality(thaw[a])

\* (spec 3) a thaw entry is removed only after the trunk block at its
\* height paid it back: a block packed while GetThawTx failed carries no
\* reverse txs, and ClearThawTx drops the entries all the same.
ClearedOnlyAfterPayout ==
    \A e \in cleared : e[2] <= trunk => e[1] \in paid[e[2]]

\* every reverse transfer in the trunk pays back a thaw entry of the row,
\* present or removed: ClearThawTx writes back the row it read, over any
\* unbond a concurrent sync confirmed in between.
PayoutBacked ==
    \A x \in 1..trunk : \A a \in paid[x] : x \in thaw[a] \/ <<a, x>> \in cleared

\* (spec 3) when ClearThawTx starts on a height, no schedule entry is left
\* at any lower height: every height the trunk passed was cleared.  The
\* loop clears only TrunkHeight-1 (650), and syncs can confirm two blocks
\* in one iteration.
ScheduleDrained ==
    pc \in {"read", "put", "final"} => \A x \in 1..h - 1 : sched[x] = {}
=============================================================================
