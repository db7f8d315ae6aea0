---------------------------- MODULE LoopTables ----------------------------
(***************************************************************************)
(* One iteration of the mining loop as it touches the confirmed table:     *)
(* Miner.Start (607-665) runs ReadTermTable and, when it reports a new     *)
(* cycle, UpdateCacheTable (631-634), then mining (643-647), then          *)
(* ClearThawTx(TrunkHeight-1) (650-651), in                                *)
(* src/kernel/engines/xuperos/xpb/xpb.pb.go.                               *)
(*                                                                         *)
(* TermTable and Thaw are composed in that order.  All three functions     *)
(* stage rows on the ledger's one ConfirmBatch, which is never Reset, so   *)
(* ClearThawTx's per-address and final Writes (1415, 1431) commit the      *)
(* term and cache rows the miner left staged: this is TermTable's          *)
(* OtherWrite made concrete.  The environment (new terms, votes, ingress   *)
(* syncs) runs at any time; the two share one failure budget.              *)
(***************************************************************************)
EXTENDS Naturals

CONSTANTS Candidates, Ballots, MaxTerm, Absent, None,
          Addresses, MaxHeight, Delay, MaxFailures

VARIABLES
    term, tbl, batch, ballot, ttPc, flag, ttTodo, fired,     \* TermTable
    trunk, paid, unbonds, frozen, thaw, total, sched,        \* Thaw
    thPc, h, snap, thTodo, cur, row, staged, cleared,
    failures,   \* the failed reads and writes of the whole loop
    stage       \* "tables" before mining, "thaw" from mining to the refresh

TT == INSTANCE TermTable WITH pc <- ttPc, todo <- ttTodo
TH == INSTANCE Thaw WITH pc <- thPc, todo <- thTodo

ttVars == <<term, tbl, batch, ballot, ttPc, flag, ttTodo, fired>>
thVars == <<trunk, paid, unbonds, frozen, thaw, total, sched,
            thPc, h, snap, thTodo, cur, row, staged, cleared>>
vars == <<ttVars, thVars, failures, stage>>

Init == TT!Init /\ TH!Init /\ stage = "tables"

\* a Write of the shared batch by ReadTermTable or UpdateCacheTable also
\* commits the amount and schedule rows ClearThawTx left staged
ThawRowsCommitted ==
    /\ IF failures' = failures THEN TH!WriteBatch(staged)
                               ELSE UNCHANGED <<frozen, thaw, total, sched>>
    /\ UNCHANGED <<trunk, paid, unbonds, thPc, h, snap, thTodo, cur, row, staged, cleared>>

\* ReadTermTable and UpdateCacheTable, at the head of the iteration
Tables ==
    /\ stage = "tables"
    /\ \/ (TT!TermRead \/ TT!CacheStart \/ TT!CacheRewrite) /\ UNCHANGED thVars
       \/ (TT!TermWrite \/ TT!CacheWrite) /\ ThawRowsCommitted
    /\ UNCHANGED stage

\* the iteration goes on to the sync check and mining (636-647)
ToMining ==
    /\ stage = "tables"
    /\ ttPc = "done"
    /\ stage' = "thaw"
    /\ UNCHANGED <<ttVars, thVars, failures>>

\* mining, or an iteration without it; ClearThawTx's reads
ThawLocal ==
    /\ stage = "thaw"
    /\ TH!Mine \/ TH!NotMine \/ TH!ClearStart \/ TH!ClearRead
    /\ thPc' # "mine"
    /\ UNCHANGED <<ttVars, stage>>

\* Put amount_<addr> and Write the shared batch: the row of the address and
\* whatever ReadTermTable and UpdateCacheTable left staged are committed,
\* unless the Write fails
ClearPutCommit ==
    /\ stage = "thaw"
    /\ TH!ClearPut
    /\ tbl' = IF failures' = failures THEN TT!Committed ELSE tbl
    /\ UNCHANGED <<term, batch, ballot, ttPc, flag, ttTodo, fired, stage>>

\* the final Put and Write of the schedule; a failed Write commits nothing.
\* ClearThawTx returns and the loop starts the next iteration.
ClearFinalCommit ==
    /\ stage = "thaw"
    /\ TH!ClearFinal
    /\ tbl' = IF failures' = failures THEN TT!Committed ELSE tbl
    /\ stage' = "tables"
    /\ ttPc' = "read"
    /\ UNCHANGED <<term, batch, ballot, flag, ttTodo, fired>>

\* ClearThawTx returns early (no entry at the height, or a failed read) and
\* the loop refreshes its snapshots and starts the next iteration (652-665)
IterationEnd ==
    /\ stage = "thaw"
    /\ TH!ClearStart \/ TH!ClearRead
    /\ thPc' = "mine"
    /\ stage' = "tables"
    /\ ttPc' = "read"
    /\ UNCHANGED <<term, tbl, batch, ballot, flag, ttTodo, fired>>

Environment ==
    \/ TT!NewTerm /\ UNCHANGED <<thVars, stage>>
    \/ TT!Vote /\ UNCHANGED <<thVars, stage>>
    \/ TH!Sync /\ UNCHANGED <<ttVars, stage>>

Next ==
    \/ Tables \/ ToMining \/ ThawLocal \/ ClearPutCommit \/ ClearFinalCommit
    \/ IterationEnd \/ Environment

Spec == Init /\ [][Next]_vars

-----------------------------------------------------------------------------
(* Properties *)

TypeOK == TT!TypeOK /\ TH!TypeOK /\ stage \in {"tables", "thaw"}

\* (spec 4.1, 8.3) ReadTermTable reports a new cycle at most once per term,
\* although ClearThawTx's Writes commit its staged term row again and
\* again after it
NewCycleAtMostOncePerTerm == TT!NewCycleAtMostOncePerTerm

\* (spec 3, 8.5) every frozen-assets row keeps total equal to its frozen
\* amount plus its thawing entries while ClearThawTx's Writes share the
\* batch with the term and cache rows
ThawConservation == TH!ThawConservation

\* (spec 4.1) when an iteration starts, a stored term row that marks a new
\* cycle was written by a ReadTermTable that reported the cycle: a failed
\* Write of ReadTermTable leaves the row staged, ClearThawTx's Write
\* commits it, and the next ReadTermTable finds the term already observed
TermRowImpliesReported ==
    stage = "tables" /\ ttPc = "read" => TT!TermRowImpliesReported
=============================================================================
