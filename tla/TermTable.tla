----------------------------- MODULE TermTable -----------------------------
(***************************************************************************)
(* The cycle watcher and the candidate-cache rewriter of the mining loop:  *)
(* Miner.ReadTermTable (673-719) and Miner.UpdateCacheTable (722-967) in   *)
(* src/kernel/engines/xuperos/xpb/xpb.pb.go.                               *)
(*                                                                         *)
(* Both read rows of the ledger's confirmed table, stage new rows on the   *)
(* ledger's shared ConfirmBatch and commit it with Write.  The batch is    *)
(* never Reset (the calls are commented out at 675 and 724): a Write       *)
(* commits everything staged on it since it was created, and other         *)
(* writers of the same batch (ClearThawTx later in the iteration, the      *)
(* ledger) commit the miner's staged rows too.                             *)
(***************************************************************************)
EXTENDS Naturals, FiniteSets

CONSTANTS
    Candidates,     \* addresses in tdpos_freezes_total_assets
    Ballots,        \* contents of ballot_<addr> rows (voters, ratio, total)
    MaxTerm,        \* bound: consensus terms are 1..MaxTerm
    MaxFailures,    \* bound: number of reads and writes that fail
    Absent,         \* a key with no row (ConfirmedTable.Get returns an error)
    None            \* no put staged for the key

ASSUME MaxTerm \in Nat \ {0} /\ MaxFailures \in Nat

Terms == 1..MaxTerm
TermKey == "tdpos_term"
Keys == {TermKey} \cup Candidates        \* the cache_<addr> rows, keyed by addr

\* protos.TermTable; protos.CacheVoteCandidate, where cycle is history: the
\* term whose new cycle triggered the rewrite that produced the row
TermRows == [trem : Terms, newCycle : BOOLEAN]
CacheRows == [ballot : Ballots \cup {Absent}, cycle : Terms]

VARIABLES
    term,       \* Consensus.GetConsensusStatus().GetCurrentTerm()
    tbl,        \* the confirmed table: key -> committed row, or Absent
    batch,      \* Ledger.ConfirmBatch: key -> last row staged, or None
    ballot,     \* ballot_<addr> rows, written by the vote contract
    pc,         \* where the loop is
    flag,       \* ReadTermTable's first result in this iteration
    todo,       \* candidates UpdateCacheTable has still to rewrite
    failures,   \* reads and writes that have failed so far
    fired       \* history: term -> number of ReadTermTable calls that returned true

vars == <<term, tbl, batch, ballot, pc, flag, todo, failures, fired>>

Fail == failures < MaxFailures /\ failures' = failures + 1

\* batch.Write(): commits every staged row; the batch keeps them
Committed == [k \in Keys |-> IF batch[k] = None THEN tbl[k] ELSE batch[k]]

Init ==
    /\ term = 1
    /\ tbl \in [Keys -> {Absent}] \cup
               {[k \in Keys |-> IF k = TermKey THEN [trem |-> 1, newCycle |-> FALSE]
                                               ELSE Absent]}
    /\ batch = [k \in Keys |-> None]
    /\ ballot \in [Candidates -> Ballots \cup {Absent}]
    /\ pc = "read"
    /\ flag = FALSE
    /\ todo = {}
    /\ failures = 0
    /\ fired = [t \in Terms |-> 0]

-----------------------------------------------------------------------------
(* ReadTermTable (673-719) *)

\* mutant: a repeated call in the same term keeps the new-cycle mark
NextTermRowKeepsCycle(r, t) ==
    CASE r = Absent                       -> [trem |-> t, newCycle |-> FALSE]
      [] r.trem = t /\ ~r.newCycle        -> None
      [] OTHER                            -> [trem |-> t, newCycle |-> TRUE]

\* The row ReadTermTable stages for the stored row r in term t, or None when
\* it returns before staging: the record of this term was already observed.
NextTermRow(r, t) ==
    CASE r = Absent                       -> [trem |-> t, newCycle |-> FALSE]
      [] r.trem = t /\ ~r.newCycle        -> None
      [] r.trem # t                       -> [trem |-> t, newCycle |-> TRUE]
      [] OTHER                            -> [trem |-> t, newCycle |-> FALSE]

\* Get the stored row and the consensus term, decide, stage the new row.
\* A failed GetConsensusStatus returns (false, nil); a row that does not
\* parse returns (false, err).  Both leave the batch alone.
TermRead ==
    /\ pc = "read"
    /\ flag' = FALSE
    /\ \/ /\ Fail                         \* GetConsensusStatus or Unmarshal fails
          /\ pc' = "done"
          /\ UNCHANGED batch
       \/ LET row == NextTermRow(tbl[TermKey], term) IN
          /\ pc' = IF row = None THEN "done" ELSE "write"
          /\ batch' = IF row = None THEN batch ELSE [batch EXCEPT ![TermKey] = row]
          /\ UNCHANGED failures
    /\ UNCHANGED <<term, tbl, ballot, todo, fired>>

\* kvErr = batchWrite.Write(); on success return termTable.NewCycle
TermWrite ==
    /\ pc = "write"
    /\ \/ /\ tbl' = Committed
          /\ flag' = batch[TermKey].newCycle
          /\ fired' = IF batch[TermKey].newCycle
                        THEN [fired EXCEPT ![batch[TermKey].trem] = @ + 1]
                        ELSE fired
          /\ UNCHANGED failures
       \/ /\ Fail
          /\ UNCHANGED <<tbl, flag, fired>>
    /\ pc' = IF flag' THEN "candidates" ELSE "done"
    /\ UNCHANGED <<term, batch, ballot, todo>>

-----------------------------------------------------------------------------
(* UpdateCacheTable (722-967), when ReadTermTable returned true.  The      *)
(* candidate set is read first; Candidate is a map, iterated in any order. *)

\* Get tdpos_freezes_total_assets: a missing row or one that does not parse
\* makes the function return before anything is staged (725-737)
CacheStart ==
    /\ pc = "candidates"
    /\ \/ /\ todo' = Candidates
          /\ pc' = "cache"
          /\ UNCHANGED failures
       \/ /\ Fail
          /\ pc' = "done"
          /\ UNCHANGED todo
    /\ UNCHANGED <<term, tbl, batch, ballot, flag, fired>>

\* mutant: the ballot_<addr> row itself is staged as the cache row
CacheRewriteRawBallot ==
    /\ pc = "cache"
    /\ todo # {}
    /\ \E c \in todo :
         /\ batch' = [batch EXCEPT ![c] = ballot[c]]
         /\ todo' = todo \ {c}
    /\ UNCHANGED <<term, tbl, ballot, pc, flag, failures, fired>>

\* for one candidate: Get ballot_<addr> (a missing row leaves the fields
\* empty, its error is only logged), Get cache_<addr>; a stored cache row
\* that does not parse makes the function return without Write (806-810);
\* otherwise stage cache_<addr> with the ballot's fields
CacheRewrite ==
    /\ pc = "cache"
    /\ todo # {}
    /\ \E c \in todo :
         \/ /\ batch' = [batch EXCEPT ![c] = [ballot |-> ballot[c], cycle |-> tbl[TermKey].trem]]
            /\ todo' = todo \ {c}
            /\ UNCHANGED <<pc, failures>>
         \/ /\ tbl[c] # Absent
            /\ Fail
            /\ pc' = "done"
            /\ UNCHANGED <<batch, todo>>
    /\ UNCHANGED <<term, tbl, ballot, flag, fired>>

\* after the loop: kvErr = batchWrite.Write(), its error only logged
CacheWrite ==
    /\ pc = "cache"
    /\ todo = {}
    /\ \/ tbl' = Committed /\ UNCHANGED failures
       \/ Fail /\ UNCHANGED tbl
    /\ pc' = "done"
    /\ UNCHANGED <<term, batch, ballot, flag, todo, fired>>

\* the rest of the iteration: sync, mining, ClearThawTx, the refresh
IterationEnd ==
    /\ pc = "done"
    /\ pc' = "read"
    /\ UNCHANGED <<term, tbl, batch, ballot, flag, todo, failures, fired>>

-----------------------------------------------------------------------------
(* The environment *)

\* consensus moves to the next term
NewTerm ==
    /\ term < MaxTerm
    /\ term' = term + 1
    /\ UNCHANGED <<tbl, batch, ballot, pc, flag, todo, failures, fired>>

\* a confirmed vote transaction rewrites a candidate's ballot row
Vote ==
    /\ \E c \in Candidates, b \in Ballots :
         /\ ballot[c] # b
         /\ ballot' = [ballot EXCEPT ![c] = b]
    /\ UNCHANGED <<term, tbl, batch, pc, flag, todo, failures, fired>>

\* ClearThawTx, later in the loop's iteration, commits the same batch with
\* its per-address and final writes (1415, 1431) when rows thaw
OtherWrite ==
    /\ pc = "done"
    /\ tbl # Committed
    /\ tbl' = Committed
    /\ UNCHANGED <<term, batch, ballot, pc, flag, todo, failures, fired>>

Next ==
    \/ TermRead \/ TermWrite \/ CacheStart \/ CacheRewrite \/ CacheWrite \/ IterationEnd
    \/ NewTerm \/ Vote \/ OtherWrite

Spec == Init /\ [][Next]_vars

-----------------------------------------------------------------------------
(* Properties *)

TypeOK ==
    /\ term \in Terms
    /\ tbl[TermKey] \in TermRows \cup {Absent}
    /\ \A c \in Candidates : tbl[c] \in CacheRows \cup {Absent}
    /\ batch[TermKey] \in TermRows \cup {None}
    /\ \A c \in Candidates : batch[c] \in CacheRows \cup {None}
    /\ ballot \in [Candidates -> Ballots \cup {Absent}]
    /\ pc \in {"read", "write", "candidates", "cache", "done"}
    /\ flag \in BOOLEAN /\ todo \subseteq Candidates
    /\ failures \in 0..MaxFailures
    /\ fired \in [Terms -> Nat]

\* (spec 4.1, 8.3) ReadTermTable reports a new cycle at most once per term,
\* although its staged rows stay on the shared batch and are committed
\* again by every later Write, its own and ClearThawTx's.
NewCycleAtMostOncePerTerm == \A t \in Terms : fired[t] <= 1

\* (spec 4.1) when an iteration starts, a stored term row that marks a new
\* cycle was written by a ReadTermTable that reported the cycle, so the
\* candidate cache was rewritten for that term.  A failed Write of
\* ReadTermTable leaves its staged row on the batch for ClearThawTx's Write
\* to commit, and the next call then finds the term already observed.
TermRowImpliesReported ==
    pc = "read" /\ tbl[TermKey] # Absent /\ tbl[TermKey].newCycle
        => fired[tbl[TermKey].trem] >= 1
=============================================================================
