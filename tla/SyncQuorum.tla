---------------------------- MODULE SyncQuorum ----------------------------
(***************************************************************************)
(* Longest-block discovery of trySyncBlock(nil): Miner.getWholeNetLongest- *)
(* Block (1844-1876), its sort BCSByHeight (1878-1888), the confirmation   *)
(* probe Miner.isConfirmed (1767-1781) and its quorum countConfirmBlock    *)
(* (1786-1803), in src/kernel/engines/xuperos/xpb/xpb.pb.go.               *)
(*                                                                         *)
(* The node asks its neighbours for their chain status, sorts the answers  *)
(* by descending trunk height with the unstable sort.Sort, and probes the  *)
(* candidates in that order; each probe is a fresh CONFIRM_BLOCKCHAIN-     *)
(* STATUS round whose replies are counted.  The first candidate whose      *)
(* probe passes is the sync target.  A chain status is abstracted to the   *)
(* tip it names and its trunk height; a reply to its tip and whether it    *)
(* parsed.                                                                 *)
(***************************************************************************)
EXTENDS Naturals, Sequences, FiniteSets, SequencesExt

CONSTANTS
    Tips,           \* block ids the neighbours report as their trunk tip
    MaxTrunk,       \* bound: trunk heights are 0..MaxTrunk
    MaxResponses,   \* bound: replies to one broadcast
    Garbled,        \* a response that does not unmarshal
    NotFound        \* "not found longest block", or a broadcast error

ASSUME MaxTrunk \in Nat /\ MaxResponses \in Nat

\* xpb.ChainStatus, reduced to Block.Blockid and LedgerMeta.TrunkHeight
Statuses == [tip : Tips, height : 0..MaxTrunk]

\* protos.TipStatus: IsTrunkTip true or false, or a message that fails to
\* unmarshal
Replies == {"agree", "disagree", Garbled}

-----------------------------------------------------------------------------
(* countConfirmBlock (1786-1803) *)

\* one pass of the loop over the replies: <<agreeCnt, disagreeCnt>>; a
\* reply that does not unmarshal is skipped (continue)
Tally(acc, m) ==
    CASE m = "agree"    -> [acc EXCEPT ![1] = @ + 1]
      [] m = "disagree" -> [acc EXCEPT ![2] = @ + 1]
      [] OTHER          -> acc

\* agreeCnt >= disagreeCnt && agreeCnt >= len(messages)/3, in Go's integer
\* division, len counting the replies that did not unmarshal
countConfirmBlock(msgs) ==
    LET cnt == FoldLeft(Tally, <<0, 0>>, msgs)
    IN  cnt[1] >= cnt[2] /\ cnt[1] >= Len(msgs) \div 3

\* mutant: the comparison is the wrong way round
LessAscending(s, t) == s.height < t.height

\* BCSByHeight.Less: a higher trunk sorts first
Less(s, t) == s.height > t.height

\* sort.Sort is not stable: the result is any permutation of s ordered by
\* Less, equal heights in any order
SortedBy(s) ==
    { p \in { [i \in DOMAIN s |-> s[f[i]]] :
                f \in { g \in [DOMAIN s -> DOMAIN s] :
                          \A i, j \in DOMAIN s : i # j => g[i] # g[j] } } :
        \A i, j \in DOMAIN p : i < j => ~Less(p[j], p[i]) }

-----------------------------------------------------------------------------

VARIABLES
    pc,         \* where getWholeNetLongestBlock is
    bcs,        \* bcStatus: the parsed chain statuses, sorted after "sort"
    i,          \* the candidate being probed
    probes,     \* history: <<status, replies or NotFound, accepted>> per probe
    result      \* the block returned, or NotFound

vars == <<pc, bcs, i, probes, result>>

Init ==
    /\ pc = "query"
    /\ bcs = << >>
    /\ i = 1
    /\ probes = << >>
    /\ result = NotFound

\* mutant: a response that does not unmarshal is appended all the same
QueryKeepsGarbled ==
    /\ pc = "query"
    /\ \/ /\ pc' = "done"
          /\ UNCHANGED bcs
       \/ \E resp \in BoundedSeq(Statuses \cup {Garbled}, MaxResponses) :
            /\ bcs' = resp
            /\ pc' = "sort"
    /\ UNCHANGED <<i, probes, result>>

\* SendMessageWithResponse(GET_BLOCKCHAINSTATUS): an error returns it; the
\* responses that do not unmarshal are skipped (1850-1866)
Query ==
    /\ pc = "query"
    /\ \/ /\ pc' = "done"
          /\ UNCHANGED bcs
       \/ \E resp \in BoundedSeq(Statuses \cup {Garbled}, MaxResponses) :
            /\ bcs' = SelectSeq(resp, LAMBDA r : r # Garbled)
            /\ pc' = "sort"
    /\ UNCHANGED <<i, probes, result>>

\* sort.Sort(BCSByHeight(bcStatus)) (1868)
Sort ==
    /\ pc = "sort"
    /\ bcs' \in SortedBy(bcs)
    /\ pc' = "probe"
    /\ UNCHANGED <<i, probes, result>>

\* isConfirmed(bcs[i]): a broadcast error is false; otherwise the replies
\* are counted; the first candidate confirmed is returned (1869-1873)
Probe ==
    /\ pc = "probe"
    /\ i <= Len(bcs)
    /\ \E replies \in BoundedSeq(Replies, MaxResponses) \cup {NotFound} :
         LET ok == replies # NotFound /\ countConfirmBlock(replies) IN
         /\ probes' = Append(probes, <<bcs[i], replies, ok>>)
         /\ IF ok THEN /\ result' = bcs[i].tip
                       /\ pc' = "done"
                       /\ UNCHANGED i
                  ELSE /\ i' = i + 1
                       /\ UNCHANGED <<pc, result>>
    /\ UNCHANGED bcs

\* no candidate confirmed: "not found longest block" (1875)
Exhausted ==
    /\ pc = "probe"
    /\ i > Len(bcs)
    /\ pc' = "done"
    /\ UNCHANGED <<bcs, i, probes, result>>

Next == Query \/ Sort \/ Probe \/ Exhausted

Spec == Init /\ [][Next]_vars

-----------------------------------------------------------------------------
(* Properties *)

TypeOK ==
    /\ pc \in {"query", "sort", "probe", "done"}
    /\ bcs \in Seq(Statuses) /\ Len(bcs) <= MaxResponses
    /\ i \in 1..MaxResponses + 1
    /\ \A k \in DOMAIN probes :
         probes[k] \in Statuses \X (Seq(Replies) \cup {NotFound}) \X BOOLEAN
    /\ result \in Tips \cup {NotFound}

\* the sync target getWholeNetLongestBlock returns is the last candidate
\* probed, and every neighbour status of a higher trunk was probed first
\* and rejected: the sort puts higher trunks first, however it orders
\* equal heights
TargetIsHighestConfirmed ==
    pc = "done" /\ result # NotFound =>
        LET acc == Last(probes)[1] IN
        /\ acc.tip = result
        /\ \A s \in ToSet(bcs) :
              s.height > acc.height =>
                  \E k \in DOMAIN probes : probes[k][1] = s /\ ~probes[k][3]
=============================================================================
