----------------------------- MODULE PackBlock -----------------------------
(***************************************************************************)
(* The block packer: Miner.packBlock (1072-1211) with getTimerTx           *)
(* (1227-1235), getUnconfirmedTx (1237-1254), getAwardTx (1256-1275) and   *)
(* convertConsData (1213-1225), in src/kernel/engines/xuperos/xpb/         *)
(* xpb.pb.go.                                                              *)
(*                                                                         *)
(* packBlock runs under the miner mutex and reads only its collaborators,  *)
(* so one call is one step: it picks the inputs the collaborators can      *)
(* return (size limit, timer tx, mempool, thaw txs, the award split) and   *)
(* which calls fail, and yields the tx list or the error.  A tx is its     *)
(* kind, its serialized size and its amount; a mempool tx also its place   *)
(* in the mempool.  AssignRewards and GenerateVoteAward are not in this    *)
(* repository and are modelled from spec 4.4.                              *)
(***************************************************************************)
EXTENDS Integers, Sequences, FiniteSets, SequencesExt

CONSTANTS
    MaxLimit,       \* bound: State.MaxTxSizePerBlock() is 0..MaxLimit
    TxSizes,        \* proto.Size of a tx
    MaxMempool,     \* bound: GetUnconfirmedTx returns at most this many txs
    MaxThaw,        \* bound: GetThawTx returns at most this many txs
    Award,          \* GenesisBlock.CalcAward(height)
    MaxFailures,    \* bound: number of failing calls in one packBlock
    NoBlock         \* packBlock returned an error

ASSUME MaxLimit \in Nat /\ TxSizes \subseteq Nat \ {0} /\ Award \in Nat

\* the collaborator calls packBlock makes, in its order
Calls == {"MaxTxSizePerBlock", "GetTimerTx", "GetUnconfirmedTx", "GetThawTx",
          "GenerateAwardTx", "GenerateVoteAward", "convertConsData",
          "FormatMinerBlock"}

\* the sets of calls that may fail in one packBlock
Failures == {F \in SUBSET Calls : Cardinality(F) <= MaxFailures}

\* calls whose error packBlock logs and goes on (1100-1104, 1136-1139)
Ignored == {"GetThawTx", "GenerateVoteAward"}

Kinds == {"award", "timer", "general", "thaw", "vote"}

Tx(kind, id, size, amount) == [kind |-> kind, id |-> id, size |-> size, amount |-> amount]

\* a tx a block can carry; the timer tx without extension outputs (size 0)
\* is not one
Txs == [kind : Kinds, id : 0..MaxMempool, size : TxSizes, amount : 0..Award]

\* the mempool in GetUnconfirmedTx order: tx k of size s
Mempools == UNION { { [k \in 1..n |-> Tx("general", k, f[k], 0)] : f \in [1..n -> TxSizes] } :
                     n \in 0..MaxMempool }

RECURSIVE SizeOf(_)
SizeOf(s) == IF s = << >> THEN 0 ELSE Head(s).size + SizeOf(Tail(s))

-----------------------------------------------------------------------------
(* getUnconfirmedTx (1237-1254) *)

\* mutant: a tx that does not fit is skipped and the next one tried
TakeFittingSkips(txs, limit) ==
    LET RECURSIVE Go(_, _)
        Go(s, l) == IF s = << >> THEN << >>
                    ELSE IF Head(s).size > l THEN Go(Tail(s), l)
                    ELSE <<Head(s)>> \o Go(Tail(s), l - Head(s).size)
    IN Go(txs, limit)

\* the mempool txs taken in order while each fits the remaining size; the
\* loop breaks at the first that does not
RECURSIVE TakeFitting(_, _)
TakeFitting(txs, limit) ==
    IF txs = << >> \/ Head(txs).size > limit THEN << >>
    ELSE <<Head(txs)>> \o TakeFitting(Tail(txs), limit - Head(txs).size)

-----------------------------------------------------------------------------
(* packBlock (1072-1211) *)

\* mutant: the timer tx is appended whether or not it has extension outputs
TxListTimerUnchecked(award, timer, general, thawTxs, voteTxs) ==
    <<award, timer>> \o general \o thawTxs \o voteTxs

\* mutant: the thaw txs are appended before the mempool txs
TxListThawFirst(award, timer, general, thawTxs, voteTxs) ==
    <<award>> \o (IF timer.size > 0 THEN <<timer>> ELSE << >>)
              \o thawTxs \o general \o voteTxs

\* txList: award, the timer tx when it has extension outputs, the mempool
\* txs, the thaw txs, the vote-award txs (1122-1141)
TxList(award, timer, general, thawTxs, voteTxs) ==
    <<award>> \o (IF timer.size > 0 THEN <<timer>> ELSE << >>)
              \o general \o thawTxs \o voteTxs

VARIABLES
    pc,         \* "pack" before the call, "done" after it
    limit,      \* sizeLimit as MaxTxSizePerBlock returned it
    mempool,    \* GetUnconfirmedTx(false)'s list
    flag,       \* ReadTermTable's result, passed by the loop
    remain,     \* remainAward: AssignRewards' share for the voters
    block       \* the tx list packBlock formatted, or NoBlock

vars == <<pc, limit, mempool, flag, remain, block>>

Init ==
    /\ pc = "pack"
    /\ limit = 0
    /\ mempool = << >>
    /\ flag = FALSE
    /\ remain = 0
    /\ block = NoBlock

\* One packBlock call.  A timer tx without extension outputs has size 0.
\* failed: the calls that return an error; the first one not ignored ends
\* packBlock with it.  A failed GetThawTx yields no thaw txs, a failed
\* GenerateVoteAward no vote txs.
Pack ==
    /\ pc = "pack"
    /\ \E l \in 0..MaxLimit, tsize \in TxSizes \cup {0}, mem \in Mempools,
          nThaw \in 0..MaxThaw, f \in BOOLEAN, share \in 0..Award,
          asize \in TxSizes, failed \in Failures :
         LET r       == IF f THEN 0 ELSE share                 \* getAwardTx
             award   == Tx("award", 0, asize, Award - r)
             timer   == Tx("timer", 0, tsize, 0)
             general == TakeFitting(mem, l - tsize)
             thawTxs == IF "GetThawTx" \in failed THEN << >>
                        ELSE [k \in 1..nThaw |-> Tx("thaw", 0, 1, 0)]
             voteTxs == IF r > 0 /\ ~f /\ "GenerateVoteAward" \notin failed
                          THEN <<Tx("vote", 0, 1, r)>> ELSE << >>
         IN
         /\ limit' = l
         /\ mempool' = mem
         /\ flag' = f
         /\ remain' = r
         /\ block' = IF failed \ Ignored # {} THEN NoBlock
                     ELSE TxList(award, timer, general, thawTxs, voteTxs)
    /\ pc' = "done"

\* the next iteration of the loop packs again; packBlock keeps nothing
\* from one call to the next
Repack ==
    /\ pc = "done"
    /\ pc' = "pack"
    /\ limit' = 0 /\ mempool' = << >> /\ flag' = FALSE /\ remain' = 0
    /\ block' = NoBlock

Next == Pack \/ Repack

Spec == Init /\ [][Next]_vars

-----------------------------------------------------------------------------
(* Properties *)

TypeOK ==
    /\ pc \in {"pack", "done"}
    /\ limit \in 0..MaxLimit
    /\ mempool \in Mempools
    /\ flag \in BOOLEAN
    /\ remain \in 0..Award
    /\ block = NoBlock \/ block \in Seq(Txs)

\* the txs of kind k in the block, in block order
OfKind(b, K) == SelectSeq(b, LAMBDA t : t.kind \in K)

\* the budget left to the mempool txs: sizeLimit less the timer tx
TimerSize(b) == SizeOf(OfKind(b, {"timer"}))

Rank == [award |-> 0, timer |-> 1, general |-> 2, thaw |-> 3, vote |-> 4]

\* (spec 4.5, 8.6) every packed block starts with the one award tx, has at
\* most one timer tx, and then the mempool, thaw and vote-award txs in
\* that order, whichever of the ignored calls failed
TxOrder ==
    block # NoBlock =>
        /\ block # << >> /\ block[1].kind = "award"
        /\ \A i, j \in DOMAIN block : i < j =>
              /\ Rank[block[i].kind] <= Rank[block[j].kind]
              /\ block[i].kind = block[j].kind => block[i].kind \in {"general", "thaw", "vote"}

\* (spec 4.5 step 3) the mempool txs of the block are a prefix of the
\* mempool that fits the budget, and the mempool tx after it does not fit
\* in what is left: the selection stops at the first tx that would exceed
\* the limit and never skips one
MempoolPrefix ==
    block # NoBlock =>
        LET g == OfKind(block, {"general"})
            budget == limit - TimerSize(block)
        IN  /\ IsPrefix(g, mempool)
            /\ SizeOf(g) <= budget \/ g = << >>
            /\ Len(g) < Len(mempool) => SizeOf(g) + mempool[Len(g) + 1].size > budget
=============================================================================
