------------------------------- MODULE Chain -------------------------------
(***************************************************************************)
(* What the miner promises of the ledger and the state machine it drives   *)
(* (spec 2, 4.6-4.8), without threads, locks or failures.                  *)
(*                                                                         *)
(* The ledger is a tree of blocks rooted at genesis; a block is its path   *)
(* from genesis.  A block joins the ledger only on top of a block already  *)
(* in it; the head (the trunk tip) is always a highest block; the ledger   *)
(* is cut back only to an ancestor of the head, and the state machine      *)
(* only ever stands on a block of the ledger.  Which block joins, and      *)
(* when, is left open.                                                     *)
(***************************************************************************)
EXTENDS Naturals, Sequences, SequencesExt

CONSTANTS
    Producers,      \* addresses that sign blocks
    MaxLen          \* bound: blocks are paths of at most this length

Blocks == BoundedSeq(Producers, MaxLen)
Genesis == << >>

VARIABLES
    blocks,     \* the blocks of the ledger
    head,       \* the trunk tip
    applied     \* the block the state machine has executed up to

vars == <<blocks, head, applied>>

\* a tree of blocks rooted at genesis whose head is one of its highest blocks
IsLedger(B, h) ==
    /\ Genesis \in B
    /\ \A b \in B : b # Genesis => Front(b) \in B
    /\ h \in B
    /\ \A b \in B : Len(b) <= Len(h)

Init ==
    /\ blocks \in SUBSET Blocks
    /\ head \in blocks
    /\ IsLedger(blocks, head)
    /\ applied \in blocks

\* a block is attached on top of a ledger block; it becomes the head when
\* it is higher; the state machine may play it when it stands on its parent
Attach ==
    \E b \in Blocks \ blocks :
       /\ b # Genesis /\ Front(b) \in blocks
       /\ blocks' = blocks \cup {b}
       /\ head' = IF Len(b) > Len(head) THEN b ELSE head
       /\ applied' \in {applied} \cup (IF applied = Front(b) THEN {b} ELSE {})

\* the ledger is cut back to a strict ancestor of the head; the state
\* machine stays on a block that is kept
CutBack ==
    \E tg \in blocks :
       /\ IsStrictPrefix(tg, head)
       /\ blocks' = {b \in blocks : Len(b) <= Len(tg)}
       /\ head' = tg
       /\ applied' \in blocks'

\* the state machine walks to some block of the ledger
Walk ==
    /\ applied' \in blocks
    /\ UNCHANGED <<blocks, head>>

Next == Attach \/ CutBack \/ Walk

Spec == Init /\ [][Next]_vars
=============================================================================
