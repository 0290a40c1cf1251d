----------------------------- MODULE ChainWalk ------------------------------
(***************************************************************************)
(* Cluster chains in the guest's FAT, and the memory Katea keeps of them   *)
(* (crates/izarravm-machine/src/katea_tree.rs: FatWalk, ChainMemo,         *)
(* chain_with_token, note_metadata_write; katea_write.rs: chain), as       *)
(* operators on the volume v.                                              *)
(*                                                                         *)
(* v.fat is what the guest would read from the FAT.  A FAT sector holds    *)
(* the entries of a few clusters.  unread is the set of guest-written FAT  *)
(* sectors that cannot be read back from the spill file during a pass.     *)
(***************************************************************************)
EXTENDS Integers, FiniteSets, Sequences, SequencesExt

CONSTANTS
    Clusters,   \* the data clusters
    Far,        \* clusters past FAT copy 0, which only a corrupt link names
    SectorOf,   \* the FAT sector of a cluster, of a far one modulo fatsz
    EOC,
    None,
    MemoMax     \* CHAIN_MEMO_MAX_ENTRIES
ASSUME ChainAssumption ==
    /\ Clusters \subseteq Nat \ {0, 1} /\ Far \subseteq Nat \ {0, 1} /\ Clusters \cap Far = {}
    /\ EOC \notin Nat /\ MemoMax \in Nat \ {0}

Named == Clusters \cup Far
Free == 0
FatSectors == {SectorOf[c] : c \in Named}
MaxChain == Cardinality(Clusters) + 2

-----------------------------------------------------------------------------
(* One walk.                                                               *)

StartWalk ==
    [chain |-> <<>>, whole |-> FALSE, within |-> None, sectors |-> <<>>,
     degraded |-> FALSE, failed |-> FALSE]

\* Mutant: a link past FAT copy 0 is a link like any other.
ResolveFar(unread, w, c) ==
    IF c \in Far \/ w.within = SectorOf[c] THEN w
    ELSE [w EXCEPT !.within = SectorOf[c], !.sectors = Append(@, SectorOf[c]),
                   !.degraded = @ \/ SectorOf[c] \in unread,
                   !.failed = @ \/ SectorOf[c] \in unread]

\* fat_entry_walked, up to the value: the cursor moves to the sector of c.
Resolve(unread, w, c) ==
    IF c \in Far THEN [w EXCEPT !.degraded = TRUE]
    ELSE IF w.within = SectorOf[c] THEN w
    ELSE [w EXCEPT !.within = SectorOf[c], !.sectors = Append(@, SectorOf[c]),
                   !.degraded = @ \/ SectorOf[c] \in unread,
                   !.failed = @ \/ SectorOf[c] \in unread]

RECURSIVE Follow(_, _, _, _, _)

\* chain from cluster c on, for at most n clusters.
Follow(v, unread, w, c, n) ==
    LET grown == [Resolve(unread, w, c) EXCEPT !.chain = Append(@, c)]
        next == IF c \notin Far /\ SectorOf[c] \in unread THEN Free ELSE v.fat[c]
    IN  IF n = 0 THEN w
        ELSE IF next = EOC THEN [grown EXCEPT !.whole = TRUE]
        ELSE IF next = Free THEN grown
        ELSE Follow(v, unread, grown, next, n - 1)

Walk(v, unread, first) == Follow(v, unread, StartWalk, first, MaxChain)

\* katea_write::chain's answer: the clusters, or None to hold the chain.
Answer(w) == IF w.whole THEN w.chain ELSE None

-----------------------------------------------------------------------------
(* The memory of walks.                                                    *)

\* chain_token_is_current.
IsCurrent(v, token) ==
    \/ v.fat_epoch = token.epoch
    \/ \A i \in DOMAIN token.sectors : v.fat_sector_epoch[token.sectors[i]] <= token.epoch

NoMemo == [c \in Named |-> None]

\* The memo with one more chain; a full memo is emptied first.
Remembered(v, first, memo) ==
    LET held == {c \in Named : v.chain_memo[c] # None}
        kept == IF Cardinality(held) >= MemoMax /\ first \notin held
                THEN NoMemo ELSE v.chain_memo
    IN  [v EXCEPT !.chain_memo = [kept EXCEPT ![first] = memo]]

\* The walk w from first has been made: it is remembered unless it was degraded.
Walked(v, first, w) ==
    LET memo == [chain |-> Answer(w), token |-> [epoch |-> v.fat_epoch, sectors |-> w.sectors]]
    IN  IF w.degraded
        THEN [vol |-> [v EXCEPT !.failed = @ \/ w.failed], chain |-> Answer(w), token |-> None]
        ELSE [vol |-> Remembered(v, first, memo), chain |-> memo.chain, token |-> memo.token]

\* chain_with_token: a remembered chain that is still current, or a walk.
ChainWithToken(v, unread, first) ==
    LET memo == v.chain_memo[first]
    IN  IF memo # None /\ IsCurrent(v, memo.token)
        THEN [vol |-> v, chain |-> memo.chain, token |-> memo.token]
        ELSE Walked(v, first, Walk(v, unread, first))

\* A guest write to the FAT sector of c: note_metadata_write stamps the sector.
WriteFat(v, c, value) ==
    [v EXCEPT !.fat[c] = value, !.fat_epoch = @ + 1,
              !.fat_sector_epoch[SectorOf[c]] = v.fat_epoch + 1]
=============================================================================
