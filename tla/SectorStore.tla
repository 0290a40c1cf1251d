---------------------------- MODULE SectorStore ----------------------------
(***************************************************************************)
(* The bounded guest-write store of crates/izarravm-machine/src/           *)
(* katea_store.rs (struct SectorStore): a RAM cache of the sectors written *)
(* last, backed by a scratch file that holds the evicted ones.             *)
(*                                                                         *)
(* insert() is several steps here, one per iteration of its eviction loop, *)
(* so that every point where the file system may fail is a state; nothing  *)
(* runs between them (the code holds &mut self), which the guards on       *)
(* inserting say.  A sector number is 0 .. LbaMax (2^32 - 1 in the code)   *)
(* and a file offset counts sectors.  A Chunk's bit maps are the sets      *)
(* present and written, and a chunk exists when it has a written sector.   *)
(***************************************************************************)
EXTENDS Integers, FiniteSets

CONSTANTS
    LbaMax,             \* largest sector number
    ChunkSectors,       \* CHUNK_SECTORS, sectors per slab of the spill file
    Capacity,           \* resident sectors, at least 1 (with_capacity)
    Payloads,           \* 512-byte contents, as far as they differ
    Zeroes, Torn,       \* fresh file space, and a slot a failed write left
    NoPayload, ReadError, NoCall, NotInserting,
    MaxSeq, MaxErrors   \* bounds on insert() calls and failed reads

ASSUME StoreAssumption ==
    /\ LbaMax \in Nat
    /\ ChunkSectors \in Nat \ {0}
    /\ Capacity \in Nat \ {0}
    /\ MaxSeq \in Nat /\ MaxErrors \in Nat
ASSUME PayloadAssumption ==
    /\ {Zeroes, Torn, NoPayload, ReadError} \cap Payloads = {}
    /\ NotInserting \notin [lba : 0 .. LbaMax, data : Payloads]

Lbas == 0 .. LbaMax
ChunkId(l) == l \div ChunkSectors
ChunkOffset(l) == l % ChunkSectors
ChunkIds == 0 .. ChunkId(LbaMax)
UNALLOCATED == -1

VARIABLES
    cache,              \* resident payload: sector -> [seq, data]
    order,              \* write sequence -> resident sector
    present, written,   \* the bit maps of all chunks
    slab,               \* per chunk, offset of its slab or UNALLOCATED
    last_seq,           \* per chunk, sequence of the last write into it
    spill_open, spill_len, bytes,   \* the spill file
    seq, broken, read_errors,
    inserting,          \* argument of the insert() under way
    call,               \* the last call, and the answer if it was a get()
    stamp               \* history: per sector, sequence of its last write

vars == <<cache, order, present, written, slab, last_seq, spill_open, spill_len,
          bytes, seq, broken, read_errors, inserting, call, stamp>>
fileVars == <<slab, spill_open, spill_len, bytes>>

Without(f, x) == [y \in DOMAIN f \ {x} |-> f[y]]
With(f, x, v) == [y \in DOMAIN f \cup {x} |-> IF y = x THEN v ELSE f[y]]

Init ==
    /\ cache = [l \in {} |-> 0] /\ order = [s \in {} |-> 0]
    /\ present = {} /\ written = {}
    /\ slab = [c \in ChunkIds |-> UNALLOCATED]
    /\ last_seq = [c \in ChunkIds |-> 0]
    /\ spill_open = FALSE /\ spill_len = 0 /\ bytes = [p \in {} |-> Zeroes]
    /\ seq = 0 /\ broken = FALSE /\ read_errors = 0
    /\ inserting = NotInserting
    /\ call = NoCall
    /\ stamp = [l \in Lbas |-> 0]

-----------------------------------------------------------------------------
(* insert                                                                  *)

BeginInsert(l, d) ==
    /\ inserting = NotInserting
    /\ seq < MaxSeq
    /\ seq' = seq + 1
    /\ present' = present \cup {l}
    /\ written' = written \cup {l}
    /\ last_seq' = [last_seq EXCEPT ![ChunkId(l)] = seq + 1]
    /\ stamp' = [stamp EXCEPT ![l] = seq + 1]
    /\ inserting' = [lba |-> l, data |-> d]
    /\ call' = <<"insert", l, d>>
    /\ UNCHANGED <<cache, order, fileVars, broken, read_errors>>

\* Mutant: room is made one insert too late.
EvictTooLate ==
    /\ inserting # NotInserting
    /\ inserting.lba \notin DOMAIN cache
    /\ Cardinality(DOMAIN cache) > Capacity
    /\ ~broken
    /\ DOMAIN order # {}

\* The loop's condition, and the early return of evict_one.
MustEvict ==
    /\ inserting # NotInserting
    /\ inserting.lba \notin DOMAIN cache
    /\ Cardinality(DOMAIN cache) >= Capacity
    /\ ~broken
    /\ DOMAIN order # {}

\* Least recently written: the front of order.
IsVictim(s) == s \in DOMAIN order /\ \A t \in DOMAIN order : s <= t

Base(c) == IF slab[c] = UNALLOCATED THEN spill_len ELSE slab[c]
Extended == [p \in 0 .. spill_len + ChunkSectors - 1 |->
                IF p \in DOMAIN bytes THEN bytes[p] ELSE Zeroes]
Allocated(c) == IF slab[c] = UNALLOCATED THEN Extended ELSE bytes

\* spill_sector up to the write: the file exists and the chunk has a slab.
AllocateSlab(c) ==
    /\ spill_open' = TRUE
    /\ slab' = [slab EXCEPT ![c] = Base(c)]
    /\ spill_len' = IF slab[c] = UNALLOCATED THEN spill_len + ChunkSectors ELSE spill_len

\* Mutant: a slot that was filled once is taken to be up to date.
StaleSlotKept(s) ==
    /\ MustEvict
    /\ IsVictim(s)
    /\ LET v == order[s]
           c == ChunkId(v)
           slot == Base(c) + ChunkOffset(v)
       IN  /\ AllocateSlab(c)
           /\ bytes' = [Allocated(c) EXCEPT ![slot] = IF @ = Zeroes THEN cache[v].data ELSE @]
           /\ cache' = Without(cache, v)
    /\ order' = Without(order, s)
    /\ UNCHANGED <<present, written, last_seq, seq, broken, read_errors, inserting, call, stamp>>

\* The victim leaves RAM only after its payload is in the file.
EvictOne(s) ==
    /\ MustEvict
    /\ IsVictim(s)
    /\ LET v == order[s]
           c == ChunkId(v)
       IN  IF v \in DOMAIN cache
           THEN /\ AllocateSlab(c)
                /\ bytes' = [Allocated(c) EXCEPT ![Base(c) + ChunkOffset(v)] = cache[v].data]
                /\ cache' = Without(cache, v)
           ELSE UNCHANGED <<cache, fileVars>>
    /\ order' = Without(order, s)
    /\ UNCHANGED <<present, written, last_seq, seq, broken, read_errors, inserting, call, stamp>>

\* Mutant: the victim leaves RAM although its write failed.
DropUnspilled(s) ==
    /\ MustEvict
    /\ IsVictim(s)
    /\ cache' = Without(cache, order[s])
    /\ order' = Without(order, s)
    /\ broken' = TRUE
    /\ UNCHANGED <<present, written, fileVars, last_seq, seq, read_errors, inserting, call, stamp>>

\* Creating the file, extending it or writing the slot fails; a failed write
\* may leave anything in the victim's own slot.
EvictFails(s) ==
    /\ MustEvict
    /\ IsVictim(s)
    /\ order[s] \in DOMAIN cache
    /\ LET c == ChunkId(order[s])
       IN  \/ /\ ~spill_open
              /\ UNCHANGED fileVars
           \/ /\ slab[c] = UNALLOCATED
              /\ spill_open' = TRUE
              /\ UNCHANGED <<slab, spill_len, bytes>>
           \/ /\ AllocateSlab(c)
              /\ bytes' = [Allocated(c) EXCEPT ![Base(c) + ChunkOffset(order[s])] = Torn]
    /\ broken' = TRUE
    /\ UNCHANGED <<cache, order, present, written, last_seq, seq, read_errors, inserting,
                   call, stamp>>

\* Mutant: a rewrite leaves the sector's old position in order.
OldPositionKept ==
    /\ inserting # NotInserting
    /\ ~MustEvict
    /\ cache' = With(cache, inserting.lba, [seq |-> seq, data |-> inserting.data])
    /\ order' = With(order, seq, inserting.lba)
    /\ inserting' = NotInserting
    /\ UNCHANGED <<present, written, fileVars, last_seq, seq, broken, read_errors, call, stamp>>

FinishInsert ==
    /\ inserting # NotInserting
    /\ ~MustEvict
    /\ LET l == inserting.lba
           old == IF l \in DOMAIN cache THEN Without(order, cache[l].seq) ELSE order
       IN  /\ cache' = With(cache, l, [seq |-> seq, data |-> inserting.data])
           /\ order' = With(old, seq, l)
    /\ inserting' = NotInserting
    /\ UNCHANGED <<present, written, fileVars, last_seq, seq, broken, read_errors, call, stamp>>

-----------------------------------------------------------------------------
(* acknowledge and get                                                     *)

Acknowledge(l) ==
    /\ inserting = NotInserting
    /\ cache' = Without(cache, l)
    /\ order' = IF l \in DOMAIN cache THEN Without(order, cache[l].seq) ELSE order
    /\ present' = present \ {l}
    /\ call' = <<"acknowledge", l>>
    /\ UNCHANGED <<written, fileVars, last_seq, seq, broken, read_errors, inserting, stamp>>

\* Where a present sector that is not resident is read from.
Slot(l) == slab[ChunkId(l)] + ChunkOffset(l)
Readable(l) == spill_open /\ slab[ChunkId(l)] # UNALLOCATED /\ Slot(l) \in DOMAIN bytes

Held(l) ==
    IF l \in DOMAIN cache THEN cache[l].data
    ELSE IF l \notin present THEN NoPayload
    ELSE bytes[Slot(l)]

Get(l) ==
    /\ inserting = NotInserting
    /\ l \in DOMAIN cache \/ l \notin present \/ Readable(l)
    /\ call' = <<"get", l, Held(l)>>
    /\ UNCHANGED <<cache, order, present, written, fileVars, last_seq, seq, broken,
                   read_errors, inserting, stamp>>

GetFails(l) ==
    /\ inserting = NotInserting
    /\ read_errors < MaxErrors
    /\ l \notin DOMAIN cache
    /\ l \in present
    /\ call' = <<"get", l, ReadError>>
    /\ read_errors' = read_errors + 1
    /\ UNCHANGED <<cache, order, present, written, fileVars, last_seq, seq, broken,
                   inserting, stamp>>

Next ==
    \/ \E l \in Lbas, d \in Payloads : BeginInsert(l, d)
    \/ \E s \in DOMAIN order : EvictOne(s) \/ EvictFails(s)
    \/ FinishInsert
    \/ \E l \in Lbas : Acknowledge(l) \/ Get(l) \/ GetFails(l)

Spec == Init /\ [][Next]_vars

-----------------------------------------------------------------------------
(* Queries of the reconcile pass, in saturating 32-bit arithmetic.         *)

SatAdd(a, b) == IF a + b > LbaMax THEN LbaMax ELSE a + b
SatMul(a, b) == IF a * b > LbaMax THEN LbaMax ELSE a * b
Smaller(a, b) == IF a < b THEN a ELSE b

WasWritten(l) == l \in written

\* Mutant: the walk of a later chunk starts one sector late.
SpanSkipsBoundary(first, count) ==
    /\ count # 0
    /\ LET last == SatAdd(first, count - 1)
           End(c) == Smaller(SatMul(SatAdd(c, 1), ChunkSectors), SatAdd(last, 1))
           Start(c) == IF c = ChunkId(first) THEN first ELSE End(c - 1) + 1
       IN  \E c \in ChunkId(first) .. ChunkId(last) : \E l \in Start(c) .. End(c) - 1 :
               WasWritten(c * ChunkSectors + ChunkOffset(l))

\* The chunk walk: the sectors it tests in chunk c start where the previous
\* chunk's ended, and are looked up by their offset in c.
WasWrittenSpan(first, count) ==
    /\ count # 0
    /\ LET last == SatAdd(first, count - 1)
           End(c) == Smaller(SatMul(SatAdd(c, 1), ChunkSectors), SatAdd(last, 1))
           Start(c) == IF c = ChunkId(first) THEN first ELSE End(c - 1)
       IN  \E c \in ChunkId(first) .. ChunkId(last) : \E l \in Start(c) .. End(c) - 1 :
               WasWritten(c * ChunkSectors + ChunkOffset(l))

\* Mutant: only the chunk the span starts in is asked.
FirstChunkSeq(first, count) == IF count = 0 THEN 0 ELSE last_seq[ChunkId(first)]

MaxSeqIn(first, count) ==
    LET last == SatAdd(first, count - 1)
        seqs == {last_seq[c] : c \in ChunkId(first) .. ChunkId(last)}
    IN  IF count = 0 THEN 0 ELSE CHOOSE m \in seqs : \A x \in seqs : x <= m

-----------------------------------------------------------------------------
(* Properties.                                                             *)

Entries == [seq : Nat, data : Payloads]

\* Every field holds values of its type; the spill file is spill_len long.
TypeOK ==
    /\ DOMAIN cache \subseteq Lbas /\ \A l \in DOMAIN cache : cache[l] \in Entries
    /\ DOMAIN order \subseteq Nat /\ \A s \in DOMAIN order : order[s] \in Lbas
    /\ present \subseteq written /\ written \subseteq Lbas
    /\ slab \in [ChunkIds -> Nat \cup {UNALLOCATED}]
    /\ last_seq \in [ChunkIds -> Nat]
    /\ spill_open \in BOOLEAN /\ spill_len \in Nat
    /\ DOMAIN bytes = 0 .. spill_len - 1
    /\ seq \in Nat /\ broken \in BOOLEAN /\ read_errors \in Nat
    /\ inserting \in [lba : Lbas, data : Payloads] \cup {NotInserting}
    /\ stamp \in [Lbas -> Nat]

\* The invariant the struct's comment says everything rests on: a sector
\* whose presence bit is set is in the cache, or its slot of the spill file
\* exists and holds a guest payload (never zero fill, never the remains of
\* a failed write).  The sector being inserted is about to enter the cache.
PayloadKept ==
    \A l \in present :
        \/ l \in DOMAIN cache
        \/ inserting # NotInserting /\ inserting.lba = l
        \/ Readable(l) /\ bytes[Slot(l)] \in Payloads

\* order is exactly the cache by write sequence, so evict_one never meets
\* the stale entry its first early return reports as a bug, and always
\* takes the least recently written resident sector.
OrderMatchesCache ==
    /\ \A l \in DOMAIN cache : /\ cache[l].seq \in DOMAIN order
                               /\ order[cache[l].seq] = l
    /\ \A s \in DOMAIN order : /\ order[s] \in DOMAIN cache
                               /\ cache[order[s]].seq = s

\* RAM stays within the ceiling unless a spill failure traded the bound for
\* keeping every payload (CACHE_SECTORS, evict before insert).
RamBounded == broken \/ Cardinality(DOMAIN cache) <= Capacity

\* was_written_span: "Exactly (first..first + count).any(was_written)", for
\* every span, within a chunk or across several.  The end of the range, one
\* past its last sector, saturates: the largest sector number of all is in no
\* span.
SpanExact ==
    \A first \in Lbas : \A count \in 0 .. LbaMax :
        WasWrittenSpan(first, count)
            <=> \E l \in first .. SatAdd(first, count) - 1 : WasWritten(l)

\* max_seq_in over-approximates in the safe direction: no sector of a span
\* was written later than the answer, which a caller compares with the
\* sequence of its last look.
SpanNotOlder ==
    \A first \in Lbas : \A count \in 1 .. LbaMax - first + 1 :
        \A l \in first .. first + count - 1 : stamp[l] <= MaxSeqIn(first, count)

\* What a caller sees of the store, an insert() counting from its first step.
Contents ==
    [l \in Lbas |-> IF inserting # NotInserting /\ l = inserting.lba
                    THEN inserting.data ELSE Held(l)]

Map == INSTANCE SectorMap WITH
           Sectors <- Lbas, map <- Contents, errors <- read_errors

\* The store implements a plain map: every call has the effect and the
\* answer a HashMap would give, evictions and failures are invisible.
IsAMap == Map!Spec
=============================================================================
