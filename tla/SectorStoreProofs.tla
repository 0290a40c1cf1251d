-------------------------- MODULE SectorStoreProofs -------------------------
(***************************************************************************)
(* Proofs about SectorStore: its invariants, and that it implements the    *)
(* plain map SectorMap, for every disk size, slab size, cache capacity and *)
(* set of payloads.                                                        *)
(***************************************************************************)
EXTENDS SectorStore, FiniteSetTheorems, TLAPS

\* Slabs lie inside the file and do not overlap.
SlabsApart ==
    /\ \A c \in ChunkIds :
          slab[c] # UNALLOCATED => spill_open /\ slab[c] + ChunkSectors <= spill_len
    /\ \A c, d \in ChunkIds :
          c # d /\ slab[c] # UNALLOCATED /\ slab[d] # UNALLOCATED
            => slab[c] + ChunkSectors <= slab[d] \/ slab[d] + ChunkSectors <= slab[c]

\* Sequence numbers in order were handed out before; the one of an insert
\* under way is not in it yet.
SeqFresh ==
    \A s \in DOMAIN order : s <= seq /\ (inserting # NotInserting => s < seq)

\* A resident sector has its presence bit, and so has the one being inserted.
ResidentPresent ==
    /\ DOMAIN cache \subseteq present
    /\ inserting # NotInserting => inserting.lba \in present

StoreInv ==
    /\ TypeOK /\ PayloadKept /\ OrderMatchesCache /\ RamBounded
    /\ SlabsApart /\ SeqFresh /\ ResidentPresent

-----------------------------------------------------------------------------
\* Chunk arithmetic: a sector is its chunk and its offset in it.
LEMMA ChunkLemma ==
    /\ \A l \in Lbas : ChunkId(l) \in ChunkIds /\ ChunkOffset(l) \in 0 .. ChunkSectors - 1
    /\ \A l, m \in Lbas : ChunkId(l) = ChunkId(m) /\ ChunkOffset(l) = ChunkOffset(m) => l = m
<1>1. \A l \in Nat : l % ChunkSectors \in 0 .. ChunkSectors - 1 /\ l \div ChunkSectors \in Nat
  BY StoreAssumption
<1>2. \A l, m \in Nat : l % ChunkSectors = m % ChunkSectors /\ l \div ChunkSectors = m \div ChunkSectors
                          => l = m
  BY StoreAssumption
<1>3. \A l, m \in Nat : l <= m => l \div ChunkSectors <= m \div ChunkSectors
  BY StoreAssumption
<1>4. Lbas \subseteq Nat /\ LbaMax \in Nat /\ \A l \in Lbas : l <= LbaMax
  BY StoreAssumption DEF Lbas
<1>5. \A l \in Lbas : ChunkId(l) \in ChunkIds
  BY <1>1, <1>3, <1>4 DEF ChunkId, ChunkIds
<1> QED BY <1>1, <1>2, <1>4, <1>5 DEF ChunkId, ChunkOffset

\* Taking a key out of a function.
LEMMA WithoutLemma ==
    ASSUME NEW f, NEW x
    PROVE  /\ DOMAIN Without(f, x) = DOMAIN f \ {x}
           /\ \A y \in DOMAIN f \ {x} : Without(f, x)[y] = f[y]
BY DEF Without

\* Any set of sectors is finite.
LEMMA SectorsFinite ==
    ASSUME NEW S, S \subseteq Lbas
    PROVE  /\ IsFiniteSet(S) /\ Cardinality(S) \in Nat
           /\ \A x : Cardinality(S \ {x}) <= Cardinality(S)
           /\ \A x : IF x \in S THEN S \cup {x} = S
                     ELSE Cardinality(S \cup {x}) = Cardinality(S) + 1
<1>1. IsFiniteSet(Lbas)
  BY StoreAssumption, FS_Interval DEF Lbas
<1>2. IsFiniteSet(S)
  BY <1>1, FS_Subset
<1>3. Cardinality(S) \in Nat
  BY <1>2, FS_CardinalityType
<1>4. ASSUME NEW x PROVE Cardinality(S \ {x}) <= Cardinality(S)
  <2>1. CASE x \in S
    <3>1. Cardinality(S \ {x}) = Cardinality(S) - 1
      BY <1>2, <2>1, FS_RemoveElement
    <3> QED BY <1>3, <3>1
  <2>2. CASE x \notin S
    <3>1. S \ {x} = S
      BY <2>2
    <3> QED BY <1>3, <3>1
  <2> QED BY <2>1, <2>2
<1>5. \A x : IF x \in S THEN S \cup {x} = S
             ELSE Cardinality(S \cup {x}) = Cardinality(S) + 1
  BY <1>2, FS_AddElement
<1> QED BY <1>2, <1>3, <1>4, <1>5, Zenon

-----------------------------------------------------------------------------
\* spill_sector writes the victim's own slot and no other: every sector that
\* had a slot keeps it, with its bytes.
LEMMA SpillLemma ==
    ASSUME TypeOK, SlabsApart, NEW v \in Lbas, NEW x,
           AllocateSlab(ChunkId(v)),
           bytes' = [Allocated(ChunkId(v)) EXCEPT ![Base(ChunkId(v)) + ChunkOffset(v)] = x]
    PROVE  /\ slab' \in [ChunkIds -> Nat \cup {UNALLOCATED}]
           /\ spill_open' \in BOOLEAN /\ spill_len' \in Nat
           /\ DOMAIN bytes' = 0 .. spill_len' - 1
           /\ SlabsApart'
           /\ Readable(v)' /\ bytes'[Slot(v)'] = x
           /\ \A m \in Lbas :
                 Readable(m) /\ m # v => /\ Readable(m)' /\ Slot(m)' = Slot(m)
                                         /\ bytes'[Slot(m)'] = bytes[Slot(m)]
<1> DEFINE c == ChunkId(v)
           b == Base(c)
           p == b + ChunkOffset(v)
           old == Allocated(c)
<1>1. /\ c \in ChunkIds /\ ChunkOffset(v) \in 0 .. ChunkSectors - 1
      /\ ChunkSectors \in Nat \ {0}
      /\ slab \in [ChunkIds -> Nat \cup {UNALLOCATED}] /\ spill_len \in Nat
      /\ DOMAIN bytes = 0 .. spill_len - 1
  BY ChunkLemma, StoreAssumption DEF TypeOK
<1>2. /\ b \in Nat
      /\ slab[c] = UNALLOCATED => b = spill_len
      /\ slab[c] # UNALLOCATED => b = slab[c]
  BY <1>1 DEF Base
<1>3. /\ spill_open' = TRUE
      /\ slab' = [slab EXCEPT ![c] = b]
      /\ spill_len' = IF slab[c] = UNALLOCATED THEN spill_len + ChunkSectors ELSE spill_len
  BY DEF AllocateSlab
<1>4. /\ DOMAIN old = 0 .. spill_len' - 1
      /\ \A q \in DOMAIN bytes : q \in DOMAIN old /\ old[q] = bytes[q]
  BY <1>1, <1>3 DEF Allocated, Extended
<1>5. bytes' = [old EXCEPT ![p] = x]
  OBVIOUS
<1>6. /\ \A d \in ChunkIds : slab[d] # UNALLOCATED =>
              spill_open /\ slab[d] \in Nat /\ slab[d] + ChunkSectors <= spill_len
      /\ \A d, e \in ChunkIds :
            d # e /\ slab[d] # UNALLOCATED /\ slab[e] # UNALLOCATED
              => slab[d] + ChunkSectors <= slab[e] \/ slab[e] + ChunkSectors <= slab[d]
  BY <1>1 DEF SlabsApart
<1> HIDE DEF c, b, old
<1>7. /\ slab' \in [ChunkIds -> Nat \cup {UNALLOCATED}] /\ spill_len' \in Nat
      /\ slab'[c] = b /\ b # UNALLOCATED /\ b + ChunkSectors <= spill_len'
      /\ \A d \in ChunkIds : d # c => slab'[d] = slab[d]
      /\ spill_len <= spill_len'
  BY <1>1, <1>2, <1>3, <1>6 DEF UNALLOCATED
<1>8. SlabsApart'
  <2>1. \A d \in ChunkIds :
           slab'[d] # UNALLOCATED => spill_open' /\ slab'[d] + ChunkSectors <= spill_len'
    BY <1>1, <1>3, <1>6, <1>7
  <2>2. \A d \in ChunkIds :
           d # c /\ slab[d] # UNALLOCATED
             => slab[d] + ChunkSectors <= b \/ b + ChunkSectors <= slab[d]
    BY <1>1, <1>2, <1>6
  <2>3. \A d, e \in ChunkIds :
           d # e /\ slab'[d] # UNALLOCATED /\ slab'[e] # UNALLOCATED
             => slab'[d] + ChunkSectors <= slab'[e] \/ slab'[e] + ChunkSectors <= slab'[d]
    BY <1>6, <1>7, <2>2
  <2> QED BY <2>1, <2>3 DEF SlabsApart
<1>9. p \in 0 .. spill_len' - 1
  BY <1>1, <1>2, <1>7
<1>10. DOMAIN bytes' = 0 .. spill_len' - 1 /\ bytes'[p] = x
       /\ \A q \in DOMAIN bytes : q # p => bytes'[q] = bytes[q]
  <2> HIDE DEF p
  <2> QED BY <1>4, <1>5, <1>9, Zenon
<1>11. Readable(v)' /\ Slot(v)' = p
  BY <1>3, <1>7, <1>9, <1>10 DEF Readable, Slot, c
<1>12. ASSUME NEW m \in Lbas, Readable(m), m # v
       PROVE  Readable(m)' /\ Slot(m)' = Slot(m) /\ bytes'[Slot(m)'] = bytes[Slot(m)]
  <2>1. /\ ChunkId(m) \in ChunkIds /\ ChunkOffset(m) \in 0 .. ChunkSectors - 1
        /\ ChunkId(m) = c => ChunkOffset(m) # ChunkOffset(v)
    BY <1>12, ChunkLemma DEF c
  <2>2. slab[ChunkId(m)] \in Nat /\ slab[ChunkId(m)] # UNALLOCATED /\ Slot(m) \in DOMAIN bytes
    BY <1>1, <1>12, <2>1 DEF Readable
  <2>3. slab'[ChunkId(m)] = slab[ChunkId(m)]
    BY <1>2, <1>7, <2>1, <2>2
  <2>4. Slot(m) # p
    <3>1. CASE ChunkId(m) = c
      BY <1>1, <1>2, <2>1, <2>2, <3>1 DEF Slot
    <3>2. CASE ChunkId(m) # c
      <4>1. slab[ChunkId(m)] + ChunkSectors <= b \/ b + ChunkSectors <= slab[ChunkId(m)]
        BY <1>1, <1>2, <1>6, <2>1, <2>2, <3>2
      <4> QED BY <1>1, <1>2, <2>1, <2>2, <4>1 DEF Slot
    <3> QED BY <3>1, <3>2
  <2>5. Slot(m)' = Slot(m)
    BY <2>3 DEF Slot
  <2>6. Slot(m) \in DOMAIN bytes'
    BY <1>1, <1>7, <1>10, <2>2
  <2> QED BY <1>3, <1>10, <2>2, <2>3, <2>4, <2>5, <2>6 DEF Readable
<1> QED BY <1>3, <1>7, <1>8, <1>10, <1>11, <1>12

-----------------------------------------------------------------------------
(* The invariant is inductive: one lemma per operation.                    *)

\* An empty store satisfies it.
LEMMA StoreInit == Init => StoreInv
<1> SUFFICES ASSUME Init PROVE StoreInv
  OBVIOUS
<1>1. TypeOK
  <2>1. DOMAIN bytes = 0 .. spill_len - 1
    BY DEF Init
  <2>2. slab \in [ChunkIds -> Nat \cup {UNALLOCATED}] /\ last_seq \in [ChunkIds -> Nat]
    BY DEF Init
  <2> QED BY <2>1, <2>2, Zenon DEF Init, TypeOK
<1>2. RamBounded
  <2>1. DOMAIN cache = {}
    BY DEF Init
  <2> QED BY <2>1, FS_EmptySet, StoreAssumption DEF RamBounded
<1>3. PayloadKept /\ OrderMatchesCache /\ SlabsApart /\ SeqFresh /\ ResidentPresent
  BY DEF Init, PayloadKept, OrderMatchesCache, SlabsApart, SeqFresh, ResidentPresent
<1> QED BY <1>1, <1>2, <1>3 DEF StoreInv

\* insert, before its loop.
LEMMA BeginStep ==
    ASSUME StoreInv, NEW l \in Lbas, NEW d \in Payloads, BeginInsert(l, d)
    PROVE  StoreInv'
<1>1. TypeOK /\ ChunkId(l) \in ChunkIds
  BY ChunkLemma DEF StoreInv
<1>2. TypeOK'
  <2>1. inserting' \in [lba : Lbas, data : Payloads]
    BY DEF BeginInsert
  <2>2. last_seq' \in [ChunkIds -> Nat] /\ stamp' \in [Lbas -> Nat] /\ seq' \in Nat
    BY <1>1 DEF TypeOK, BeginInsert
  <2> QED BY <1>1, <2>1, <2>2, Zenon DEF TypeOK, BeginInsert, fileVars
<1>3. inserting' # NotInserting /\ inserting'.lba = l
  BY PayloadAssumption DEF BeginInsert, Lbas
<1>4. PayloadKept'
  BY <1>3 DEF StoreInv, PayloadKept, BeginInsert, fileVars, Readable, Slot
<1>5. OrderMatchesCache' /\ RamBounded' /\ SlabsApart'
  BY DEF StoreInv, BeginInsert, fileVars, OrderMatchesCache, RamBounded, SlabsApart
<1>6. SeqFresh'
  BY <1>1 DEF StoreInv, TypeOK, SeqFresh, BeginInsert
<1>7. ResidentPresent'
  BY <1>3 DEF StoreInv, ResidentPresent, BeginInsert
<1> QED BY <1>2, <1>4, <1>5, <1>6, <1>7 DEF StoreInv

\* One iteration of the eviction loop that succeeds.
LEMMA EvictStep ==
    ASSUME StoreInv, NEW s \in DOMAIN order, EvictOne(s)
    PROVE  StoreInv'
<1> PICK v \in Lbas : v = order[s]
  BY DEF StoreInv, TypeOK
<1> PICK x \in Payloads : x = cache[v].data
  BY DEF StoreInv, OrderMatchesCache, TypeOK, Entries
<1>1. TypeOK /\ SlabsApart /\ v \in DOMAIN cache /\ cache[v].seq = s
  BY DEF StoreInv, OrderMatchesCache
<1>2. /\ AllocateSlab(ChunkId(v))
      /\ bytes' = [Allocated(ChunkId(v)) EXCEPT ![Base(ChunkId(v)) + ChunkOffset(v)] = x]
      /\ cache' = Without(cache, v) /\ order' = Without(order, s)
      /\ UNCHANGED <<present, written, last_seq, seq, broken, read_errors, inserting, call, stamp>>
  BY <1>1 DEF EvictOne
<1>3. /\ slab' \in [ChunkIds -> Nat \cup {UNALLOCATED}]
      /\ spill_open' \in BOOLEAN /\ spill_len' \in Nat
      /\ DOMAIN bytes' = 0 .. spill_len' - 1
      /\ SlabsApart'
      /\ Readable(v)' /\ bytes'[Slot(v)'] = x
      /\ \A m \in Lbas :
            Readable(m) /\ m # v => /\ Readable(m)' /\ Slot(m)' = Slot(m)
                                    /\ bytes'[Slot(m)'] = bytes[Slot(m)]
  BY <1>1, <1>2, SpillLemma, Zenon
<1>4. /\ DOMAIN cache' = DOMAIN cache \ {v}
      /\ \A l \in DOMAIN cache' : cache'[l] = cache[l]
      /\ DOMAIN order' = DOMAIN order \ {s}
      /\ \A t \in DOMAIN order' : order'[t] = order[t]
  <2>1. cache' = Without(cache, v) /\ order' = Without(order, s)
    BY <1>2
  <2>2. DOMAIN cache' = DOMAIN cache \ {v} /\ \A l \in DOMAIN cache' : cache'[l] = cache[l]
    <3>1. /\ DOMAIN Without(cache, v) = DOMAIN cache \ {v}
          /\ \A l \in DOMAIN cache \ {v} : Without(cache, v)[l] = cache[l]
      BY WithoutLemma, Zenon
    <3> QED BY <2>1, <3>1, Zenon
  <2>3. DOMAIN order' = DOMAIN order \ {s} /\ \A t \in DOMAIN order' : order'[t] = order[t]
    <3>1. /\ DOMAIN Without(order, s) = DOMAIN order \ {s}
          /\ \A t \in DOMAIN order \ {s} : Without(order, s)[t] = order[t]
      BY WithoutLemma, Zenon
    <3> QED BY <2>1, <3>1, Zenon
  <2> QED BY <2>2, <2>3
<1>5. TypeOK'
  BY <1>1, <1>2, <1>3, <1>4, Zenon DEF TypeOK
<1>6. PayloadKept'
  <2>1. \A l \in present : \/ l \in DOMAIN cache
                           \/ inserting # NotInserting /\ inserting.lba = l
                           \/ Readable(l) /\ bytes[Slot(l)] \in Payloads
    BY DEF StoreInv, PayloadKept
  <2>2. present \subseteq Lbas
    BY <1>1 DEF TypeOK
  <2> SUFFICES ASSUME NEW l \in present
               PROVE  \/ l \in DOMAIN cache'
                      \/ inserting # NotInserting /\ inserting.lba = l
                      \/ Readable(l)' /\ bytes'[Slot(l)'] \in Payloads
    BY <1>2, Zenon DEF PayloadKept
  <2>3. CASE l = v
    BY <1>1, <1>3, <2>3, Zenon
  <2>4. CASE l # v
    BY <1>3, <1>4, <2>1, <2>2, <2>4
  <2> QED BY <2>3, <2>4
<1>7. OrderMatchesCache'
  BY <1>1, <1>4 DEF StoreInv, OrderMatchesCache
<1>8. RamBounded'
  <2>1. DOMAIN cache \subseteq Lbas
    BY <1>1 DEF TypeOK
  <2>2. /\ Cardinality(DOMAIN cache') <= Cardinality(DOMAIN cache)
        /\ Cardinality(DOMAIN cache) \in Nat
    BY <1>4, <2>1, SectorsFinite, Zenon
  <2>3. Cardinality(DOMAIN cache') \in Nat
    BY <1>5, SectorsFinite DEF TypeOK
  <2> QED BY <1>2, <2>2, <2>3, StoreAssumption DEF StoreInv, RamBounded
<1>9. SeqFresh' /\ ResidentPresent'
  BY <1>2, <1>4 DEF StoreInv, SeqFresh, ResidentPresent
<1> QED BY <1>3, <1>5, <1>6, <1>7, <1>8, <1>9 DEF StoreInv

\* One that fails: whatever happened to the file, the victim stays in RAM.
LEMMA EvictFailsStep ==
    ASSUME StoreInv, NEW s \in DOMAIN order, EvictFails(s)
    PROVE  StoreInv'
<1> PICK v \in Lbas : v = order[s]
  BY DEF StoreInv, TypeOK
<1>1. TypeOK /\ SlabsApart /\ v \in DOMAIN cache
  BY DEF StoreInv, EvictFails
<1>2. /\ UNCHANGED <<cache, order, present, written, last_seq, seq, read_errors, inserting,
                     call, stamp>>
      /\ broken' = TRUE
  BY DEF EvictFails
<1> DEFINE Slots == /\ slab' \in [ChunkIds -> Nat \cup {UNALLOCATED}]
                    /\ spill_open' \in BOOLEAN /\ spill_len' \in Nat
                    /\ DOMAIN bytes' = 0 .. spill_len' - 1
                    /\ SlabsApart'
                    /\ \A m \in Lbas :
                          Readable(m) /\ m # v => /\ Readable(m)' /\ Slot(m)' = Slot(m)
                                                  /\ bytes'[Slot(m)'] = bytes[Slot(m)]
<1>3. Slots
  <2>1. CASE UNCHANGED fileVars
    BY <1>1, <2>1, Zenon DEF TypeOK, fileVars, SlabsApart, Readable, Slot
  <2>2. CASE spill_open' = TRUE /\ UNCHANGED <<slab, spill_len, bytes>>
    BY <1>1, <2>2 DEF TypeOK, SlabsApart, Readable, Slot
  <2>3. CASE /\ AllocateSlab(ChunkId(v))
             /\ bytes' = [Allocated(ChunkId(v)) EXCEPT ![Base(ChunkId(v)) + ChunkOffset(v)] = Torn]
    BY <1>1, <2>3, SpillLemma, Zenon
  <2> QED BY <2>1, <2>2, <2>3, Zenon DEF EvictFails
<1>4. TypeOK'
  BY <1>1, <1>2, <1>3, Zenon DEF TypeOK
<1>5. PayloadKept'
  <2>1. present \subseteq Lbas
    BY <1>1 DEF TypeOK
  <2> QED BY <1>1, <1>2, <1>3, <2>1 DEF StoreInv, PayloadKept
<1>6. OrderMatchesCache' /\ RamBounded' /\ SeqFresh' /\ ResidentPresent'
  BY <1>2 DEF StoreInv, OrderMatchesCache, RamBounded, SeqFresh, ResidentPresent
<1> QED BY <1>3, <1>4, <1>5, <1>6, Zenon DEF StoreInv

\* insert, after its loop.
LEMMA FinishStep ==
    ASSUME StoreInv, FinishInsert
    PROVE  StoreInv'
<1> DEFINE rec == [lba : Lbas, data : Payloads]
<1>1. inserting \in rec /\ inserting # NotInserting
  BY DEF FinishInsert, StoreInv, TypeOK
<1> PICK l \in Lbas : l = inserting.lba
  BY <1>1
<1> PICK d \in Payloads : d = inserting.data
  BY <1>1
<1> DEFINE e == [seq |-> seq, data |-> d]
           old == IF l \in DOMAIN cache THEN Without(order, cache[l].seq) ELSE order
<1>2. /\ TypeOK /\ OrderMatchesCache /\ SeqFresh /\ ResidentPresent
      /\ seq \in Nat /\ e \in Entries /\ e.seq = seq
      /\ \A s \in DOMAIN order : s \in Nat /\ s < seq
  BY <1>1, Zenon DEF StoreInv, TypeOK, SeqFresh, Entries
<1>3. /\ cache' = With(cache, l, e) /\ order' = With(old, seq, l)
      /\ inserting' = NotInserting
      /\ UNCHANGED <<present, written, fileVars, last_seq, seq, broken, read_errors, call, stamp>>
  BY DEF FinishInsert
<1>4. /\ DOMAIN old = {s \in DOMAIN order : order[s] # l}
      /\ \A s \in DOMAIN old : old[s] = order[s]
  <2>1. CASE l \in DOMAIN cache
    <3>1. \A s \in DOMAIN order : order[s] = l <=> s = cache[l].seq
      BY <1>2, <2>1 DEF OrderMatchesCache
    <3> QED BY <2>1, <3>1 DEF Without
  <2>2. CASE l \notin DOMAIN cache
    BY <1>2, <2>2, Zenon DEF OrderMatchesCache
  <2> QED BY <2>1, <2>2
<1> HIDE DEF e, old
<1>5. /\ DOMAIN cache' = DOMAIN cache \cup {l} /\ cache'[l] = e
      /\ \A m \in DOMAIN cache : m # l => cache'[m] = cache[m]
  BY <1>3 DEF With
<1>6. /\ DOMAIN order' = DOMAIN old \cup {seq} /\ order'[seq] = l
      /\ \A s \in DOMAIN old : s # seq => order'[s] = old[s]
  BY <1>3 DEF With
<1>7. /\ DOMAIN order' = {s \in DOMAIN order : order[s] # l} \cup {seq}
      /\ \A s \in DOMAIN order : order[s] # l => order'[s] = order[s]
  BY <1>2, <1>4, <1>6
<1>8. TypeOK'
  BY <1>2, <1>3, <1>5, <1>6, <1>7 DEF TypeOK, fileVars
<1>9. PayloadKept'
  BY <1>3, <1>5 DEF StoreInv, PayloadKept, fileVars, Readable, Slot
<1>10. OrderMatchesCache'
  <2>1. cache'[l].seq = seq
    BY <1>2, <1>5
  <2>2. \A m \in DOMAIN cache' : cache'[m].seq \in DOMAIN order' /\ order'[cache'[m].seq] = m
    <3> SUFFICES ASSUME NEW m \in DOMAIN cache'
                 PROVE  cache'[m].seq \in DOMAIN order' /\ order'[cache'[m].seq] = m
      OBVIOUS
    <3>1. CASE m = l
      BY <2>1, <3>1, <1>6
    <3>2. CASE m # l
      <4>1. m \in DOMAIN cache /\ cache'[m] = cache[m]
        BY <1>5, <3>2
      <4>2. cache[m].seq \in DOMAIN order /\ order[cache[m].seq] = m
        BY <1>2, <4>1 DEF OrderMatchesCache
      <4> QED BY <1>7, <3>2, <4>1, <4>2
    <3> QED BY <3>1, <3>2
  <2>3. \A s \in DOMAIN order' : order'[s] \in DOMAIN cache' /\ cache'[order'[s]].seq = s
    <3> SUFFICES ASSUME NEW s \in DOMAIN order'
                 PROVE  order'[s] \in DOMAIN cache' /\ cache'[order'[s]].seq = s
      OBVIOUS
    <3>1. CASE s = seq
      BY <2>1, <3>1, <1>5, <1>6, Zenon
    <3>2. CASE s # seq
      <4>1. s \in DOMAIN order /\ order[s] # l /\ order'[s] = order[s]
        BY <1>7, <3>2
      <4>2. order[s] \in DOMAIN cache /\ cache[order[s]].seq = s
        BY <1>2, <4>1 DEF OrderMatchesCache
      <4> QED BY <1>5, <4>1, <4>2
    <3> QED BY <3>1, <3>2
  <2> QED BY <2>2, <2>3, Zenon DEF OrderMatchesCache
<1>11. RamBounded'
  <2>1. DOMAIN cache \subseteq Lbas
    BY <1>2 DEF TypeOK
  <2>2. CASE l \in DOMAIN cache
    <3>1. DOMAIN cache' = DOMAIN cache
      BY <1>5, <2>2, Zenon
    <3> QED BY <1>3, <3>1 DEF StoreInv, RamBounded
  <2>3. CASE l \notin DOMAIN cache
    <3>1. broken \/ Cardinality(DOMAIN cache) < Capacity
      <4>1. Cardinality(DOMAIN cache) \in Nat
        BY <2>1, SectorsFinite
      <4>2. DOMAIN order = {} => Cardinality(DOMAIN cache) = 0
        <5>1. DOMAIN order = {} => DOMAIN cache = {}
          BY <1>2, Zenon DEF OrderMatchesCache
        <5> QED BY <5>1, FS_EmptySet
      <4>3. ~MustEvict
        BY DEF FinishInsert
      <4>4. broken \/ ~(Cardinality(DOMAIN cache) >= Capacity) \/ DOMAIN order = {}
        BY <1>1, <2>3, <4>3, Zenon DEF MustEvict
      <4> QED BY <4>1, <4>2, <4>4, StoreAssumption
    <3>2. Cardinality(DOMAIN cache') = Cardinality(DOMAIN cache) + 1
          /\ Cardinality(DOMAIN cache) \in Nat
      BY <1>5, <2>1, <2>3, SectorsFinite
    <3> QED BY <1>3, <3>1, <3>2, StoreAssumption DEF RamBounded
  <2> QED BY <2>2, <2>3
<1>12. SeqFresh'
  BY <1>2, <1>3, <1>7 DEF SeqFresh
<1>13. SlabsApart'
  BY <1>3 DEF StoreInv, SlabsApart, fileVars
<1>14. ResidentPresent'
  BY <1>1, <1>2, <1>3, <1>5 DEF ResidentPresent
<1> QED BY <1>8, <1>9, <1>10, <1>11, <1>12, <1>13, <1>14 DEF StoreInv

\* acknowledge.
LEMMA AcknowledgeStep ==
    ASSUME StoreInv, NEW l \in Lbas, Acknowledge(l)
    PROVE  StoreInv'
<1>1. /\ TypeOK /\ OrderMatchesCache /\ SeqFresh /\ ResidentPresent
      /\ inserting = NotInserting
  BY DEF StoreInv, Acknowledge
<1>2. /\ cache' = Without(cache, l)
      /\ order' = IF l \in DOMAIN cache THEN Without(order, cache[l].seq) ELSE order
      /\ present' = present \ {l}
      /\ UNCHANGED <<written, fileVars, last_seq, seq, broken, read_errors, inserting, stamp>>
  BY DEF Acknowledge
<1>3. /\ DOMAIN cache' = DOMAIN cache \ {l}
      /\ \A m \in DOMAIN cache' : cache'[m] = cache[m]
  BY <1>2, WithoutLemma, Zenon
<1>4. /\ DOMAIN order' = {s \in DOMAIN order : order[s] # l}
      /\ \A s \in DOMAIN order' : order'[s] = order[s]
  <2>1. CASE l \in DOMAIN cache
    <3>1. \A s \in DOMAIN order : order[s] = l <=> s = cache[l].seq
      BY <1>1, <2>1, Zenon DEF OrderMatchesCache
    <3> QED BY <1>2, <2>1, <3>1 DEF Without
  <2>2. CASE l \notin DOMAIN cache
    BY <1>1, <1>2, <2>2, Zenon DEF OrderMatchesCache
  <2> QED BY <2>1, <2>2
<1>5. TypeOK'
  BY <1>1, <1>2, <1>3, <1>4, Zenon DEF TypeOK, fileVars
<1>6. PayloadKept'
  BY <1>1, <1>2, <1>3, Zenon DEF StoreInv, PayloadKept, fileVars, Readable, Slot
<1>7. OrderMatchesCache'
  BY <1>1, <1>3, <1>4 DEF OrderMatchesCache
<1>8. RamBounded'
  <2>1. DOMAIN cache \subseteq Lbas /\ DOMAIN cache' \subseteq Lbas
    BY <1>1, <1>3 DEF TypeOK
  <2>2. /\ Cardinality(DOMAIN cache') <= Cardinality(DOMAIN cache)
        /\ Cardinality(DOMAIN cache) \in Nat /\ Cardinality(DOMAIN cache') \in Nat
    BY <1>3, <2>1, SectorsFinite, Zenon
  <2> QED BY <1>2, <2>2, StoreAssumption DEF StoreInv, RamBounded
<1>9. SeqFresh' /\ ResidentPresent' /\ SlabsApart'
  BY <1>1, <1>2, <1>3, <1>4 DEF StoreInv, SeqFresh, ResidentPresent, SlabsApart, fileVars
<1> QED BY <1>5, <1>6, <1>7, <1>8, <1>9, Zenon DEF StoreInv

\* get, and a stuttering step, change nothing the invariant is about.
LEMMA ReadStep ==
    ASSUME StoreInv,
           UNCHANGED <<cache, order, present, written, fileVars, last_seq, seq, broken,
                       inserting, stamp>>,
           read_errors' \in Nat
    PROVE  StoreInv'
<1>1. TypeOK'
  BY Zenon DEF StoreInv, TypeOK, fileVars
<1>2. PayloadKept'
  BY Zenon DEF StoreInv, PayloadKept, fileVars, Readable, Slot
<1>3. OrderMatchesCache' /\ RamBounded' /\ SlabsApart' /\ SeqFresh' /\ ResidentPresent'
  BY DEF StoreInv, OrderMatchesCache, RamBounded, SlabsApart, SeqFresh, ResidentPresent, fileVars
<1> QED BY <1>1, <1>2, <1>3, Zenon DEF StoreInv

\* Every step preserves the invariant.
LEMMA StoreStep == StoreInv /\ [Next]_vars => StoreInv'
<1> SUFFICES ASSUME StoreInv, [Next]_vars PROVE StoreInv'
  BY Zenon
<1>1. read_errors \in Nat
  BY DEF StoreInv, TypeOK
<1>2. CASE UNCHANGED vars
  BY <1>1, <1>2, ReadStep, Zenon DEF vars, fileVars
<1>3. ASSUME NEW l \in Lbas, Get(l) \/ GetFails(l) PROVE StoreInv'
  BY <1>1, <1>3, ReadStep DEF Get, GetFails
<1> QED
  BY <1>2, <1>3, BeginStep, EvictStep, EvictFailsStep, FinishStep, AcknowledgeStep DEF Next

\* The invariant holds throughout.
LEMMA StoreInvariance == Spec => []StoreInv
BY StoreInit, StoreStep, PTL DEF Spec

\* Every field of the store stays well formed, whatever the file system does.
THEOREM StoreTypeCorrect == Spec => []TypeOK
BY StoreInvariance, PTL DEF StoreInv

\* The invariant of the struct's comment: a present sector is in RAM or its
\* slot of the spill file holds a guest payload (insert, evict_one and
\* spill_sector, with every failure of the file system).
THEOREM NoPayloadLost == Spec => []PayloadKept
BY StoreInvariance, PTL DEF StoreInv

\* The eviction order and the cache never disagree (evict_one's first early
\* return is dead code).
THEOREM OrderIsCache == Spec => []OrderMatchesCache
BY StoreInvariance, PTL DEF StoreInv

\* RAM stays within the capacity until a spill fails (insert evicts first).
THEOREM RamIsBounded == Spec => []RamBounded
BY StoreInvariance, PTL DEF StoreInv

-----------------------------------------------------------------------------
(* The store implements the map.                                           *)

\* A step of the eviction loop leaves what the caller sees alone.
LEMMA EvictInvisible ==
    ASSUME StoreInv, NEW s \in DOMAIN order, EvictOne(s) \/ EvictFails(s)
    PROVE  UNCHANGED <<Contents, written, call, read_errors>>
<1> PICK v \in Lbas : v = order[s]
  BY Zenon DEF StoreInv, TypeOK
<1> PICK x \in Payloads : x = cache[v].data
  BY Zenon DEF StoreInv, OrderMatchesCache, TypeOK, Entries
<1>1. TypeOK /\ SlabsApart /\ v \in DOMAIN cache /\ v \in present
  BY DEF StoreInv, OrderMatchesCache, ResidentPresent
<1>2. \A m \in present : m \in DOMAIN cache \/ (inserting # NotInserting /\ inserting.lba = m) \/ Readable(m)
  BY Zenon DEF StoreInv, PayloadKept
<1>3. UNCHANGED <<present, inserting, written, call, read_errors>>
  BY Zenon DEF EvictOne, EvictFails
<1> DEFINE Kept == \A m \in Lbas :
                      Readable(m) /\ m # v => /\ Readable(m)' /\ Slot(m)' = Slot(m)
                                              /\ bytes'[Slot(m)'] = bytes[Slot(m)]
<1>4. SUFFICES \A m \in Lbas : (inserting # NotInserting /\ inserting.lba = m) \/ Held(m)' = Held(m)
  BY <1>3, Zenon DEF Contents
<1>5. CASE EvictOne(s)
  <2>1. /\ AllocateSlab(ChunkId(v))
        /\ bytes' = [Allocated(ChunkId(v)) EXCEPT ![Base(ChunkId(v)) + ChunkOffset(v)] = x]
        /\ cache' = Without(cache, v)
    BY <1>1, <1>5 DEF EvictOne
  <2>2. Kept /\ bytes'[Slot(v)'] = x
    BY <1>1, <2>1, SpillLemma, Zenon
  <2>3. DOMAIN cache' = DOMAIN cache \ {v} /\ \A m \in DOMAIN cache' : cache'[m] = cache[m]
    <3>1. /\ DOMAIN Without(cache, v) = DOMAIN cache \ {v}
          /\ \A m \in DOMAIN cache \ {v} : Without(cache, v)[m] = cache[m]
      BY WithoutLemma, Zenon
    <3> QED BY <2>1, <3>1, Zenon
  <2> SUFFICES ASSUME NEW m \in Lbas, ~(inserting # NotInserting /\ inserting.lba = m)
               PROVE  Held(m)' = Held(m)
    BY Zenon
  <2>4. CASE m = v
    <3>1. Held(v)' = bytes'[Slot(v)']
      BY <1>1, <1>3, <2>3 DEF Held
    <3>2. Held(v) = x
      BY <1>1 DEF Held
    <3> QED BY <2>2, <2>4, <3>1, <3>2, Zenon
  <2>5. CASE m # v
    BY <1>2, <1>3, <2>2, <2>3, <2>5 DEF Held
  <2> QED BY <2>4, <2>5, Zenon
<1>6. CASE EvictFails(s)
  <2>1. Kept
    <3>1. CASE UNCHANGED fileVars
      BY <3>1 DEF fileVars, Readable, Slot
    <3>2. CASE spill_open' = TRUE /\ UNCHANGED <<slab, spill_len, bytes>>
      <4>1. spill_open' /\ slab' = slab /\ bytes' = bytes
        BY <3>2, Zenon
      <4>2. \A m \in Lbas : Slot(m)' = Slot(m)
        BY <4>1, Zenon DEF Slot
      <4> QED BY <4>1, <4>2, Zenon DEF Readable
    <3>3. CASE /\ AllocateSlab(ChunkId(v))
               /\ bytes' = [Allocated(ChunkId(v)) EXCEPT ![Base(ChunkId(v)) + ChunkOffset(v)] = Torn]
      BY <1>1, <3>3, SpillLemma, Zenon
    <3>4. \/ UNCHANGED fileVars
          \/ spill_open' = TRUE /\ UNCHANGED <<slab, spill_len, bytes>>
          \/ /\ AllocateSlab(ChunkId(v))
             /\ bytes' = [Allocated(ChunkId(v)) EXCEPT ![Base(ChunkId(v)) + ChunkOffset(v)] = Torn]
      BY <1>6, Zenon DEF EvictFails
    <3> HIDE DEF Kept
    <3> QED BY <3>1, <3>2, <3>3, <3>4, Zenon
  <2>2. UNCHANGED cache
    BY <1>6, Zenon DEF EvictFails
  <2> HIDE DEF Kept
  <2> SUFFICES ASSUME NEW m \in Lbas, ~(inserting # NotInserting /\ inserting.lba = m)
               PROVE  Held(m)' = Held(m)
    OBVIOUS
  <2>3. CASE m \in DOMAIN cache \/ m \notin present
    BY <1>3, <2>2, <2>3, Zenon DEF Held
  <2>4. CASE m \notin DOMAIN cache /\ m \in present
    <3>1. Readable(m) /\ m # v
      BY <1>1, <1>2, <2>4, Zenon
    <3>2. bytes'[Slot(m)'] = bytes[Slot(m)]
      BY <2>1, <3>1, Zenon DEF Kept
    <3> QED BY <1>3, <2>2, <2>4, <3>2, Zenon DEF Held
  <2> QED BY <2>3, <2>4, Zenon
<1> QED BY <1>5, <1>6, Zenon

\* Every step is a step of the map or invisible.
LEMMA MapStep == StoreInv /\ [Next]_vars => [Map!Next]_(Map!mapVars)
<1> SUFFICES ASSUME StoreInv, [Next]_vars PROVE Map!Next \/ UNCHANGED Map!mapVars
  OBVIOUS
<1>1. inserting = NotInserting => Contents = [m \in Lbas |-> Held(m)]
  BY DEF Contents
<1>2. ASSUME NEW l \in Lbas, NEW d \in Payloads, BeginInsert(l, d) PROVE Map!Next
  <2>1. inserting = NotInserting /\ inserting' # NotInserting /\ inserting'.lba = l /\ inserting'.data = d
    BY <1>2, PayloadAssumption DEF BeginInsert, Lbas
  <2>2. \A m \in Lbas : m # l => Held(m)' = Held(m)
    BY <1>2 DEF BeginInsert, Held, fileVars, Slot
  <2>3. Contents' = [Contents EXCEPT ![l] = d]
    BY <2>1, <2>2, Zenon DEF Contents
  <2>4. Map!Insert(l, d)
    BY <1>2, <2>3 DEF BeginInsert, Map!Insert
  <2> QED BY <2>4 DEF Map!Next
<1>3. ASSUME NEW s \in DOMAIN order, EvictOne(s) \/ EvictFails(s) PROVE UNCHANGED Map!mapVars
  BY <1>3, EvictInvisible, Zenon DEF Map!mapVars
<1>4. CASE FinishInsert
  <2>1. inserting \in [lba : Lbas, data : Payloads] /\ inserting # NotInserting
    BY <1>4 DEF FinishInsert, StoreInv, TypeOK
  <2>2. /\ inserting' = NotInserting
        /\ DOMAIN cache' = DOMAIN cache \cup {inserting.lba}
        /\ cache'[inserting.lba].data = inserting.data
        /\ \A m \in DOMAIN cache : m # inserting.lba => cache'[m] = cache[m]
    BY <1>4, Zenon DEF FinishInsert, With
  <2>3. \A m \in Lbas : Held(m)' = IF m = inserting.lba THEN inserting.data ELSE Held(m)
    BY <1>4, <2>2, Zenon DEF FinishInsert, Held, fileVars, Slot
  <2>4. UNCHANGED Contents
    BY <2>1, <2>2, <2>3 DEF Contents
  <2> QED BY <1>4, <2>4, Zenon DEF FinishInsert, Map!mapVars
<1>5. ASSUME NEW l \in Lbas, Acknowledge(l) PROVE Map!Next
  <2>1. inserting = NotInserting /\ inserting' = NotInserting
    BY <1>5 DEF Acknowledge
  <2>2. DOMAIN cache' = DOMAIN cache \ {l} /\ \A m \in DOMAIN cache' : cache'[m] = cache[m]
    BY <1>5, Zenon DEF Acknowledge, Without
  <2>3. \A m \in Lbas : Held(m)' = IF m = l THEN NoPayload ELSE Held(m)
    <3>1. /\ present' = present \ {l} /\ UNCHANGED <<slab, bytes>>
      BY <1>5, Zenon DEF Acknowledge, fileVars
    <3> QED BY <2>2, <3>1, Zenon DEF Held, Slot
  <2>4. Contents' = [Contents EXCEPT ![l] = NoPayload]
    BY <2>1, <2>3, Zenon DEF Contents
  <2>5. Map!Acknowledge(l)
    BY <1>5, <2>4, Zenon DEF Acknowledge, Map!Acknowledge
  <2> QED BY <2>5 DEF Map!Next
<1>6. ASSUME UNCHANGED <<cache, present, fileVars, inserting>>
      PROVE  UNCHANGED Contents
  BY <1>6 DEF Contents, Held, fileVars, Slot
<1>7. ASSUME NEW l \in Lbas, Get(l) PROVE Map!Next
  <2>1. UNCHANGED Contents /\ Contents[l] = Held(l)
    BY <1>1, <1>6, <1>7, Zenon DEF Get
  <2>2. Map!Get(l)
    BY <1>7, <2>1 DEF Get, Map!Get
  <2> QED BY <2>2 DEF Map!Next
<1>8. ASSUME NEW l \in Lbas, GetFails(l) PROVE Map!Next
  <2>1. UNCHANGED Contents /\ Contents[l] = Held(l)
    BY <1>1, <1>6, <1>8, Zenon DEF GetFails
  <2>2. Held(l) # NoPayload
    BY <1>8, PayloadAssumption, Zenon DEF GetFails, Held, StoreInv, PayloadKept
  <2>3. Map!GetFails(l)
    BY <1>8, <2>1, <2>2, Zenon DEF GetFails, Map!GetFails
  <2> QED BY <2>3 DEF Map!Next
<1>9. CASE UNCHANGED vars
  BY <1>6, <1>9 DEF vars, fileVars, Map!mapVars
<1> QED BY <1>2, <1>3, <1>4, <1>5, <1>7, <1>8, <1>9 DEF Next

\* The store is a plain map to its caller: get returns what insert stored
\* last, also after any number of evictions and spill failures, and an error
\* only for a sector that has a payload (the contract in the module comment
\* of katea_store.rs).
THEOREM StoreImplementsMap == Spec => IsAMap
<1>1. Init => Map!Init
  <2> SUFFICES ASSUME Init PROVE Map!Init
    OBVIOUS
  <2>1. \A l \in Lbas : Held(l) = NoPayload
    BY DEF Init, Held
  <2>2. Contents = [l \in Lbas |-> NoPayload]
    BY <2>1 DEF Init, Contents
  <2> QED BY <2>2 DEF Init, Map!Init
<1> QED BY <1>1, MapStep, StoreInvariance, PTL DEF Spec, IsAMap, Map!Spec

-----------------------------------------------------------------------------
(* The span query.                                                         *)

\* Division by the slab size: sector l is in chunk c exactly when it lies
\* between the chunk's first sector and the next chunk's.
LEMMA ChunkRange ==
    ASSUME NEW l \in Nat
    PROVE  /\ ChunkId(l) \in Nat /\ ChunkOffset(l) \in Nat
           /\ ChunkId(l) * ChunkSectors \in Nat
           /\ ChunkId(l) * ChunkSectors <= l
           /\ l < (ChunkId(l) + 1) * ChunkSectors
           /\ ChunkId(l) * ChunkSectors + ChunkOffset(l) = l
<1>1. ChunkSectors \in Nat \ {0}
  BY StoreAssumption
<1>2. /\ l \div ChunkSectors \in Nat /\ l % ChunkSectors \in 0 .. ChunkSectors - 1
      /\ l = ChunkSectors * (l \div ChunkSectors) + (l % ChunkSectors)
  BY <1>1
<1> DEFINE q == l \div ChunkSectors
<1>3. ASSUME NEW k \in Nat, NEW c \in Nat
      PROVE  k * c \in Nat /\ k * c = c * k /\ (c + 1) * k = c * k + k
  OBVIOUS
<1>4. q * ChunkSectors \in Nat /\ q * ChunkSectors = ChunkSectors * q
      /\ (q + 1) * ChunkSectors = q * ChunkSectors + ChunkSectors
  BY <1>1, <1>2, <1>3
<1> HIDE DEF q
<1>5. /\ q \in Nat /\ l % ChunkSectors \in 0 .. ChunkSectors - 1
      /\ l = ChunkSectors * q + (l % ChunkSectors)
  BY <1>2 DEF q
<1> DEFINE r == l % ChunkSectors
<1>6. r \in 0 .. ChunkSectors - 1 /\ l = ChunkSectors * q + r
  BY <1>5
<1> HIDE DEF r
<1>7. /\ r \in Nat /\ q * ChunkSectors <= l /\ l < (q + 1) * ChunkSectors
      /\ q * ChunkSectors + r = l
  BY <1>1, <1>4, <1>6
<1> QED BY <1>4, <1>5, <1>7 DEF q, r, ChunkId, ChunkOffset

\* Multiples of the slab size grow with the chunk.
LEMMA ChunkOrder ==
    ASSUME NEW c \in Nat, NEW d \in Nat
    PROVE  /\ c * ChunkSectors \in Nat /\ c <= c * ChunkSectors
           /\ (c + 1) * ChunkSectors = c * ChunkSectors + ChunkSectors
           /\ c <= d => c * ChunkSectors <= d * ChunkSectors
           /\ c * ChunkSectors < (d + 1) * ChunkSectors => c <= d
<1>1. ChunkSectors \in Nat \ {0}
  BY StoreAssumption
<1>2. ASSUME NEW k \in Nat \ {0}, NEW a \in Nat, NEW b \in Nat
      PROVE  /\ a * k \in Nat /\ a <= a * k /\ (a + 1) * k = a * k + k
             /\ a <= b => a * k <= b * k
  OBVIOUS
<1>3. ~(c <= d) => (d + 1) * ChunkSectors <= c * ChunkSectors
  <2>1. ~(c <= d) => d + 1 <= c /\ d + 1 \in Nat
    OBVIOUS
  <2> QED BY <1>1, <1>2, <2>1
<1>4. /\ c * ChunkSectors \in Nat /\ (d + 1) * ChunkSectors \in Nat
  BY <1>1, <1>2
<1> QED BY <1>1, <1>2, <1>3, <1>4

\* A sector between the ends of chunk c is looked up in c by its own number.
LEMMA ChunkUnique ==
    ASSUME NEW l \in Nat, NEW c \in Nat,
           c * ChunkSectors <= l, l < (c + 1) * ChunkSectors
    PROVE  ChunkId(l) = c /\ c * ChunkSectors + ChunkOffset(l) = l
<1> DEFINE q == ChunkId(l)
<1>1. /\ q \in Nat /\ q * ChunkSectors <= l /\ l < (q + 1) * ChunkSectors
      /\ q * ChunkSectors + ChunkOffset(l) = l /\ q * ChunkSectors \in Nat
  BY ChunkRange, Zenon
<1> HIDE DEF q
<1>2. /\ c * ChunkSectors \in Nat /\ (c + 1) * ChunkSectors \in Nat
      /\ (q + 1) * ChunkSectors \in Nat
  BY <1>1, ChunkOrder
<1>3. c * ChunkSectors < (q + 1) * ChunkSectors /\ q * ChunkSectors < (c + 1) * ChunkSectors
  BY <1>1, <1>2
<1>4. c <= q /\ q <= c
  BY <1>1, <1>3, ChunkOrder
<1>5. c = q
  BY <1>1, <1>4
<1> QED BY <1>1, <1>5, Zenon DEF q

\* was_written_span answers exactly whether a sector of the span was written,
\* in any state of the written map.
LEMMA SpanLemma ==
    ASSUME NEW first \in Lbas, NEW count \in 0 .. LbaMax
    PROVE  WasWrittenSpan(first, count)
               <=> \E l \in first .. SatAdd(first, count) - 1 : WasWritten(l)
<1> USE DEF Smaller
<1>1. first \in Nat /\ first <= LbaMax /\ count \in Nat /\ LbaMax \in Nat
  BY StoreAssumption DEF Lbas
<1>2. CASE count = 0
  <2>1. first .. SatAdd(first, count) - 1 = {}
    BY <1>1, <1>2 DEF SatAdd
  <2> QED BY <1>2, <2>1 DEF WasWrittenSpan
<1>3. CASE count # 0
  <2> DEFINE last == SatAdd(first, count - 1)
             e == SatAdd(last, 1)
             End(c) == Smaller(SatMul(SatAdd(c, 1), ChunkSectors), SatAdd(last, 1))
             Start(c) == IF c = ChunkId(first) THEN first ELSE End(c - 1)
             lo == ChunkId(first)
             hi == ChunkId(last)
  <2>1. /\ last \in Nat /\ first <= last /\ last <= LbaMax
        /\ e \in Nat /\ e <= LbaMax /\ e <= last + 1 /\ last <= e
        /\ e = SatAdd(first, count)
    BY <1>1, <1>3 DEF SatAdd
  <2>2. /\ lo \in Nat /\ hi \in Nat
        /\ lo * ChunkSectors <= first /\ first < (lo + 1) * ChunkSectors
        /\ hi * ChunkSectors <= last /\ last < (hi + 1) * ChunkSectors
    BY <1>1, <2>1, ChunkRange, Zenon
  <2>3. WasWrittenSpan(first, count)
          <=> \E c \in lo .. hi : \E l \in Start(c) .. End(c) - 1 :
                  WasWritten(c * ChunkSectors + ChunkOffset(l))
    BY <1>3, Zenon DEF WasWrittenSpan
  <2> HIDE DEF last, lo, hi
  <2>4. ASSUME NEW c \in Nat, c <= hi
        PROVE  End(c) = IF (c + 1) * ChunkSectors < e THEN (c + 1) * ChunkSectors ELSE e
    <3>1. /\ c * ChunkSectors \in Nat /\ (c + 1) * ChunkSectors = c * ChunkSectors + ChunkSectors
          /\ c <= c * ChunkSectors /\ c * ChunkSectors <= hi * ChunkSectors
          /\ c + 1 <= (c + 1) * ChunkSectors /\ (c + 1) * ChunkSectors \in Nat
          /\ hi * ChunkSectors \in Nat
      BY <2>2, <2>4, ChunkOrder
    <3>2. c <= LbaMax
      BY <1>1, <2>1, <2>2, <3>1
    <3>3. CASE c + 1 <= LbaMax
      <4>1. SatAdd(c, 1) = c + 1
        BY <1>1, <3>3 DEF SatAdd
      <4> DEFINE p == (c + 1) * ChunkSectors
      <4>2. End(c) = Smaller(SatMul(c + 1, ChunkSectors), e)
        BY <4>1
      <4>3. SatMul(c + 1, ChunkSectors) = IF p > LbaMax THEN LbaMax ELSE p
        BY DEF SatMul
      <4>4. p \in Nat
        BY <3>1
      <4> HIDE DEF p, e, End
      <4>5. End(c) = IF p < e THEN p ELSE e
        BY <1>1, <2>1, <4>2, <4>3, <4>4
      <4> QED BY <4>5 DEF p
    <3>4. CASE c = LbaMax
      <4>1. SatAdd(c, 1) = c
        BY <1>1, <3>4 DEF SatAdd
      <4>2. SatMul(c, ChunkSectors) = LbaMax
        BY <1>1, <3>1, <3>4 DEF SatMul
      <4>3. End(c) = Smaller(LbaMax, e)
        BY <4>1, <4>2
      <4> DEFINE p == (c + 1) * ChunkSectors
      <4>4. p \in Nat /\ LbaMax < p
        BY <1>1, <3>1, <3>4
      <4> HIDE DEF p, e, End
      <4>5. End(c) = IF p < e THEN p ELSE e
        BY <1>1, <2>1, <4>3, <4>4
      <4> QED BY <4>5 DEF p
    <3> QED BY <1>1, <3>2, <3>3, <3>4
  <2> HIDE DEF End, e
  <2>5. ASSUME NEW c \in lo .. hi
        PROVE  /\ c \in Nat /\ c * ChunkSectors \in Nat /\ (c + 1) * ChunkSectors \in Nat
               /\ Start(c) = IF c = lo THEN first ELSE c * ChunkSectors
               /\ first <= Start(c) /\ c * ChunkSectors <= Start(c)
               /\ End(c) <= (c + 1) * ChunkSectors /\ End(c) <= e /\ End(c) \in Nat
    <3>1. c \in Nat /\ c <= hi /\ lo <= c
      BY <2>2
    <3>2. /\ c * ChunkSectors \in Nat /\ (c + 1) * ChunkSectors \in Nat
          /\ c * ChunkSectors <= hi * ChunkSectors /\ hi * ChunkSectors \in Nat
      BY <2>2, <3>1, ChunkOrder
    <3>3. c * ChunkSectors <= e
      BY <2>1, <2>2, <3>2
    <3>4. CASE c = lo
      BY <1>1, <2>1, <2>2, <2>4, <3>1, <3>2, <3>4 DEF lo
    <3>5. CASE c # lo
      <4>1. c - 1 \in Nat /\ c - 1 <= hi /\ (c - 1) + 1 = c /\ lo + 1 <= c /\ lo + 1 \in Nat
        BY <2>2, <3>1, <3>5
      <4>2. End(c - 1) = IF c * ChunkSectors < e THEN c * ChunkSectors ELSE e
        BY <2>4, <4>1, Zenon
      <4>3. Start(c) = c * ChunkSectors
        BY <2>1, <3>2, <3>3, <3>5, <4>2 DEF lo
      <4>4. (lo + 1) * ChunkSectors <= c * ChunkSectors /\ (lo + 1) * ChunkSectors \in Nat
        BY <3>1, <4>1, ChunkOrder, Zenon
      <4>5. first <= Start(c)
        BY <1>1, <2>2, <3>2, <4>3, <4>4
      <4> QED BY <2>1, <2>4, <3>1, <3>2, <3>5, <4>3, <4>5
    <3> QED BY <3>4, <3>5
  <2>6. ASSUME NEW c \in lo .. hi, NEW l \in Start(c) .. End(c) - 1,
               WasWritten(c * ChunkSectors + ChunkOffset(l))
        PROVE  \E m \in first .. e - 1 : WasWritten(m)
    <3>1. /\ l \in Nat /\ c \in Nat /\ c * ChunkSectors <= l /\ l < (c + 1) * ChunkSectors
          /\ first <= l /\ l < e
      BY <1>1, <2>1, <2>5, <2>6
    <3>2. c * ChunkSectors + ChunkOffset(l) = l
      BY <3>1, ChunkUnique
    <3>3. WasWritten(l)
      BY <2>6, <3>2
    <3> QED BY <1>1, <2>1, <3>1, <3>3
  <2>7. ASSUME NEW m \in first .. e - 1, WasWritten(m)
        PROVE  \E c \in lo .. hi : \E l \in Start(c) .. End(c) - 1 :
                   WasWritten(c * ChunkSectors + ChunkOffset(l))
    <3> DEFINE c == ChunkId(m)
    <3>1. m \in Nat /\ first <= m /\ m <= last /\ m < e
      BY <1>1, <2>1
    <3>2. /\ c \in Nat /\ c * ChunkSectors <= m /\ m < (c + 1) * ChunkSectors
          /\ c * ChunkSectors + ChunkOffset(m) = m
      BY <3>1, ChunkRange, Zenon
    <3> HIDE DEF c
    <3>3. /\ c * ChunkSectors \in Nat /\ (c + 1) * ChunkSectors \in Nat
          /\ lo * ChunkSectors \in Nat /\ (hi + 1) * ChunkSectors \in Nat
      BY <2>2, <3>2, ChunkOrder
    <3>4. lo * ChunkSectors < (c + 1) * ChunkSectors /\ c * ChunkSectors < (hi + 1) * ChunkSectors
      BY <1>1, <2>1, <2>2, <3>1, <3>2, <3>3
    <3>5. lo <= c /\ c <= hi
      BY <2>2, <3>2, <3>4, ChunkOrder, Zenon
    <3>6. c \in lo .. hi
      BY <2>2, <3>2, <3>5
    <3>7. m \in Start(c) .. End(c) - 1
      <4>1. /\ Start(c) = IF c = lo THEN first ELSE c * ChunkSectors
            /\ End(c) \in Nat
        BY <2>5, <3>6
      <4>2. End(c) = IF (c + 1) * ChunkSectors < e THEN (c + 1) * ChunkSectors ELSE e
        BY <2>4, <3>2, <3>5, Zenon
      <4> HIDE DEF Start
      <4>3. Start(c) <= m /\ Start(c) \in Nat
        BY <1>1, <3>1, <3>2, <3>3, <4>1, Zenon
      <4>4. m < End(c)
        BY <3>1, <3>2, <4>2
      <4> QED BY <3>1, <4>1, <4>3, <4>4
    <3>8. WasWritten(c * ChunkSectors + ChunkOffset(m))
      BY <2>7, <3>2
    <3> QED BY <3>6, <3>7, <3>8
  <2>8. SatAdd(first, count) = e
    BY <2>1
  <2> QED BY <2>3, <2>6, <2>7, <2>8, Zenon
<1> QED BY <1>2, <1>3

\* was_written_span asks the chunks in turn and yet answers as a test of every
\* sector of the span would, for every slab size, every length of span and up
\* to the largest sector number, where its arithmetic saturates.
THEOREM SpanTheorem == Spec => []SpanExact
<1>1. SpanExact
  BY SpanLemma DEF SpanExact
<1> QED BY <1>1, PTL
=============================================================================
