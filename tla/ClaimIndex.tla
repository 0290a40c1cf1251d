----------------------------- MODULE ClaimIndex -----------------------------
(***************************************************************************)
(* Katea's guard against writing one guest file's bytes into another's     *)
(* host file (crates/izarravm-machine/src/katea_tree.rs: ambiguous_files   *)
(* and the claim index behind it, and the parts of reconcile_mode that     *)
(* gather the live entries and add or remove directories).                 *)
(*                                                                         *)
(* The guest writes FAT sectors and entries of the root directory in any   *)
(* order; a reconcile pass may come between any two of these writes.  All  *)
(* files are entries of the root directory, subdirectories have no files.  *)
(***************************************************************************)
EXTENDS ChainWalk

CONSTANTS
    Root,       \* ROOT_CLUSTER
    Slots,      \* the keys of the root directory in the order of its entries
    MountFat, MountFiles,   \* the volume as mounted,
    DirRuns,    \* <<first, last>> the clusters of its directories
    FatWrites,      \* bound: <<cluster, value>> the guest writes into the FAT,
    FileWrites,     \* <<key, first clusters>> into the root directory's file entries,
    SubdirWrites,   \* first clusters of subdirectory entries it adds or removes
    MaxWrites       \* bound: guest writes
ASSUME ClaimAssumption ==
    /\ MaxWrites \in Nat
    /\ \E r \in DirRuns : r[1] = Root
    /\ \A r \in DirRuns :
          /\ r[1] \in Clusters /\ r[2] \in Clusters /\ r[1] <= r[2]
          /\ \A c \in r[1] .. r[2] : MountFat[c] = IF c < r[2] THEN c + 1 ELSE EOC

Keys == Range(Slots)

VARIABLES
    v,          \* the volume
    files,      \* the first clusters in each key's entries: several when the name is doubled
    subdirs,    \* first clusters of the root's subdirectory entries
    verdict,    \* the guard's answer in the last pass, and what it was given
    writes
vars == <<v, files, subdirs, verdict, writes>>

NoClaims == [k \in Keys |-> None]
NoClaimants == [c \in Named |-> <<>>]

-----------------------------------------------------------------------------
(* The index.                                                              *)

PoisonClaims(u) ==
    [u EXCEPT !.claims_valid = FALSE, !.claim_by_key = NoClaims, !.claimants = NoClaimants]

\* Claimants::only.
Sole(list) == IF Len(list) = 1 THEN {list[1]} ELSE {}

IsDir(u, c) == u.directory_clusters[c] # None

\* The keys in ks have one contested cluster more, or less (saturating_sub).
Adjust(claims, ks, by) ==
    [k \in Keys |-> IF k \in ks /\ claims[k] # None
                    THEN [claims[k] EXCEPT !.bad = IF @ + by < 0 THEN 0 ELSE @ + by]
                    ELSE claims[k]]

\* Mutant: a file whose cluster becomes a directory's is not flagged.
RegisterUnflagged(u, c, owner) == [u EXCEPT !.directory_clusters[c] = owner]

RegisterDirectoryCluster(u, c, owner) ==
    LET registered == [u EXCEPT !.directory_clusters[c] = owner]
    IN  IF IsDir(u, c) THEN registered
        ELSE [registered EXCEPT !.claim_by_key = Adjust(@, Sole(u.claimants[c]), 1)]

\* Mutant: a directory's cluster is taken for one that is free again.
RetractOneFreed(u, key, c) ==
    LET list == RemoveFirst(u.claimants[c], key)
        freed == Len(u.claimants[c]) = 2 /\ Len(list) = 1
    IN  [u EXCEPT !.claimants[c] = list,
                  !.claim_by_key = IF freed THEN Adjust(@, Sole(list), -1) ELSE @]

\* One cluster of retract_claim: the key that stays alone is freed.
RetractOne(u, key, c) ==
    LET list == RemoveFirst(u.claimants[c], key)
        freed == ~IsDir(u, c) /\ Len(u.claimants[c]) = 2 /\ Len(list) = 1
    IN  [u EXCEPT !.claimants[c] = list,
                  !.claim_by_key = IF freed THEN Adjust(@, Sole(list), -1) ELSE @]

RetractClaim(u, key) ==
    IF u.claim_by_key[key] = None THEN u
    ELSE FoldLeft(LAMBDA x, c : RetractOne(x, key, c),
                  [u EXCEPT !.claim_by_key[key] = None], u.claim_by_key[key].clusters)

\* One cluster of insert_claim, on [vol, bad, newly]: newly lists the keys that
\* become contested, once per cluster.
InsertOne(x, key, c) ==
    LET list == x.vol.claimants[c]
        dir == IsDir(x.vol, c)
    IN  [vol |-> [x.vol EXCEPT !.claimants[c] = Append(@, key)],
         bad |-> x.bad + (IF Len(list) >= 1 \/ dir THEN 1 ELSE 0),
         newly |-> IF dir THEN x.newly ELSE Append(x.newly, Sole(list))]

\* The chains of a key's entries.  ok is FALSE when a walk was degraded.
GatherChains(u, unread, firsts) ==
    LET Gather(x, first) ==
            LET a == ChainWithToken(x.vol, unread, first)
            IN  IF ~x.ok THEN x
                ELSE IF a.token = None THEN [x EXCEPT !.vol = a.vol, !.ok = FALSE]
                ELSE [x EXCEPT !.vol = a.vol,
                               !.units = Append(@, [first |-> first, token |-> a.token]),
                               !.clusters = IF a.chain = None THEN @ ELSE @ \o a.chain]
    IN  FoldLeft(Gather, [vol |-> u, ok |-> TRUE, units |-> <<>>, clusters |-> <<>>], firsts)

\* The claim itself, once its clusters are in (the record in of InsertOne).
EnterClaim(key, units, clusters, in) ==
    LET flagged == FoldLeft(LAMBDA claims, ks : Adjust(claims, ks, 1),
                            in.vol.claim_by_key, in.newly)
    IN  [in.vol EXCEPT !.claim_by_key = [flagged EXCEPT ![key] =
            [units |-> units, clusters |-> clusters, bad |-> in.bad]]]

\* The union of the chains got becomes the key's claim.
ClaimChains(key, got) ==
    LET clusters == IF Len(got.units) > 1 THEN SetToSeq(Range(got.clusters)) ELSE got.clusters
    IN  IF ~got.ok THEN [vol |-> got.vol, ok |-> FALSE]
        ELSE [vol |-> EnterClaim(key, got.units, clusters,
                          FoldLeft(LAMBDA x, c : InsertOne(x, key, c),
                                   [vol |-> got.vol, bad |-> 0, newly |-> <<>>], clusters)),
              ok |-> TRUE]

\* insert_claim.
InsertClaim(u, unread, key, firsts) == ClaimChains(key, GatherChains(u, unread, firsts))

\* The claim is what a fresh walk of the key's entries would give.
ClaimCurrent(u, key, firsts) ==
    LET claim == u.claim_by_key[key]
    IN  /\ claim # None
        /\ Len(claim.units) = Len(firsts)
        /\ \A i \in DOMAIN firsts : /\ claim.units[i].first = firsts[i]
                                    /\ IsCurrent(u, claim.units[i].token)

-----------------------------------------------------------------------------
(* The guard.                                                              *)

\* ambiguous_by_full_scan: each cluster keeps its last claimant.
FullScan(u, unread, live) ==
    LET Claim(x, e) ==
            [x EXCEPT !.last[e.cluster] = e.key,
                      !.flagged = @ \cup (IF IsDir(u, e.cluster) THEN {e.key} ELSE {})
                                    \cup (IF x.last[e.cluster] \in {None, e.key} THEN {}
                                          ELSE {x.last[e.cluster], e.key})]
        Entry(x, e) ==
            LET a == ChainWithToken(x.vol, unread, e.first)
            IN  IF a.chain = None THEN [x EXCEPT !.vol = a.vol]
                ELSE FoldLeft(Claim, [x EXCEPT !.vol = a.vol],
                              [i \in DOMAIN a.chain |-> [key |-> e.key, cluster |-> a.chain[i]]])
    IN  FoldLeft(Entry, [vol |-> u, last |-> [c \in Named |-> None], flagged |-> {}], live)

FirstsOf(live, key) ==
    LET mine == SelectSeq(live, LAMBDA e : e.key = key) IN [i \in DOMAIN mine |-> mine[i].first]

\* The claims of keys that are gone are retracted, those of the others
\* refreshed unless they are current.
Refreshed(u, unread, live, keys, forced) ==
    LET gone == SetToSeq({k \in Keys : u.claim_by_key[k] # None} \ Range(keys))
        Refresh(x, key) ==
            LET firsts == FirstsOf(live, key)
            IN  IF ~x.ok \/ (key \notin forced /\ ClaimCurrent(x.vol, key, firsts)) THEN x
                ELSE InsertClaim(RetractClaim(x.vol, key), unread, key, firsts)
    IN  FoldLeft(Refresh, [vol |-> FoldLeft(RetractClaim, u, gone), ok |-> TRUE], keys)

\* The answer of the index, or of the full scan if a walk was degraded.
Counted(done, unread, live, keys) ==
    IF done.ok
    THEN [vol |-> done.vol, flagged |-> {k \in Range(keys) : done.vol.claim_by_key[k].bad > 0}]
    ELSE FullScan(PoisonClaims(done.vol), unread, live)

\* ambiguous_incrementally.  forced are the keys whose turn it is to be
\* refreshed without need.
Incremental(u, unread, live, forced) ==
    LET keys == SelectSeq(Slots, LAMBDA k : \E i \in DOMAIN live : live[i].key = k)
        begun == IF u.claims_valid THEN u ELSE [PoisonClaims(u) EXCEPT !.claims_valid = TRUE]
    IN  Counted(Refreshed(begun, unread, live, keys, forced), unread, live, keys)

\* ambiguous_files.
AmbiguousFiles(u, unread, live, complete, forced) ==
    IF complete THEN Incremental(u, unread, live, forced)
    ELSE FullScan(PoisonClaims(u), unread, live)

-----------------------------------------------------------------------------
(* A reconcile pass.                                                       *)

\* The chain of directory d, when it can be used.
DirChain(a) == IF a.chain # None /\ Range(a.chain) \subseteq Clusters THEN a.chain ELSE None

\* The known directories whose image can be read.
ReadDirectories(u, unread) ==
    LET Look(x, d) ==
            LET a == ChainWithToken(x.vol, unread, d)
            IN  [vol |-> a.vol, read |-> IF DirChain(a) = None THEN x.read ELSE x.read \cup {d}]
    IN  FoldLeft(Look, [vol |-> u, read |-> {}], SetToSeq(u.dir_paths))

\* The live entries of what was read.  A torn directory image
\* (directory_image_is_whole) hides what comes after its first entry.
LiveEntries(looked, torn) ==
    LET entries == FlattenSeq([i \in DOMAIN Slots |->
            [j \in DOMAIN files[Slots[i]] |-> [key |-> Slots[i], first |-> files[Slots[i]][j]]]])
        shown == IF torn /\ entries # <<>> THEN <<entries[1]>> ELSE entries
    IN  [vol |-> looked.vol,
         complete |-> looked.read = looked.vol.dir_paths /\ ~torn,
         live |-> IF Root \in looked.read THEN shown ELSE <<>>,
         dirs |-> IF Root \in looked.read /\ ~torn THEN subdirs ELSE {}]

\* gather_live.
GatherLive(u, unread, torn) == LiveEntries(ReadDirectories(u, unread), torn)

\* Phase 2: known directories that have disappeared and whose chain is freed.
Freed(u, unread, g) ==
    {d \in u.dir_paths \ ({Root} \cup g.dirs) :
        /\ SectorOf[d] \notin unread /\ u.fat[d] = Free
        /\ \A i \in DOMAIN g.live : g.live[i].first # d}

\* A pass that deletes a directory has seen its chain freed, so the index was
\* poisoned before: once more does not matter.
DeleteDirectories(u, gone) ==
    IF gone = {} THEN u
    ELSE PoisonClaims([u EXCEPT !.dir_paths = @ \ gone,
             !.directory_clusters = [c \in Named |-> IF @[c] \in gone THEN None ELSE @[c]]])

\* Phase 3: the clusters of the directories are registered, in the order of
\* the worklist, and the directories made on the host come to be known.
Materialize(u, unread, order, made) ==
    LET Register(x, d) ==
            LET a == ChainWithToken(x, unread, d)
            IN  IF DirChain(a) = None THEN a.vol
                ELSE FoldLeft(LAMBDA y, c : RegisterDirectoryCluster(y, c, d), a.vol, a.chain)
    IN  FoldLeft(Register, [u EXCEPT !.dir_paths = @ \cup made], order)

\* What a pass may meet: a FAT sector the guest wrote that cannot be read back,
\* a torn root directory, a key whose turn it is.  Bound: one of them a pass,
\* and of the keys only the first.
Circumstances ==
    LET calm == [unread |-> {}, torn |-> FALSE, forced |-> {}]
    IN  {calm, [calm EXCEPT !.torn = TRUE]}
        \cup {[calm EXCEPT !.forced = {Slots[1]}]}
        \cup {[calm EXCEPT !.unread = {s}] :
                  s \in {t \in FatSectors : v.fat_sector_epoch[t] > 0}}

\* The rest of a pass on the entries g, after the guard's answer a.  The host
\* may fail to remove or to make a directory.
Act(unread, g, a) ==
    IF g.vol.failed \/ a.vol.failed
    THEN /\ v' = [(IF g.vol.failed THEN g.vol ELSE a.vol) EXCEPT !.failed = FALSE]
         /\ verdict' = None
    ELSE /\ \E gone \in SUBSET Freed(a.vol, unread, g) :
                \E made \in SUBSET (g.dirs \ (a.vol.dir_paths \ gone)),
                   order \in SetToSeqs(a.vol.dir_paths \ gone) :
                    v' = [Materialize(DeleteDirectories(a.vol, gone), unread,
                                      order \o SetToSeq(made), made) EXCEPT !.failed = FALSE]
         /\ verdict' = [flagged |-> a.flagged, live |-> g.live,
                        dirs |-> {c \in Named : IsDir(v, c)}]

Guarded(now, g) ==
    Act(now.unread, g, AmbiguousFiles(g.vol, now.unread, g.live, g.complete, now.forced))

\* reconcile_mode.
Reconcile ==
    /\ \E now \in Circumstances : Guarded(now, GatherLive(v, now.unread, now.torn))
    /\ UNCHANGED <<files, subdirs, writes>>

-----------------------------------------------------------------------------
(* The guest.                                                              *)

Guest ==
    /\ writes < MaxWrites
    /\ writes' = writes + 1
    /\ verdict' = None
    /\ \/ /\ \E w \in FatWrites : v.fat[w[1]] # w[2] /\ v' = WriteFat(v, w[1], w[2])
          /\ UNCHANGED <<files, subdirs>>
       \/ /\ \E w \in FileWrites :
                files[w[1]] # w[2] /\ files' = [files EXCEPT ![w[1]] = w[2]]
          /\ UNCHANGED <<v, subdirs>>
       \/ /\ \E d \in SubdirWrites :
                subdirs' = IF d \in subdirs THEN subdirs \ {d} ELSE subdirs \cup {d}
          /\ UNCHANGED <<v, files>>

MountDirs == {r[1] : r \in DirRuns}

\* Every cluster of a directory, with the directory's first.
MountedClusters ==
    [c \in Named |->
        IF \E r \in DirRuns : c \in r[1] .. r[2]
        THEN (CHOOSE r \in DirRuns : c \in r[1] .. r[2])[1] ELSE None]

\* The volume as new builds it, before prime_claim_index.
Mounted ==
    [fat |-> MountFat, fat_epoch |-> 0, fat_sector_epoch |-> [s \in FatSectors |-> 0],
     chain_memo |-> NoMemo, dir_paths |-> MountDirs,
     directory_clusters |-> MountedClusters,
     claims_valid |-> FALSE, claim_by_key |-> NoClaims, claimants |-> NoClaimants,
     failed |-> FALSE]

Init ==
    /\ files = MountFiles /\ subdirs = MountDirs \ {Root}
    /\ v = LET g == GatherLive(Mounted, {}, FALSE) IN Incremental(g.vol, {}, g.live, {}).vol
    /\ verdict = None /\ writes = 0

Next == Reconcile \/ Guest
Spec == Init /\ [][Next]_vars

-----------------------------------------------------------------------------
\* The chain from first as the FAT stands.
TrueChain(first) == Answer(Walk(v, {}, first))

ClustersOf(live, k) ==
    UNION {Range(TrueChain(live[i].first)) :
              i \in {j \in DOMAIN live : live[j].key = k /\ TrueChain(live[j].first) # None}}

\* "ambiguous = { k in LiveFiles : some c in chain(k) is in directory_clusters
\* or in chain(k') for another k' in LiveFiles }": in every pass that acts on
\* it, the guard holds exactly these files, however the index came to be:
\* which walks were remembered or evicted, which claims refreshed or kept,
\* which directories came and went, which passes failed.
GuardExact ==
    verdict # None =>
        verdict.flagged =
            {k \in {verdict.live[i].key : i \in DOMAIN verdict.live} :
                \E c \in ClustersOf(verdict.live, k) :
                    \/ c \in verdict.dirs
                    \/ \E j \in Keys \ {k} : c \in ClustersOf(verdict.live, j)}

\* A key's count is the number of its clusters that another key claims or that
\* belong to a directory, at every moment and not only when a pass reads it:
\* "the incremental answer EQUAL to the full scan's rather than a superset".
CountsExact ==
    \A k \in {j \in Keys : v.claim_by_key[j] # None} :
        v.claim_by_key[k].bad =
            Cardinality({c \in Range(v.claim_by_key[k].clusters) :
                IsDir(v, c) \/ \E j \in Keys \ {k} : v.claim_by_key[j] # None
                                  /\ c \in Range(v.claim_by_key[j].clusters)})

\* A remembered chain that is taken for current is the chain the FAT holds now.
MemoSound ==
    \A c \in Named : v.chain_memo[c] # None /\ IsCurrent(v, v.chain_memo[c].token)
                        => v.chain_memo[c].chain = TrueChain(c)
=============================================================================
