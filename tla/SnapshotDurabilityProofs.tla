---------------------- MODULE SnapshotDurabilityProofs -----------------------
(***************************************************************************)
(* No power failure exposes a snapshot without its chunks, and none loses  *)
(* a snapshot whose create returned, but for what interrupted operations   *)
(* left unsynced: for any chunks, snapshots and directories, and any       *)
(* number of kills and power failures.  And no snapshot mixes two states   *)
(* of a source that others change while it is read.                        *)
(***************************************************************************)
EXTENDS SnapshotDurability, SourceReading, TLAPS

-----------------------------------------------------------------------------
(***************************************************************************)
(* The inductive invariant.                                                *)
(***************************************************************************)

\* Entries the running operation has changed and will sync.
InFlight(p) ==
    \/ pc = "naming" /\ p = DirOf[cur]
    \/ pc = "filing" /\ p = cur
    \/ pc = "publishing" /\ p = goal
    \/ pc = "unlinking" /\ p \in Snap /\ ~live[p]
    \/ pc \in {"sweeping", "syncing"} /\ p \in Chunk /\ ~live[p] /\ DirOf[p] \in dirs
    \/ pc = "clearing" /\ p \in Chunk /\ DirOf[p] \in dirs
    \/ pc = "clearing" /\ p \in Snap /\ dirs = {}

\* Everything else is on disk, or known to be unsure.
Flushed ==
    /\ \A p \in Path \ unsure : possible[p] = {live[p]} \/ InFlight(p)
    /\ Root \notin unsure => /\ configs = {config} \/ pc = "confirming"
                             /\ databases = {database} \/ pc = "replacing"

\* A loose chunk a reader finds.
Present(h) == live[h] /\ live[DirOf[h]]

\* The loose objects are what the repository consists of, now or after a power
\* failure that meets nothing unsure.
LooseInForce == config = "v1" \/ pc = "confirming"

\* The manifests that are there, or may be there again though nothing is unsure
\* about them.
Claimed == {s \in Snap \ excused : live[s] \/ (Maybe(s) /\ s \notin unsure)}

ClaimsHold == LooseInForce => \A s \in Claimed : \A h \in Refs[s] : Present(h)

\* What create has promised.
PromisesKept ==
    /\ returned \cap excused = {}
    /\ LooseInForce => \A s \in returned : live[s]
    /\ config = "v2" => \A s \in returned : {s} \cup Refs[s] \subseteq database

\* What create and repair know: the chunks they have passed are there, and no
\* manifest rests on what they are still making.
Storing ==
    /\ pc \in {"storing", "naming", "placing", "filing", "publishing"} =>
           /\ config = "v1" /\ goal \in Snap /\ todo \subseteq Refs[goal]
           /\ \A h \in Refs[goal] \ todo : Present(h)
    /\ pc \in {"naming", "placing", "filing"} => cur \in todo /\ live[DirOf[cur]]
    /\ pc = "naming" => \A s \in Claimed : \A h \in Refs[s] : DirOf[h] # DirOf[cur]
    /\ pc = "filing" => live[cur] /\ \A s \in Claimed : cur \notin Refs[s]
    /\ pc = "publishing" => todo = {} /\ live[goal] /\ goal \notin returned

\* What prune knows: nobody refers to what it is still going to remove.
Pruning ==
    /\ pc \in {"unlinking", "sweeping", "syncing"} => config = "v1"
    /\ pc \in {"unlinking", "sweeping"} =>
           /\ \A s \in Manifests \ todo : Refs[s] \cap todo = {}
           /\ \A h \in todo \cap Chunk : DirOf[h] \in dirs
    /\ pc = "unlinking" => todo \cap Snap \subseteq Manifests \ returned
    /\ pc = "sweeping" => todo \subseteq Chunk /\ \A s \in Snap : possible[s] = {live[s]}

\* What compact knows: the database holds what the loose repository holds.
Compacting ==
    /\ pc \in {"replacing", "switching"} => config = "v1"
    /\ pc \in {"confirming", "clearing", "emptying", "vacuuming"} => config = "v2"
    /\ pc \in {"replacing", "switching", "confirming"} => database = Loose \cup Manifests

DurabilityInv ==
    /\ TypeOK
    /\ Flushed
    /\ ClaimsHold
    /\ PromisesKept
    /\ Storing
    /\ Pruning
    /\ Compacting

-----------------------------------------------------------------------------
(***************************************************************************)
(* What the invariant says of a power failure.                             *)
(***************************************************************************)

\* With nothing unsure about the root, only one format can come back, but at
\* the switch.
LEMMA FormatKnown ==
  ASSUME DurabilityInv, Root \notin unsure
  PROVE  /\ "v1" \in configs => LooseInForce
         /\ "v2" \in configs => config = "v2" /\ databases = {database}
<1>1. configs = {config} \/ pc = "confirming"
  BY DEF DurabilityInv, Flushed
<1>2. databases = {database} \/ pc = "replacing"
  BY DEF DurabilityInv, Flushed
<1> QED BY <1>1, <1>2 DEF DurabilityInv, LooseInForce, Compacting

\* A chunk that is there, sure, and referred to by a claimed manifest is synced.
LEMMA ChunksSynced ==
  ASSUME DurabilityAssumption, DurabilityInv, LooseInForce, NEW s \in Claimed,
         ~Exposed(s), NEW h \in Refs[s]
  PROVE  ChunkSurely(h)
<1>1. s \in Snap /\ h \in Chunk /\ DirOf[h] \in Dir /\ Present(h)
  BY DEF DurabilityAssumption, DurabilityInv, ClaimsHold, Claimed
<1>2. h \in Path \ unsure /\ DirOf[h] \in Path \ unsure
  BY <1>1 DEF Exposed, Parts, Path, Object
<1>3. live[h] /\ live[DirOf[h]]
  BY <1>1 DEF Present
<1>4. pc # "clearing"
  BY DEF DurabilityInv, LooseInForce, Compacting
<1>5. ~InFlight(h)
  <2>1. h \notin Snap /\ h \notin Dir
    BY <1>1 DEF DurabilityAssumption
  <2>2. pc = "naming" => DirOf[cur] \in Dir
    BY DEF DurabilityAssumption, DurabilityInv, Storing
  <2>3. pc = "filing" => h # cur
    BY DEF DurabilityInv, Storing
  <2>4. pc = "publishing" => goal \in Snap
    BY DEF DurabilityInv, Storing
  <2> QED BY <1>3, <1>4, <2>1, <2>2, <2>3, <2>4 DEF InFlight
<1>6. ~InFlight(DirOf[h])
  <2>1. DirOf[h] \notin Snap /\ DirOf[h] \notin Chunk
    BY <1>1 DEF DurabilityAssumption
  <2>2. pc = "naming" => DirOf[h] # DirOf[cur]
    BY DEF DurabilityInv, Storing
  <2>3. pc = "filing" => cur \in Chunk
    BY DEF DurabilityAssumption, DurabilityInv, Storing
  <2>4. pc = "publishing" => goal \in Snap
    BY DEF DurabilityInv, Storing
  <2> QED BY <1>4, <2>1, <2>2, <2>3, <2>4 DEF InFlight
<1>7. possible[h] = {live[h]} /\ possible[DirOf[h]] = {live[DirOf[h]]}
  BY <1>2, <1>5, <1>6 DEF DurabilityInv, Flushed
<1>8. live[h] = TRUE /\ live[DirOf[h]] = TRUE
  BY <1>1, <1>2, <1>3 DEF DurabilityInv, TypeOK
<1> QED BY <1>7, <1>8 DEF ChunkSurely, Surely

LEMMA ExposesNothing ==
  ASSUME DurabilityAssumption, DurabilityInv
  PROVE  PublishedComplete
<1>1. ASSUME "v1" \in configs, NEW s \in Snap \ excused, ~Exposed(s), Maybe(s), NEW h \in Refs[s]
      PROVE  ChunkSurely(h)
  <2>1. Root \notin unsure /\ s \notin unsure
    BY <1>1 DEF Exposed, Parts
  <2>2. s \in Claimed /\ LooseInForce
    BY <1>1, <2>1, FormatKnown DEF Claimed
  <2> QED BY <1>1, <2>2, ChunksSynced
<1> QED BY <1>1 DEF PublishedComplete, LooseComplete, DurabilityInv

LEMMA LosesNothing ==
  ASSUME DurabilityAssumption, DurabilityInv
  PROVE  ReturnedDurable
<1> SUFFICES ASSUME NEW s \in returned, ~Exposed(s)
             PROVE  Restorable(s)
  BY DEF ReturnedDurable
<1>1. s \in Snap /\ s \notin excused /\ s \in Path \ unsure /\ Root \notin unsure
  BY DEF DurabilityInv, TypeOK, PromisesKept, Exposed, Parts, Path, Object
<1>2. ASSUME "v1" \in configs PROVE Surely(s) /\ \A h \in Refs[s] : ChunkSurely(h)
  <2>1. LooseInForce
    BY <1>1, <1>2, FormatKnown
  <2>2. live[s] /\ s \in Claimed
    BY <1>1, <2>1 DEF DurabilityInv, PromisesKept, Claimed
  <2>3. ~InFlight(s)
    <3>1. s \notin Chunk /\ s \notin Dir /\ pc # "clearing"
      BY <1>1, <2>1 DEF DurabilityAssumption, DurabilityInv, LooseInForce, Compacting
    <3>2. pc = "naming" => DirOf[cur] \in Dir
      BY DEF DurabilityAssumption, DurabilityInv, Storing
    <3>3. pc = "filing" => cur \in Chunk
      BY DEF DurabilityAssumption, DurabilityInv, Storing
    <3>4. pc = "publishing" => s # goal
      BY DEF DurabilityInv, Storing
    <3> QED BY <2>2, <3>1, <3>2, <3>3, <3>4 DEF InFlight
  <2>4. possible[s] = {live[s]} /\ live[s] = TRUE
    BY <1>1, <2>2, <2>3 DEF DurabilityInv, Flushed, TypeOK
  <2> QED BY <2>1, <2>2, <2>4, ChunksSynced DEF Surely
<1>3. ASSUME "v2" \in configs, NEW rows \in databases PROVE {s} \cup Refs[s] \subseteq rows
  BY <1>1, <1>3, FormatKnown DEF DurabilityInv, PromisesKept
<1> QED BY <1>2, <1>3 DEF Restorable


-----------------------------------------------------------------------------
(***************************************************************************)
(* create and repair on a loose repository.                                *)
(***************************************************************************)

LEMMA StoreOK ==
  ASSUME DurabilityAssumption, DurabilityInv, NEW s \in Snap, Store(s)
  PROVE  DurabilityInv'
<1> USE DEF DurabilityAssumption, DurabilityInv, Store, Goto, Object, entries, root, observers
<1>1. TypeOK'
  BY DEF TypeOK
<1>2. Flushed'
  BY DEF Flushed, InFlight
<1>3. ClaimsHold'
  BY DEF ClaimsHold, LooseInForce, Claimed, Maybe, Present
<1>4. PromisesKept'
  BY DEF PromisesKept, LooseInForce
<1>5. Storing'
  BY DEF Storing
<1>6. Pruning'
  BY DEF Pruning
<1>7. Compacting'
  BY DEF Compacting
<1> QED BY <1>1, <1>2, <1>3, <1>4, <1>5, <1>6, <1>7

LEMMA FindDirectoryOK ==
  ASSUME DurabilityAssumption, DurabilityInv, NEW h \in Chunk, FindDirectory(h)
  PROVE  DurabilityInv'
<1> USE DEF DurabilityAssumption, DurabilityInv, FindDirectory, Goto, entries, root, observers
<1>1. TypeOK'
  BY DEF TypeOK
<1>2. Flushed'
  BY DEF Flushed, InFlight
<1>3. ClaimsHold'
  BY DEF ClaimsHold, LooseInForce, Claimed, Maybe, Present
<1>4. PromisesKept'
  BY DEF PromisesKept, LooseInForce
<1>5. Storing'
  BY DEF Storing, Present
<1>6. Pruning'
  BY DEF Pruning
<1>7. Compacting'
  BY DEF Compacting
<1> QED BY <1>1, <1>2, <1>3, <1>4, <1>5, <1>6, <1>7

LEMMA MakeDirectoryOK ==
  ASSUME DurabilityAssumption, DurabilityInv, NEW h \in Chunk, MakeDirectory(h)
  PROVE  DurabilityInv'
<1> USE DEF DurabilityAssumption, DurabilityInv, MakeDirectory, SetEntry, Goto, Path, Object,
            root, observers
<1>1. TypeOK'
  BY DEF TypeOK
<1>2. Flushed'
  BY DEF TypeOK, Flushed, InFlight
<1>3. ClaimsHold'
  <2>1. \A s \in Snap : live'[s] = live[s] /\ possible'[s] = possible[s]
    <3>1. \A s \in Snap : s \in Path \ {DirOf[h]}
      OBVIOUS
    <3> QED BY <3>1 DEF TypeOK
  <2>2. Claimed' = Claimed
    BY <2>1 DEF Claimed, Maybe
  <2>3. \A g \in Chunk : Present(g) => Present(g)'
    BY DEF TypeOK, Present
  <2>4. LooseInForce /\ \A s \in Claimed : \A g \in Refs[s] : g \in Chunk
    BY DEF Storing, LooseInForce, Claimed
  <2> QED BY <2>2, <2>3, <2>4 DEF ClaimsHold
<1>4. PromisesKept'
  BY DEF PromisesKept, LooseInForce
<1>5. Storing'
  <2>0. \A s \in Snap : live'[s] = live[s] /\ possible'[s] = possible[s]
    <3>1. \A s \in Snap : s \in Path \ {DirOf[h]}
      OBVIOUS
    <3> QED BY <3>1 DEF TypeOK
  <2>1. Claimed' = Claimed
    BY <2>0 DEF Claimed, Maybe
  <2>2. \A g \in Chunk : Present(g) => Present(g)' /\ DirOf[g] # DirOf[h]
    BY DEF TypeOK, Present
  <2>3. \A s \in Claimed : \A g \in Refs[s] : Present(g)
    BY DEF Storing, LooseInForce, ClaimsHold
  <2>4. \A s \in Claimed : \A g \in Refs[s] : g \in Chunk
    BY DEF Claimed
  <2>5. \A s \in Claimed' : \A g \in Refs[s] : DirOf[g] # DirOf[h]
    BY <2>1, <2>2, <2>3, <2>4
  <2> QED BY <2>2, <2>5 DEF TypeOK, Storing
<1>6. Pruning'
  BY DEF Pruning
<1>7. Compacting'
  BY DEF Compacting
<1> QED BY <1>1, <1>2, <1>3, <1>4, <1>5, <1>6, <1>7

LEMMA SyncDirectoriesOK ==
  ASSUME DurabilityAssumption, DurabilityInv, SyncDirectories
  PROVE  DurabilityInv'
<1> USE DEF DurabilityAssumption, DurabilityInv, SyncDirectories, Sync, Goto, Path, Object,
            root
<1>1. TypeOK'
  BY DEF TypeOK
<1>2. Flushed'
  BY DEF TypeOK, Flushed, InFlight, FilesIn, Storing
<1>3. ClaimsHold'
  BY DEF ClaimsHold, LooseInForce, Claimed, Maybe, Present
<1>4. PromisesKept'
  BY DEF PromisesKept, LooseInForce
<1>5. Storing'
  BY DEF Storing, Present
<1>6. Pruning'
  BY DEF Pruning
<1>7. Compacting'
  BY DEF Compacting
<1> QED BY <1>1, <1>2, <1>3, <1>4, <1>5, <1>6, <1>7

LEMMA ReuseChunkOK ==
  ASSUME DurabilityAssumption, DurabilityInv, ReuseChunk
  PROVE  DurabilityInv'
<1> USE DEF DurabilityAssumption, DurabilityInv, ReuseChunk, Goto, entries, root, observers
<1>1. TypeOK'
  BY DEF TypeOK
<1>2. Flushed'
  BY DEF Flushed, InFlight
<1>3. ClaimsHold'
  BY DEF ClaimsHold, LooseInForce, Claimed, Maybe, Present
<1>4. PromisesKept'
  BY DEF PromisesKept, LooseInForce
<1>5. Storing'
  BY DEF Storing, Present
<1>6. Pruning'
  BY DEF Pruning
<1>7. Compacting'
  BY DEF Compacting
<1> QED BY <1>1, <1>2, <1>3, <1>4, <1>5, <1>6, <1>7

LEMMA LinkChunkOK ==
  ASSUME DurabilityAssumption, DurabilityInv, LinkChunk
  PROVE  DurabilityInv'
<1> USE DEF DurabilityAssumption, DurabilityInv, LinkChunk, SetEntry, Goto, Path, Object, root,
            observers
<1>1. TypeOK'
  BY DEF TypeOK
<1>2. Flushed'
  BY DEF TypeOK, Flushed, InFlight
<1>3. ClaimsHold'
  <2>1. cur \in Chunk
    BY DEF Storing
  <2>2. \A s \in Snap : live'[s] = live[s] /\ possible'[s] = possible[s]
    <3>1. \A s \in Snap : s \in Path \ {cur}
      BY <2>1
    <3> QED BY <3>1 DEF TypeOK
  <2>3. Claimed' = Claimed
    BY <2>2 DEF Claimed, Maybe
  <2>4. \A g \in Chunk : Present(g) => Present(g)'
    BY <2>1 DEF TypeOK, Present
  <2>5. LooseInForce /\ \A s \in Claimed : \A g \in Refs[s] : g \in Chunk
    BY DEF Storing, LooseInForce, Claimed
  <2> QED BY <2>3, <2>4, <2>5 DEF ClaimsHold
<1>4. PromisesKept'
  BY DEF PromisesKept, LooseInForce
<1>5. Storing'
  <2>1. cur \in Chunk
    BY DEF Storing
  <2>0. \A s \in Snap : live'[s] = live[s] /\ possible'[s] = possible[s]
    <3>1. \A s \in Snap : s \in Path \ {cur}
      BY <2>1
    <3> QED BY <3>1 DEF TypeOK
  <2>2. Claimed' = Claimed
    BY <2>0 DEF Claimed, Maybe
  <2>3. \A g \in Chunk : Present(g) => Present(g)' /\ g # cur
    BY <2>1 DEF TypeOK, Present
  <2>4. \A s \in Claimed : \A g \in Refs[s] : Present(g)
    BY DEF Storing, LooseInForce, ClaimsHold
  <2>5. \A s \in Claimed : \A g \in Refs[s] : g \in Chunk
    BY DEF Claimed
  <2>6. \A s \in Claimed' : cur \notin Refs[s]
    BY <2>2, <2>3, <2>4, <2>5
  <2> QED BY <2>1, <2>3, <2>6 DEF TypeOK, Storing
<1>6. Pruning'
  BY DEF Pruning
<1>7. Compacting'
  BY DEF Compacting
<1> QED BY <1>1, <1>2, <1>3, <1>4, <1>5, <1>6, <1>7

LEMMA SyncChunkOK ==
  ASSUME DurabilityAssumption, DurabilityInv, SyncChunk
  PROVE  DurabilityInv'
<1> USE DEF DurabilityAssumption, DurabilityInv, SyncChunk, Sync, Goto, Path, Object, root
<1>1. TypeOK'
  BY DEF TypeOK
<1>2. Flushed'
  BY DEF TypeOK, Flushed, InFlight, FilesIn, Storing
<1>3. ClaimsHold'
  BY DEF ClaimsHold, LooseInForce, Claimed, Maybe, Present
<1>4. PromisesKept'
  BY DEF PromisesKept, LooseInForce
<1>5. Storing'
  BY DEF Storing, Present
<1>6. Pruning'
  BY DEF Pruning
<1>7. Compacting'
  BY DEF Compacting
<1> QED BY <1>1, <1>2, <1>3, <1>4, <1>5, <1>6, <1>7

LEMMA KeepManifestOK ==
  ASSUME DurabilityAssumption, DurabilityInv, KeepManifest
  PROVE  DurabilityInv'
<1> USE DEF DurabilityAssumption, DurabilityInv, KeepManifest, Stored, End, Halt, entries, root
<1>1. TypeOK'
  BY DEF TypeOK, Storing
<1>2. Flushed'
  BY DEF Flushed, InFlight
<1>3. ClaimsHold'
  BY DEF ClaimsHold, LooseInForce, Claimed, Maybe, Present, Storing
<1>4. PromisesKept'
  BY DEF PromisesKept, LooseInForce, Storing
<1>5. Storing'
  BY DEF Storing
<1>6. Pruning'
  BY DEF Pruning
<1>7. Compacting'
  BY DEF Compacting
<1> QED BY <1>1, <1>2, <1>3, <1>4, <1>5, <1>6, <1>7

LEMMA LinkManifestOK ==
  ASSUME DurabilityAssumption, DurabilityInv, LinkManifest
  PROVE  DurabilityInv'
<1> USE DEF DurabilityAssumption, DurabilityInv, LinkManifest, SetEntry, Goto, Path, Object,
            root, observers
<1>1. TypeOK'
  BY DEF TypeOK
<1>2. Flushed'
  BY DEF TypeOK, Flushed, InFlight
<1>3. ClaimsHold'
  BY DEF TypeOK, ClaimsHold, LooseInForce, Claimed, Maybe, Present, Storing
<1>4. PromisesKept'
  BY DEF PromisesKept, LooseInForce
<1>5. Storing'
  BY DEF TypeOK, Storing, LooseInForce, Present, PromisesKept
<1>6. Pruning'
  BY DEF Pruning
<1>7. Compacting'
  BY DEF Compacting
<1> QED BY <1>1, <1>2, <1>3, <1>4, <1>5, <1>6, <1>7

LEMMA SyncManifestOK ==
  ASSUME DurabilityAssumption, DurabilityInv, SyncManifest
  PROVE  DurabilityInv'
<1> USE DEF DurabilityAssumption, DurabilityInv, SyncManifest, Sync, Stored, End, Halt, Path,
            Object, root
<1>1. TypeOK'
  BY DEF TypeOK, Storing
<1>2. Flushed'
  BY DEF TypeOK, Flushed, InFlight, FilesIn, Storing
<1>3. ClaimsHold'
  BY DEF ClaimsHold, LooseInForce, Claimed, Maybe, Present, Storing
<1>4. PromisesKept'
  BY DEF PromisesKept, LooseInForce, Storing
<1>5. Storing'
  BY DEF Storing
<1>6. Pruning'
  BY DEF Pruning
<1>7. Compacting'
  BY DEF Compacting
<1> QED BY <1>1, <1>2, <1>3, <1>4, <1>5, <1>6, <1>7

-----------------------------------------------------------------------------
(***************************************************************************)
(* prune on a loose repository.                                            *)
(***************************************************************************)

LEMMA PruneOK ==
  ASSUME DurabilityAssumption, DurabilityInv, NEW R \in SUBSET Snap, Prune(R)
  PROVE  DurabilityInv'
<1> USE DEF DurabilityAssumption, DurabilityInv, Prune, Referred, Complete, Goto, Object,
            entries, root
<1>1. TypeOK'
  BY DEF TypeOK, Manifests, Loose
<1>2. Flushed'
  BY DEF Flushed, InFlight
<1>3. ClaimsHold'
  BY DEF ClaimsHold, LooseInForce, Claimed, Maybe, Present
<1>4. PromisesKept'
  BY DEF PromisesKept, Manifests
<1>5. Storing'
  BY DEF Storing
<1>6. Pruning'
  BY DEF Pruning, Manifests, Loose
<1>7. Compacting'
  BY DEF Compacting
<1> QED BY <1>1, <1>2, <1>3, <1>4, <1>5, <1>6, <1>7

LEMMA UnlinkManifestOK ==
  ASSUME DurabilityAssumption, DurabilityInv, NEW s \in Snap, UnlinkManifest(s)
  PROVE  DurabilityInv'
<1> USE DEF DurabilityAssumption, DurabilityInv, UnlinkManifest, Unlink, SetEntry, Path, Object,
            root, observers
<1>1. TypeOK'
  BY DEF TypeOK
<1>2. Flushed'
  <2>1. live'[s] = FALSE /\ \A p \in Path \ {s} : live'[p] = live[p] /\ possible'[p] = possible[p]
    BY DEF TypeOK
  <2>2. ASSUME NEW p \in Path \ unsure, p # s PROVE possible'[p] = {live'[p]} \/ InFlight(p)'
    BY <2>1, <2>2 DEF Flushed, InFlight
  <2>3. InFlight(s)'
    BY <2>1 DEF InFlight
  <2> QED BY <2>2, <2>3 DEF Flushed
<1>3. ClaimsHold'
  <2>1. live[s] /\ LooseInForce
    BY DEF Pruning, Manifests, LooseInForce
  <2>2. \A p \in Path \ {s} : live'[p] = live[p] /\ possible'[p] = possible[p]
    BY DEF TypeOK
  <2>3. Claimed' \subseteq Claimed
    BY <2>1, <2>2 DEF Claimed, Maybe
  <2>4. \A g \in Chunk : Present(g)' <=> Present(g)
    BY <2>2 DEF Present
  <2>5. \A t \in Claimed : \A g \in Refs[t] : g \in Chunk
    BY DEF Claimed
  <2> QED BY <2>1, <2>3, <2>4, <2>5 DEF ClaimsHold
<1>4. PromisesKept'
  BY DEF PromisesKept, LooseInForce, Pruning
<1>5. Storing'
  BY DEF Storing
<1>6. Pruning'
  BY DEF TypeOK, Pruning, Manifests
<1>7. Compacting'
  BY DEF Compacting
<1> QED BY <1>1, <1>2, <1>3, <1>4, <1>5, <1>6, <1>7

LEMMA SyncRemovalsOK ==
  ASSUME DurabilityAssumption, DurabilityInv, SyncRemovals
  PROVE  DurabilityInv'
<1> USE DEF DurabilityAssumption, DurabilityInv, SyncRemovals, Sync, Goto, Path, Object, root
<1>1. TypeOK'
  BY DEF TypeOK
<1>2. Flushed'
  BY DEF Flushed, InFlight
<1>3. ClaimsHold'
  BY DEF ClaimsHold, LooseInForce, Claimed, Maybe, Present
<1>4. PromisesKept'
  BY DEF PromisesKept, LooseInForce
<1>5. Storing'
  BY DEF Storing
<1>6. Pruning'
  BY DEF TypeOK, Pruning, Manifests
<1>7. Compacting'
  BY DEF Compacting
<1> QED BY <1>1, <1>2, <1>3, <1>4, <1>5, <1>6, <1>7

LEMMA UnlinkChunkOK ==
  ASSUME DurabilityAssumption, DurabilityInv, NEW h \in Chunk, UnlinkChunk(h)
  PROVE  DurabilityInv'
<1> USE DEF DurabilityAssumption, DurabilityInv, UnlinkChunk, Unlink, SetEntry, Goto, Path,
            Object, entries, root, observers, operation
<1>1. TypeOK'
  BY DEF TypeOK
<1>2. Flushed'
  <2>1. live'[h] = FALSE /\ \A p \in Path \ {h} : live'[p] = live[p] /\ possible'[p] = possible[p]
    BY DEF TypeOK
  <2>2. ASSUME NEW p \in Path \ unsure, p # h PROVE possible'[p] = {live'[p]} \/ InFlight(p)'
    BY <2>1, <2>2 DEF Flushed, InFlight
  <2>3. InFlight(h)'
    BY <2>1 DEF InFlight, Pruning
  <2> QED BY <2>2, <2>3 DEF Flushed
<1>3. ClaimsHold'
  <2>1. LooseInForce
    BY DEF Pruning, LooseInForce
  <2>2. \A p \in Path \ {h} : live'[p] = live[p] /\ possible'[p] = possible[p]
    BY DEF TypeOK
  <2>3. Claimed' = Claimed
    BY <2>2 DEF Claimed, Maybe
  <2>4. \A s \in Claimed : live[s] /\ s \notin todo
    <3>1. \A s \in Snap : possible[s] = {live[s]}
      BY DEF Pruning
    <3>2. \A s \in Snap : s \notin todo
      BY DEF Pruning
    <3>3. \A s \in Snap : TRUE \in possible[s] => live[s]
      BY <3>1
    <3> QED BY <3>2, <3>3 DEF Claimed, Maybe
  <2>5. \A s \in Claimed : h \notin Refs[s] /\ \A g \in Refs[s] : g \in Chunk
    BY <2>4 DEF Claimed, Pruning, Manifests
  <2>6. \A g \in Chunk \ {h} : Present(g)' <=> Present(g)
    BY <2>2 DEF Present
  <2> QED BY <2>1, <2>3, <2>5, <2>6 DEF ClaimsHold
<1>4. PromisesKept'
  BY DEF TypeOK, PromisesKept, LooseInForce
<1>5. Storing'
  BY DEF Storing
<1>6. Pruning'
  <2>1. \A p \in Path \ {h} : live'[p] = live[p] /\ possible'[p] = possible[p]
    BY DEF TypeOK
  <2>2. \A s \in Snap : live'[s] = live[s] /\ possible'[s] = {live'[s]}
    <3>1. \A s \in Snap : s \in Path \ {h}
      OBVIOUS
    <3> QED BY <2>1, <3>1 DEF Pruning
  <2>3. \A s \in Manifests : s \notin todo
    BY DEF Pruning, Manifests
  <2>4. Manifests' = Manifests
    BY <2>2 DEF Manifests
  <2> QED BY <2>2, <2>3, <2>4 DEF Pruning
<1>7. Compacting'
  BY DEF Compacting
<1> QED BY <1>1, <1>2, <1>3, <1>4, <1>5, <1>6, <1>7

LEMMA BeginSyncingOK ==
  ASSUME DurabilityAssumption, DurabilityInv, BeginSyncing
  PROVE  DurabilityInv'
<1> USE DEF DurabilityAssumption, DurabilityInv, BeginSyncing, Goto, entries, root, observers
<1>1. TypeOK'
  BY DEF TypeOK
<1>2. Flushed'
  BY DEF Flushed, InFlight
<1>3. ClaimsHold'
  BY DEF ClaimsHold, LooseInForce, Claimed, Maybe, Present
<1>4. PromisesKept'
  BY DEF PromisesKept, LooseInForce
<1>5. Storing'
  BY DEF Storing
<1>6. Pruning'
  BY DEF Pruning
<1>7. Compacting'
  BY DEF Compacting
<1> QED BY <1>1, <1>2, <1>3, <1>4, <1>5, <1>6, <1>7

LEMMA SyncParentOK ==
  ASSUME DurabilityAssumption, DurabilityInv, NEW d \in Dir, SyncParent(d)
  PROVE  DurabilityInv'
<1> USE DEF DurabilityAssumption, DurabilityInv, SyncParent, Sync, Path, Object, root
<1>1. TypeOK'
  BY DEF TypeOK
<1>2. Flushed'
  BY DEF Flushed, InFlight, FilesIn
<1>3. ClaimsHold'
  BY DEF ClaimsHold, LooseInForce, Claimed, Maybe, Present
<1>4. PromisesKept'
  BY DEF PromisesKept, LooseInForce
<1>5. Storing'
  BY DEF Storing
<1>6. Pruning'
  BY DEF Pruning
<1>7. Compacting'
  BY DEF Compacting
<1> QED BY <1>1, <1>2, <1>3, <1>4, <1>5, <1>6, <1>7

LEMMA EndPruneOK ==
  ASSUME DurabilityAssumption, DurabilityInv, EndPrune
  PROVE  DurabilityInv'
<1> USE DEF DurabilityAssumption, DurabilityInv, EndPrune, End, Halt, entries, root, observers
<1>1. TypeOK'
  BY DEF TypeOK
<1>2. Flushed'
  BY DEF Flushed, InFlight
<1>3. ClaimsHold'
  BY DEF ClaimsHold, LooseInForce, Claimed, Maybe, Present
<1>4. PromisesKept'
  BY DEF PromisesKept, LooseInForce
<1>5. Storing'
  BY DEF Storing
<1>6. Pruning'
  BY DEF Pruning
<1>7. Compacting'
  BY DEF Compacting
<1> QED BY <1>1, <1>2, <1>3, <1>4, <1>5, <1>6, <1>7

-----------------------------------------------------------------------------
(***************************************************************************)
(* compact.                                                                *)
(***************************************************************************)

LEMMA CompactOK ==
  ASSUME DurabilityAssumption, DurabilityInv, Compact
  PROVE  DurabilityInv'
<1> USE DEF DurabilityAssumption, DurabilityInv, Compact, Complete, Goto, Object, entries,
            observers
<1>1. TypeOK'
  BY DEF TypeOK, Manifests, Loose
<1>2. Flushed'
  BY DEF Flushed, InFlight
<1>3. ClaimsHold'
  BY DEF ClaimsHold, LooseInForce, Claimed, Maybe, Present
<1>4. PromisesKept'
  BY DEF PromisesKept, LooseInForce
<1>5. Storing'
  BY DEF Storing
<1>6. Pruning'
  BY DEF Pruning
<1>7. Compacting'
  BY DEF Compacting, Manifests, Loose
<1> QED BY <1>1, <1>2, <1>3, <1>4, <1>5, <1>6, <1>7

LEMMA SyncDatabaseOK ==
  ASSUME DurabilityAssumption, DurabilityInv, SyncDatabase
  PROVE  DurabilityInv'
<1> USE DEF DurabilityAssumption, DurabilityInv, SyncDatabase, SyncRoot, Goto, Path, Object,
            entries
<1>1. TypeOK'
  BY DEF TypeOK
<1>2. Flushed'
  BY DEF Flushed, InFlight
<1>3. ClaimsHold'
  BY DEF ClaimsHold, LooseInForce, Claimed, Maybe, Present
<1>4. PromisesKept'
  BY DEF PromisesKept, LooseInForce
<1>5. Storing'
  BY DEF Storing
<1>6. Pruning'
  BY DEF Pruning
<1>7. Compacting'
  BY DEF Compacting, Manifests, Loose
<1> QED BY <1>1, <1>2, <1>3, <1>4, <1>5, <1>6, <1>7

LEMMA SwitchConfigOK ==
  ASSUME DurabilityAssumption, DurabilityInv, SwitchConfig
  PROVE  DurabilityInv'
<1> USE DEF DurabilityAssumption, DurabilityInv, SwitchConfig, Goto, entries, observers
<1>1. TypeOK'
  BY DEF TypeOK
<1>2. Flushed'
  BY DEF Flushed, InFlight
<1>3. ClaimsHold'
  <2>1. Claimed' = Claimed /\ LooseInForce
    BY DEF Claimed, Maybe, LooseInForce, Compacting
  <2>2. \A h \in Chunk : Present(h)' <=> Present(h)
    BY DEF Present
  <2> QED BY <2>1, <2>2 DEF ClaimsHold, Claimed
<1>4. PromisesKept'
  BY DEF TypeOK, PromisesKept, LooseInForce, Compacting, ClaimsHold, Claimed, Present, Manifests,
         Loose
<1>5. Storing'
  BY DEF Storing
<1>6. Pruning'
  BY DEF Pruning
<1>7. Compacting'
  BY DEF Compacting, Manifests, Loose
<1> QED BY <1>1, <1>2, <1>3, <1>4, <1>5, <1>6, <1>7

LEMMA ConfirmSwitchOK ==
  ASSUME DurabilityAssumption, DurabilityInv, ConfirmSwitch
  PROVE  DurabilityInv'
<1> USE DEF DurabilityAssumption, DurabilityInv, ConfirmSwitch, SyncRoot, BeginClear, Goto,
            Path, Object, entries
<1>1. TypeOK'
  BY DEF TypeOK, Manifests, Loose
<1>2. Flushed'
  BY DEF Flushed, InFlight
<1>3. ClaimsHold'
  BY DEF ClaimsHold, LooseInForce, Claimed, Maybe, Present
<1>4. PromisesKept'
  BY DEF PromisesKept, Compacting, Manifests, Loose
<1>5. Storing'
  BY DEF Storing
<1>6. Pruning'
  BY DEF Pruning
<1>7. Compacting'
  BY DEF Compacting
<1> QED BY <1>1, <1>2, <1>3, <1>4, <1>5, <1>6, <1>7

LEMMA RecompactOK ==
  ASSUME DurabilityAssumption, DurabilityInv, Recompact
  PROVE  DurabilityInv'
<1> USE DEF DurabilityAssumption, DurabilityInv, Recompact, BeginClear, Goto, Object, entries,
            root, observers
<1>1. TypeOK'
  BY DEF TypeOK, Manifests, Loose
<1>2. Flushed'
  BY DEF Flushed, InFlight
<1>3. ClaimsHold'
  BY DEF ClaimsHold, LooseInForce
<1>4. PromisesKept'
  BY DEF PromisesKept, LooseInForce
<1>5. Storing'
  BY DEF Storing
<1>6. Pruning'
  BY DEF Pruning
<1>7. Compacting'
  BY DEF Compacting
<1> QED BY <1>1, <1>2, <1>3, <1>4, <1>5, <1>6, <1>7

LEMMA ClearChunkOK ==
  ASSUME DurabilityAssumption, DurabilityInv, NEW h \in Chunk, ClearChunk(h)
  PROVE  DurabilityInv'
<1> USE DEF DurabilityAssumption, DurabilityInv, ClearChunk, Unlink, SetEntry, Goto, Path,
            Object, entries, root, observers, operation
<1>1. TypeOK'
  BY DEF TypeOK
<1>2. Flushed'
  <2>1. \A p \in Path \ {h} : live'[p] = live[p] /\ possible'[p] = possible[p]
    BY DEF TypeOK
  <2>2. ASSUME NEW p \in Path \ unsure, p # h PROVE possible'[p] = {live'[p]} \/ InFlight(p)'
    BY <2>1, <2>2 DEF Flushed, InFlight
  <2>3. InFlight(h)'
    BY DEF InFlight
  <2> QED BY <2>2, <2>3 DEF Flushed
<1>3. ClaimsHold'
  <2>1. ~LooseInForce'
    BY DEF LooseInForce, Compacting
  <2> QED BY <2>1 DEF ClaimsHold
<1>4. PromisesKept'
  BY DEF PromisesKept, LooseInForce, Compacting
<1>5. Storing'
  BY DEF Storing
<1>6. Pruning'
  BY DEF Pruning
<1>7. Compacting'
  BY DEF Compacting
<1> QED BY <1>1, <1>2, <1>3, <1>4, <1>5, <1>6, <1>7

LEMMA SyncClearedOK ==
  ASSUME DurabilityAssumption, DurabilityInv, NEW d \in Dir, SyncCleared(d)
  PROVE  DurabilityInv'
<1> USE DEF DurabilityAssumption, DurabilityInv, SyncCleared, Sync, Path, Object, root
<1>1. TypeOK'
  BY DEF TypeOK
<1>2. Flushed'
  BY DEF Flushed, InFlight, FilesIn
<1>3. ClaimsHold'
  BY DEF ClaimsHold, LooseInForce, Claimed, Maybe, Present
<1>4. PromisesKept'
  BY DEF PromisesKept, LooseInForce
<1>5. Storing'
  BY DEF Storing
<1>6. Pruning'
  BY DEF Pruning
<1>7. Compacting'
  BY DEF Compacting
<1> QED BY <1>1, <1>2, <1>3, <1>4, <1>5, <1>6, <1>7

LEMMA ClearManifestOK ==
  ASSUME DurabilityAssumption, DurabilityInv, NEW s \in Snap, ClearManifest(s)
  PROVE  DurabilityInv'
<1> USE DEF DurabilityAssumption, DurabilityInv, ClearManifest, Unlink, SetEntry, root,
            observers
<1>1. TypeOK'
  BY DEF TypeOK
<1>2. Flushed'
  <2>1. \A p \in Path \ {s} : live'[p] = live[p] /\ possible'[p] = possible[p]
    BY DEF TypeOK
  <2>2. ASSUME NEW p \in Path \ unsure, p # s PROVE possible'[p] = {live'[p]} \/ InFlight(p)'
    BY <2>1, <2>2 DEF Flushed, InFlight
  <2>3. InFlight(s)'
    BY DEF InFlight
  <2> QED BY <2>2, <2>3 DEF Flushed
<1>3. ClaimsHold'
  <2>1. ~LooseInForce'
    BY DEF LooseInForce, Compacting
  <2> QED BY <2>1 DEF ClaimsHold
<1>4. PromisesKept'
  BY DEF PromisesKept, LooseInForce, Compacting
<1>5. Storing'
  BY DEF Storing
<1>6. Pruning'
  BY DEF Pruning
<1>7. Compacting'
  BY DEF Compacting
<1> QED BY <1>1, <1>2, <1>3, <1>4, <1>5, <1>6, <1>7

LEMMA SyncEmptiedOK ==
  ASSUME DurabilityAssumption, DurabilityInv, SyncEmptied
  PROVE  DurabilityInv'
<1> USE DEF DurabilityAssumption, DurabilityInv, SyncEmptied, Sync, Goto, Path, Object, root
<1>1. TypeOK'
  BY DEF TypeOK
<1>2. Flushed'
  BY DEF Flushed, InFlight
<1>3. ClaimsHold'
  BY DEF ClaimsHold, LooseInForce, Claimed, Maybe, Present
<1>4. PromisesKept'
  BY DEF PromisesKept, LooseInForce
<1>5. Storing'
  BY DEF Storing
<1>6. Pruning'
  BY DEF Pruning
<1>7. Compacting'
  BY DEF Compacting
<1> QED BY <1>1, <1>2, <1>3, <1>4, <1>5, <1>6, <1>7

LEMMA SyncCleanupOK ==
  ASSUME DurabilityAssumption, DurabilityInv, SyncCleanup
  PROVE  DurabilityInv'
<1> USE DEF DurabilityAssumption, DurabilityInv, SyncCleanup, Sync, Goto, Path, Object, root
<1>1. TypeOK'
  BY DEF TypeOK
<1>2. Flushed'
  BY DEF Flushed, InFlight
<1>3. ClaimsHold'
  BY DEF ClaimsHold, LooseInForce, Claimed, Maybe, Present
<1>4. PromisesKept'
  BY DEF PromisesKept, LooseInForce
<1>5. Storing'
  BY DEF Storing
<1>6. Pruning'
  BY DEF Pruning
<1>7. Compacting'
  BY DEF Compacting
<1> QED BY <1>1, <1>2, <1>3, <1>4, <1>5, <1>6, <1>7

LEMMA EndCompactOK ==
  ASSUME DurabilityAssumption, DurabilityInv, EndCompact
  PROVE  DurabilityInv'
<1> USE DEF DurabilityAssumption, DurabilityInv, EndCompact, SyncRoot, End, Halt, Path, Object,
            entries
<1>1. TypeOK'
  BY DEF TypeOK
<1>2. Flushed'
  BY DEF Flushed, InFlight
<1>3. ClaimsHold'
  <2>1. ~LooseInForce'
    BY DEF LooseInForce, Compacting
  <2> QED BY <2>1 DEF ClaimsHold
<1>4. PromisesKept'
  BY DEF PromisesKept, LooseInForce
<1>5. Storing'
  BY DEF Storing
<1>6. Pruning'
  BY DEF Pruning
<1>7. Compacting'
  BY DEF Compacting
<1> QED BY <1>1, <1>2, <1>3, <1>4, <1>5, <1>6, <1>7

-----------------------------------------------------------------------------
(***************************************************************************)
(* The same on a packed repository.                                        *)
(***************************************************************************)

LEMMA StorePackedOK ==
  ASSUME DurabilityAssumption, DurabilityInv, NEW s \in Snap, StorePacked(s)
  PROVE  DurabilityInv'
<1> USE DEF DurabilityAssumption, DurabilityInv, StorePacked, CommitRows, Path, Object, entries,
            operation
<1>1. TypeOK'
  BY DEF TypeOK
<1>2. Flushed'
  BY DEF Flushed, InFlight
<1>3. ClaimsHold'
  BY DEF ClaimsHold, LooseInForce
<1>4. PromisesKept'
  BY DEF PromisesKept, LooseInForce
<1>5. Storing'
  BY DEF Storing
<1>6. Pruning'
  BY DEF Pruning
<1>7. Compacting'
  BY DEF Compacting
<1> QED BY <1>1, <1>2, <1>3, <1>4, <1>5, <1>6, <1>7

LEMMA PrunePackedOK ==
  ASSUME DurabilityAssumption, DurabilityInv, NEW R \in SUBSET Snap, PrunePacked(R)
  PROVE  DurabilityInv'
<1> USE DEF DurabilityAssumption, DurabilityInv, PrunePacked, CommitRows, Complete, Referred,
            Path, Object, entries, operation
<1>1. TypeOK'
  BY DEF TypeOK
<1>2. Flushed'
  BY DEF Flushed, InFlight
<1>3. ClaimsHold'
  BY DEF ClaimsHold, LooseInForce
<1>4. PromisesKept'
  BY DEF PromisesKept, LooseInForce
<1>5. Storing'
  BY DEF Storing
<1>6. Pruning'
  BY DEF Pruning
<1>7. Compacting'
  BY DEF Compacting
<1> QED BY <1>1, <1>2, <1>3, <1>4, <1>5, <1>6, <1>7

-----------------------------------------------------------------------------
(***************************************************************************)
(* Failures.                                                               *)
(***************************************************************************)

LEMMA InterruptOK ==
  ASSUME DurabilityAssumption, DurabilityInv, Interrupt
  PROVE  DurabilityInv'
<1> USE DEF DurabilityAssumption, DurabilityInv, Interrupt, Unsynced, Fail, Halt, Path, Object,
            entries, root
<1>1. TypeOK'
  BY DEF TypeOK
<1>2. Flushed'
  BY DEF Flushed
<1>3. ClaimsHold'
  <2>1. \A s \in Snap : s \notin unsure' => possible[s] = {live[s]}
    OBVIOUS
  <2>2. Claimed' \subseteq Claimed
    BY <2>1 DEF Claimed, Maybe
  <2>3. \A h \in Chunk : Present(h)' <=> Present(h)
    BY DEF Present
  <2>4. LooseInForce' => LooseInForce
    BY DEF LooseInForce
  <2>5. \A s \in Claimed : \A h \in Refs[s] : h \in Chunk
    BY DEF Claimed
  <2> QED BY <2>2, <2>3, <2>4, <2>5 DEF ClaimsHold
<1>4. PromisesKept'
  BY DEF PromisesKept, LooseInForce
<1>5. Storing'
  BY DEF Storing
<1>6. Pruning'
  BY DEF Pruning
<1>7. Compacting'
  BY DEF Compacting
<1> QED BY <1>1, <1>2, <1>3, <1>4, <1>5, <1>6, <1>7

LEMMA PowerFailureOK ==
  ASSUME DurabilityAssumption, DurabilityInv, PowerFailure
  PROVE  DurabilityInv'
<1> USE DEF DurabilityAssumption, DurabilityInv, PowerFailure, Fail, Halt, Path, Object
<1>1. TypeOK'
  BY DEF TypeOK
<1>2. Flushed'
  BY DEF Flushed
<1>3. ClaimsHold'
  <2>1. PICK found \in [Path -> BOOLEAN] :
            /\ \A p \in Path : found[p] \in possible[p]
            /\ live' = [p \in Path |-> found[p] /\ (p \in Chunk => found[DirOf[p]])]
    OBVIOUS
  <2> SUFFICES ASSUME config' = "v1", NEW s \in Claimed', NEW h \in Refs[s] PROVE Present(h)'
    BY DEF ClaimsHold, LooseInForce
  <2>2. s \in Snap /\ s \notin excused /\ ~Exposed(s) /\ live'[s] /\ h \in Chunk
    BY DEF Claimed, Maybe, TypeOK
  <2>3. TRUE \in possible[s]
    BY <2>1, <2>2
  <2>4. ChunkSurely(h)
    BY <2>2, <2>3, ExposesNothing DEF PublishedComplete, LooseComplete, Maybe
  <2>5. found[h] /\ found[DirOf[h]]
    BY <2>1, <2>2, <2>4 DEF ChunkSurely, Surely
  <2> QED BY <2>1, <2>2, <2>5 DEF Present
<1>4. PromisesKept'
  <2>1. PICK found \in [Path -> BOOLEAN] :
            /\ \A p \in Path : found[p] \in possible[p]
            /\ live' = [p \in Path |-> found[p] /\ (p \in Chunk => found[DirOf[p]])]
    OBVIOUS
  <2>2. ASSUME NEW s \in returned' PROVE s \in Snap /\ s \in returned /\ ~Exposed(s) /\ Restorable(s)
    BY LosesNothing DEF ReturnedDurable, TypeOK
  <2>3. returned' \cap excused' = {}
    BY <2>2 DEF PromisesKept
  <2>4. ASSUME config' = "v1", NEW s \in returned' PROVE live'[s]
    BY <2>1, <2>2, <2>4 DEF Restorable, Surely
  <2>5. ASSUME config' = "v2", NEW s \in returned' PROVE {s} \cup Refs[s] \subseteq database'
    BY <2>2, <2>5 DEF Restorable
  <2>6. pc' = "idle"
    OBVIOUS
  <2> QED BY <2>3, <2>4, <2>5, <2>6 DEF PromisesKept, LooseInForce
<1>5. Storing'
  BY DEF Storing
<1>6. Pruning'
  BY DEF Pruning
<1>7. Compacting'
  BY DEF Compacting
<1> QED BY <1>1, <1>2, <1>3, <1>4, <1>5, <1>6, <1>7

-----------------------------------------------------------------------------
(***************************************************************************)
(* The invariant holds always.                                             *)
(***************************************************************************)

LEMMA DurabilityInit ==
  ASSUME DurabilityAssumption, Init
  PROVE  DurabilityInv
<1> USE DEF Init
<1>1. TypeOK /\ Flushed
  BY DEF DurabilityAssumption, TypeOK, Flushed, Path, Object
<1>2. Claimed = {}
  BY DEF Claimed, Maybe, Path, Object
<1> QED BY <1>1, <1>2 DEF DurabilityInv, ClaimsHold, PromisesKept, Storing, Pruning, Compacting

LEMMA DurabilityStep ==
  ASSUME DurabilityAssumption, DurabilityInv, [Next]_vars
  PROVE  DurabilityInv'
<1>1. CASE UNCHANGED vars
  <2>1. TypeOK' /\ Flushed'
    BY <1>1 DEF vars, DurabilityInv, TypeOK, Flushed, InFlight
  <2>2. ClaimsHold' /\ PromisesKept'
    BY <1>1 DEF vars, DurabilityInv, ClaimsHold, PromisesKept, Claimed, Maybe, LooseInForce, Present
  <2>3. Storing' /\ Pruning' /\ Compacting'
    BY <1>1 DEF vars, DurabilityInv, Storing, Pruning, Compacting, Claimed, Maybe, Present,
                Manifests, Loose
  <2> QED BY <2>1, <2>2, <2>3 DEF DurabilityInv
<1>2. CASE \E s \in Snap : Store(s) \/ UnlinkManifest(s) \/ ClearManifest(s) \/ StorePacked(s)
  BY <1>2, StoreOK, UnlinkManifestOK, ClearManifestOK, StorePackedOK
<1>3. CASE \E h \in Chunk : FindDirectory(h) \/ MakeDirectory(h) \/ UnlinkChunk(h) \/ ClearChunk(h)
  BY <1>3, FindDirectoryOK, MakeDirectoryOK, UnlinkChunkOK, ClearChunkOK
<1>4. CASE \E d \in Dir : SyncParent(d) \/ SyncCleared(d)
  BY <1>4, SyncParentOK, SyncClearedOK
<1>5. CASE \E R \in SUBSET Snap : Prune(R) \/ PrunePacked(R)
  BY <1>5, PruneOK, PrunePackedOK
<1>6. CASE SyncDirectories \/ ReuseChunk \/ LinkChunk \/ SyncChunk \/ KeepManifest \/ LinkManifest
           \/ SyncManifest
  BY <1>6, SyncDirectoriesOK, ReuseChunkOK, LinkChunkOK, SyncChunkOK, KeepManifestOK,
     LinkManifestOK, SyncManifestOK
<1>7. CASE SyncRemovals \/ BeginSyncing \/ EndPrune
  BY <1>7, SyncRemovalsOK, BeginSyncingOK, EndPruneOK
<1>8. CASE Compact \/ SyncDatabase \/ SwitchConfig \/ ConfirmSwitch \/ Recompact \/ SyncEmptied
           \/ SyncCleanup \/ EndCompact
  BY <1>8, CompactOK, SyncDatabaseOK, SwitchConfigOK, ConfirmSwitchOK, RecompactOK, SyncEmptiedOK,
     SyncCleanupOK, EndCompactOK
<1>9. CASE Interrupt \/ PowerFailure
  BY <1>9, InterruptOK, PowerFailureOK
<1> QED BY <1>1, <1>2, <1>3, <1>4, <1>5, <1>6, <1>7, <1>8, <1>9 DEF Next

LEMMA AlwaysDurable == DurabilityAssumption => (Spec => []DurabilityInv)
<1> SUFFICES ASSUME DurabilityAssumption PROVE Spec => []DurabilityInv
  OBVIOUS
<1>1. Init => DurabilityInv
  BY DurabilityInit
<1>2. DurabilityInv /\ [Next]_vars => DurabilityInv'
  BY DurabilityStep
<1> QED BY <1>1, <1>2, PTL DEF Spec

-----------------------------------------------------------------------------
(***************************************************************************)
(* The theorems.                                                           *)
(***************************************************************************)

\* At no moment can a power failure expose a manifest without its chunks, but
\* for entries an interrupted operation left unsynced (the fsyncs of
\* _publish_file, _chunk_path, prune and compact in snapshot.py).
THEOREM Published == DurabilityAssumption => (Spec => []PublishedComplete)
<1> SUFFICES ASSUME DurabilityAssumption PROVE Spec => []PublishedComplete
  OBVIOUS
<1>1. DurabilityInv => PublishedComplete
  BY ExposesNothing
<1> QED BY <1>1, AlwaysDurable, PTL

\* What create has returned for is there after a power failure at any moment,
\* in whatever format the repository comes back, under the same exception.
THEOREM Durable == DurabilityAssumption => (Spec => []ReturnedDurable)
<1> SUFFICES ASSUME DurabilityAssumption PROVE Spec => []ReturnedDurable
  OBVIOUS
<1>1. DurabilityInv => ReturnedDurable
  BY LosesNothing
<1> QED BY <1>1, AlwaysDurable, PTL

------------------------------------------------------------------------------
(* The reading of the source.                                              *)
(* What a saved snapshot rests on.  The clock is never behind a change,    *)
(* and a file's past has what it holds now.                                *)
WorldSound ==
    /\ clock \in Nat /\ dirTime \in 0..clock
    /\ inodes \in Seq([chunks : [1..Chunks -> Nat], time : Nat])
    /\ pasts \in Seq(SUBSET [1..Chunks -> Nat])
    /\ Len(pasts) = Len(inodes)
    /\ dir \in [SourceNames -> 0..Len(inodes)]
    /\ \A i \in 1..Len(inodes) : inodes[i].time <= clock /\ inodes[i].chunks \in pasts[i]

WalkSound ==
    /\ DOMAIN at = {"pc", "todo", "name", "before", "path", "dirBefore"}
    /\ at.todo \subseteq SourceNames
    /\ at.dirBefore \in 0..dirTime
    /\ at.pc \in {"open", "read"} => at.name \in SourceNames /\ at.path[1] # 0

\* What is recorded of a file is what it once held.
RecordSound ==
    /\ DOMAIN recorded \subseteq SourceNames
    /\ at.pc \in {"start", "scan"} => DOMAIN recorded = {}
    /\ \A n \in DOMAIN recorded : recorded[n][1] \in 1..Len(inodes) /\ recorded[n][2] \in pasts[recorded[n][1]]

(* The chunks read are those the file has, unless its time has changed     *)
(* since it was opened.                                                    *)
PrefixRead ==
    /\ got \in Seq(Nat)
    /\ at.pc = "read" =>
        /\ at.before[1] \in 1..Len(inodes) /\ at.before[2] \in Nat
        /\ at.before[2] <= inodes[at.before[1]].time
        /\ Len(got) <= Chunks
        /\ at.before[2] = inodes[at.before[1]].time => \A k \in 1..Len(got) : got[k] = inodes[at.before[1]].chunks[k]

(* The names to read, being read and recorded are those of the directory,  *)
(* unless its time has changed since the walk began.                       *)
NamesAccounted ==
    at.pc \in {"next", "open", "read", "saved"} /\ dirTime = at.dirBefore =>
        /\ at.todo \cup DOMAIN recorded \cup (IF at.pc \in {"open", "read"} THEN {at.name} ELSE {}) = {n \in SourceNames : dir[n] # 0}
        /\ \A n \in DOMAIN recorded : recorded[n][1] = dir[n]
        /\ at.pc = "saved" => at.todo = {}

ReadingInv == WorldSound /\ WalkSound /\ RecordSound /\ PrefixRead /\ NamesAccounted

LEMMA ElementFacts ==
  ASSUME NEW S, NEW s \in Seq(S)
  PROVE  Len(s) \in Nat /\ DOMAIN s = 1..Len(s) /\ \A i \in 1..Len(s) : s[i] \in S
OBVIOUS

LEMMA AppendFacts ==
  ASSUME NEW S, NEW s \in Seq(S), NEW e \in S
  PROVE  /\ Append(s, e) \in Seq(S) /\ Len(Append(s, e)) = Len(s) + 1 /\ Append(s, e)[Len(s) + 1] = e
         /\ \A i \in 1..Len(s) : Append(s, e)[i] = s[i]
OBVIOUS

LEMMA OneElement ==
  ASSUME NEW S, NEW e \in S
  PROVE  <<e>> \in Seq(S) /\ Len(<<e>>) = 1 /\ <<e>>[1] = e
OBVIOUS

LEMMA FileFacts ==
  ASSUME WorldSound, NEW i \in 1..Len(inodes)
  PROVE  /\ inodes[i] \in [chunks : [1..Chunks -> Nat], time : Nat]
         /\ inodes[i].chunks \in [1..Chunks -> Nat] /\ inodes[i].time \in Nat
         /\ inodes[i].time <= clock /\ inodes[i].chunks \in pasts[i]
         /\ pasts[i] \in SUBSET [1..Chunks -> Nat]
         /\ Len(inodes) \in Nat /\ Len(pasts) = Len(inodes)
         /\ DOMAIN inodes = 1..Len(inodes) /\ DOMAIN pasts = 1..Len(inodes)
<1>1. inodes \in Seq([chunks : [1..Chunks -> Nat], time : Nat]) /\ pasts \in Seq(SUBSET [1..Chunks -> Nat]) /\ Len(pasts) = Len(inodes)
  BY DEF WorldSound
<1>2. inodes[i] \in [chunks : [1..Chunks -> Nat], time : Nat] /\ DOMAIN inodes = 1..Len(inodes) /\ Len(inodes) \in Nat
  BY <1>1, ElementFacts
<1>3. pasts[i] \in SUBSET [1..Chunks -> Nat] /\ DOMAIN pasts = 1..Len(inodes)
  BY <1>1, ElementFacts
<1> QED
  BY <1>1, <1>2, <1>3 DEF WorldSound

LEMMA ReadingStarts ==
  ASSUME ReadingAssumption, ReadingInit
  PROVE  ReadingInv
<1>1. New(0) \in [chunks : [1..Chunks -> Nat], time : Nat] /\ New(0).chunks \in [1..Chunks -> Nat] /\ New(0).time = 0
  BY DEF New, ReadingAssumption
<1>2. /\ inodes \in Seq([chunks : [1..Chunks -> Nat], time : Nat]) /\ Len(inodes) = 1 /\ inodes[1] = New(0)
      /\ pasts \in Seq(SUBSET [1..Chunks -> Nat]) /\ Len(pasts) = 1 /\ pasts[1] = {New(0).chunks}
  <2>1. {New(0).chunks} \in SUBSET [1..Chunks -> Nat] /\ inodes = <<New(0)>> /\ pasts = <<{New(0).chunks}>>
    BY <1>1 DEF ReadingInit
  <2> QED
    BY <1>1, <2>1, OneElement
<1>3. dir \in [SourceNames -> 0..Len(inodes)] /\ clock = 0 /\ dirTime = 0
  <2>1. {0, 1} = 0..1
    OBVIOUS
  <2> QED
    BY <1>2, <2>1 DEF ReadingInit
<1>4. WorldSound
  BY <1>1, <1>2, <1>3 DEF WorldSound
<1>5. at = [pc |-> "start", todo |-> {}, name |-> "", before |-> <<>>, path |-> <<>>, dirBefore |-> 0] /\ recorded = <<>> /\ got = <<>>
  BY DEF ReadingInit
<1>6. WalkSound
  <2>1. DOMAIN at = {"pc", "todo", "name", "before", "path", "dirBefore"}
    BY <1>5
  <2>2. at.pc = "start" /\ at.todo = {} /\ at.dirBefore = 0
    BY <1>5
  <2> QED
    BY <1>3, <2>1, <2>2 DEF WalkSound
<1>7. DOMAIN recorded = {} /\ got \in Seq(Nat)
  <2>1. <<>> \in Seq(Nat) /\ Len(<<>>) = 0
    OBVIOUS
  <2>2. DOMAIN <<>> = {}
    OBVIOUS
  <2> QED
    BY <1>5, <2>1, <2>2
<1>8. RecordSound /\ PrefixRead /\ NamesAccounted
  BY <1>5, <1>7 DEF RecordSound, PrefixRead, NamesAccounted
<1> QED
  BY <1>4, <1>6, <1>8 DEF ReadingInv

(* Others change the source: a file, with a new time, or the directory.    *)
LEMMA OtherWritesSound ==
  ASSUME ReadingAssumption, ReadingInv, OtherWrites
  PROVE  ReadingInv'
<1> USE DEF ReadingInv, ReadingAssumption
<1>1. PICK n \in SourceNames, i \in 1..Chunks :
        /\ dir[n] # 0
        /\ inodes' = [inodes EXCEPT ![dir[n]] = [chunks |-> [@.chunks EXCEPT ![i] = clock'], time |-> clock']]
        /\ pasts' = [pasts EXCEPT ![dir[n]] = @ \cup {inodes'[dir[n]].chunks}]
  BY DEF OtherWrites
<1>2. clock' = clock + 1 /\ at' = at /\ got' = got /\ recorded' = recorded /\ dir' = dir /\ dirTime' = dirTime
  BY DEF OtherWrites, Tick
<1>3. dir[n] \in 1..Len(inodes) /\ clock \in Nat
  BY <1>1 DEF WorldSound
<1>4. [inodes[dir[n]].chunks EXCEPT ![i] = clock'] \in [1..Chunks -> Nat]
  <2>1. inodes[dir[n]].chunks \in [1..Chunks -> Nat]
    BY <1>3, FileFacts
  <2> QED
    BY <1>2, <1>3, <2>1
<1>5. /\ inodes' \in Seq([chunks : [1..Chunks -> Nat], time : Nat]) /\ Len(inodes') = Len(inodes)
      /\ inodes'[dir[n]].time = clock'
      /\ inodes'[dir[n]].chunks \in [1..Chunks -> Nat]
      /\ \A j \in 1..Len(inodes) : j # dir[n] => inodes'[j] = inodes[j]
  BY <1>1, <1>2, <1>3, <1>4 DEF WorldSound
<1>6. /\ pasts' \in Seq(SUBSET [1..Chunks -> Nat]) /\ Len(pasts') = Len(pasts)
      /\ inodes'[dir[n]].chunks \in pasts'[dir[n]]
      /\ \A j \in 1..Len(inodes) : pasts[j] \subseteq pasts'[j]
  <2> DEFINE more == pasts[dir[n]] \cup {inodes'[dir[n]].chunks}
  <2>1. pasts \in Seq(SUBSET [1..Chunks -> Nat]) /\ dir[n] \in 1..Len(pasts) /\ Len(pasts) = Len(inodes) /\ DOMAIN pasts = 1..Len(pasts)
    BY <1>3, FileFacts DEF WorldSound
  <2>2. more \in SUBSET [1..Chunks -> Nat] /\ pasts[dir[n]] \subseteq more /\ inodes'[dir[n]].chunks \in more
    BY <1>3, <1>5, FileFacts
  <2>3. pasts' = [pasts EXCEPT ![dir[n]] = more]
    BY <1>1
  <2> HIDE DEF more
  <2> QED
    BY <2>1, <2>2, <2>3
<1>7. WorldSound'
  <2>1. \A j \in 1..Len(inodes') : inodes'[j].time <= clock' /\ inodes'[j].chunks \in pasts'[j]
    <3> SUFFICES ASSUME NEW j \in 1..Len(inodes) PROVE inodes'[j].time <= clock' /\ inodes'[j].chunks \in pasts'[j]
      BY <1>5
    <3>1. inodes[j].time \in Nat /\ inodes[j].time <= clock /\ inodes[j].chunks \in pasts[j]
      BY FileFacts
    <3>2. CASE j = dir[n]
      BY <3>2, <1>2, <1>3, <1>5, <1>6
    <3>3. CASE j # dir[n]
      <4>1. inodes'[j] = inodes[j] /\ pasts[j] \subseteq pasts'[j]
        BY <3>3, <1>5, <1>6
      <4>2. inodes'[j].time <= clock'
        BY <3>1, <4>1, <1>2, <1>3
      <4> QED
        BY <3>1, <4>1, <4>2
    <3> QED
      BY <3>2, <3>3
  <2> QED
    BY <2>1, <1>2, <1>3, <1>5, <1>6 DEF WorldSound
<1>8. WalkSound' /\ NamesAccounted'
  BY <1>2 DEF WalkSound, NamesAccounted
<1>9. RecordSound'
  BY <1>2, <1>5, <1>6 DEF RecordSound
<1>10. PrefixRead'
  <2> SUFFICES ASSUME at.pc = "read" PROVE PrefixRead'
    BY <1>2 DEF PrefixRead
  <2>1. CASE at.before[1] = dir[n]
    <3>1. inodes[dir[n]].time <= clock /\ inodes[dir[n]].time \in Nat /\ inodes'[dir[n]].time = clock + 1
      BY <1>2, <1>3, <1>5, FileFacts
    <3>2. at.before[2] <= clock /\ at.before[2] \in Nat
      BY <2>1, <3>1, <1>3 DEF PrefixRead
    <3>3. at.before[2] # inodes'[at.before[1]].time /\ at.before[2] <= inodes'[at.before[1]].time
      BY <2>1, <1>3, <3>1, <3>2
    <3> QED
      BY <1>2, <1>5, <3>3 DEF PrefixRead
  <2>2. CASE at.before[1] # dir[n]
    BY <1>2, <1>5, <2>2 DEF PrefixRead
  <2> QED
    BY <2>1, <2>2
<1> QED
  BY <1>7, <1>8, <1>9, <1>10

LEMMA DirectoryChanges ==
  ASSUME ReadingInv, Tick, dirTime' = clock',
         Len(inodes') >= Len(inodes), \A j \in 1..Len(inodes) : inodes'[j] = inodes[j] /\ pasts[j] \subseteq pasts'[j], WorldSound'
  PROVE  ReadingInv'
<1>1. clock' = clock + 1 /\ at' = at /\ got' = got /\ recorded' = recorded /\ clock \in Nat /\ dirTime \in 0..clock
      /\ Len(inodes) \in Nat /\ Len(inodes') \in Nat
  BY DEF Tick, ReadingInv, WorldSound
<1>2. at.dirBefore < dirTime' /\ at.dirBefore \in Nat /\ at' = at
  BY <1>1 DEF ReadingInv, WalkSound
<1>3. WalkSound'
  BY <1>1, <1>2 DEF ReadingInv, WalkSound
<1>4. NamesAccounted'
  BY <1>1, <1>2 DEF NamesAccounted
<1>5. RecordSound'
  BY <1>1 DEF ReadingInv, RecordSound
<1>6. PrefixRead'
  <2> SUFFICES ASSUME at.pc = "read" PROVE PrefixRead'
    BY <1>1 DEF ReadingInv, PrefixRead
  <2>1. at.before[1] \in 1..Len(inodes) /\ at.before[1] \in 1..Len(inodes') /\ inodes'[at.before[1]] = inodes[at.before[1]]
    BY <1>1 DEF ReadingInv, PrefixRead
  <2> QED
    BY <1>1, <2>1 DEF ReadingInv, PrefixRead
<1> QED
  BY <1>3, <1>4, <1>5, <1>6 DEF ReadingInv

LEMMA OtherReplacesSound ==
  ASSUME ReadingAssumption, ReadingInv, OtherReplaces
  PROVE  ReadingInv'
<1>1. clock' = clock + 1 /\ clock \in Nat /\ dirTime' = clock'
  BY DEF OtherReplaces, Tick, ReadingInv, WorldSound
<1>2. New(clock') \in [chunks : [1..Chunks -> Nat], time : Nat] /\ New(clock').chunks \in [1..Chunks -> Nat] /\ New(clock').time = clock'
  BY <1>1 DEF New
<1>3. inodes' = Append(inodes, New(clock')) /\ pasts' = Append(pasts, {New(clock').chunks})
  BY DEF OtherReplaces
<1>4. PICK n \in SourceNames : dir' = [dir EXCEPT ![n] = Len(inodes) + 1]
  BY DEF OtherReplaces
<1>5. /\ inodes' \in Seq([chunks : [1..Chunks -> Nat], time : Nat]) /\ Len(inodes') = Len(inodes) + 1
      /\ pasts' \in Seq(SUBSET [1..Chunks -> Nat]) /\ Len(pasts') = Len(inodes')
      /\ \A j \in 1..Len(inodes) : inodes'[j] = inodes[j] /\ pasts'[j] = pasts[j]
      /\ inodes'[Len(inodes) + 1] = New(clock') /\ pasts'[Len(inodes) + 1] = {New(clock').chunks}
  BY <1>2, <1>3 DEF ReadingInv, WorldSound
<1>6. dir' \in [SourceNames -> 0..Len(inodes')]
  BY <1>4, <1>5 DEF ReadingInv, WorldSound
<1>7. \A j \in 1..Len(inodes') : inodes'[j].time <= clock' /\ inodes'[j].chunks \in pasts'[j]
  <2> SUFFICES ASSUME NEW j \in 1..Len(inodes') PROVE inodes'[j].time <= clock' /\ inodes'[j].chunks \in pasts'[j]
    OBVIOUS
  <2>1. CASE j = Len(inodes) + 1
    BY <2>1, <1>1, <1>2, <1>5
  <2>2. CASE j \in 1..Len(inodes)
    <3>1. inodes[j].time \in Nat /\ inodes[j].time <= clock /\ inodes[j].chunks \in pasts[j]
      BY <2>2, FileFacts DEF ReadingInv
    <3>2. inodes'[j] = inodes[j] /\ pasts'[j] = pasts[j]
      BY <2>2, <1>5
    <3> QED
      BY <3>1, <3>2, <1>1
  <2> QED
    BY <2>1, <2>2, <1>5 DEF ReadingInv, WorldSound
<1>8. WorldSound'
  BY <1>1, <1>5, <1>6, <1>7 DEF WorldSound
<1> QED
  BY <1>1, <1>5, <1>8, DirectoryChanges DEF OtherReplaces, ReadingInv, WorldSound

LEMMA OtherRemovesSound ==
  ASSUME ReadingAssumption, ReadingInv, OtherRemoves
  PROVE  ReadingInv'
<1>1. /\ clock' = clock + 1 /\ clock \in Nat /\ dirTime' = clock' /\ inodes' = inodes /\ pasts' = pasts
      /\ \E n \in SourceNames : dir' = [dir EXCEPT ![n] = 0]
  BY DEF OtherRemoves, Tick, ReadingInv, WorldSound
<1>2. \A j \in 1..Len(inodes) : inodes[j].time <= clock' /\ inodes[j].chunks \in pasts[j]
  BY <1>1, FileFacts DEF ReadingInv
<1>3. Len(inodes) \in Nat
  BY ElementFacts DEF ReadingInv, WorldSound
<1>4. WorldSound'
  BY <1>1, <1>2, <1>3 DEF ReadingInv, WorldSound
<1> QED
  BY <1>1, <1>3, <1>4, DirectoryChanges DEF OtherRemoves

(* The walk reads the source and does not change it.                       *)
LEMMA VisitSound ==
  ASSUME ReadingInv, Visit \/ ScanDir
  PROVE  ReadingInv'
<1>1. WorldSound'
  BY DEF Visit, ScanDir, World, ReadingInv, WorldSound
<1>2. CASE Visit
  <2>1. at' = [at EXCEPT !.pc = "scan", !.dirBefore = dirTime]
    BY <1>2 DEF Visit
  <2>2. at'.pc = "scan" /\ at'.dirBefore = dirTime /\ WalkSound'
    BY <1>2, <2>1 DEF Visit, World, ReadingInv, WalkSound, WorldSound
  <2> QED
    BY <1>1, <1>2, <2>2 DEF Visit, World, ReadingInv, WalkSound, RecordSound, PrefixRead, NamesAccounted
<1>3. CASE ScanDir
  <2>1. at' = [at EXCEPT !.pc = "next", !.todo = {n \in SourceNames : dir[n] # 0}]
    BY <1>3 DEF ScanDir
  <2>2. at'.pc = "next" /\ at'.todo = {n \in SourceNames : dir[n] # 0} /\ WalkSound'
    BY <1>3, <2>1 DEF ScanDir, World, ReadingInv, WalkSound
  <2> QED
    BY <1>1, <1>3, <2>2 DEF ScanDir, World, ReadingInv, WalkSound, RecordSound, PrefixRead, NamesAccounted
<1> QED
  BY <1>2, <1>3

\* A walk that gives up claims nothing more.
LEMMA GiveUpSound ==
  ASSUME ReadingInv, at' = [at EXCEPT !.pc = "raised"], UNCHANGED <<World, recorded>>, got' \in Seq(Nat)
  PROVE  ReadingInv'
BY DEF ReadingInv, World, WorldSound, WalkSound, RecordSound, PrefixRead, NamesAccounted

LEMMA LstatSound ==
  ASSUME ReadingAssumption, ReadingInv, LstatChild
  PROVE  ReadingInv'
<1> DEFINE n == CHOOSE n \in at.todo : \A m \in at.todo \ {n} : SortedBefore(n, m)
<1>1. at.todo \in (SUBSET SourceNames) \ {{}}
  <2>1. at.todo # {} /\ at.todo \subseteq SourceNames
    BY DEF LstatChild, ReadingInv, WalkSound
  <2> QED
    BY <2>1
<1>0. \E one \in at.todo : \A m \in at.todo \ {one} : SortedBefore(one, m)
  BY <1>1 DEF ReadingAssumption
<1>4. n \in at.todo /\ n \in SourceNames
  BY <1>0, <1>1
<1>2. CASE dir[n] = 0
  BY <1>2, GiveUpSound DEF LstatChild, ReadingInv, PrefixRead
<1>3. CASE dir[n] # 0
  <2> HIDE DEF n
  <2>1. at' = [at EXCEPT !.pc = "open", !.name = n, !.todo = @ \ {n}, !.path = <<dir[n], inodes[dir[n]].time>>]
    BY <1>3 DEF LstatChild, n
  <2>2. dir[n] \in Nat /\ inodes[dir[n]].time \in Nat
    <3>1. dir[n] \in 1..Len(inodes)
      BY <1>3, <1>4, ElementFacts DEF ReadingInv, WorldSound
    <3> QED
      BY <3>1, FileFacts DEF ReadingInv
  <2>3. WalkSound' /\ at'.pc = "open" /\ at'.name = n /\ at'.todo = at.todo \ {n} /\ at'.dirBefore = at.dirBefore
    <3>1. /\ DOMAIN at' = DOMAIN at /\ at'.pc = "open" /\ at'.name = n /\ at'.todo = at.todo \ {n} /\ at'.dirBefore = at.dirBefore
          /\ at'.path = <<dir[n], inodes[dir[n]].time>>
      BY <2>1 DEF ReadingInv, WalkSound
    <3>2. at'.path[1] = dir[n]
      BY <3>1
    <3> QED
      BY <1>4, <1>3, <3>1, <3>2 DEF LstatChild, World, ReadingInv, WalkSound
  <2>4. NamesAccounted'
    BY <1>4, <2>3 DEF LstatChild, World, ReadingInv, NamesAccounted
  <2> QED
    BY <2>3, <2>4 DEF LstatChild, World, ReadingInv, WorldSound, RecordSound, PrefixRead
<1> QED
  BY <1>2, <1>3

LEMMA OpenSound ==
  ASSUME ReadingAssumption, ReadingInv, OpenChild
  PROVE  ReadingInv'
<1>1. CASE dir[at.name] = 0
  BY <1>1, GiveUpSound DEF OpenChild
<1>2. CASE dir[at.name] # 0
  <2>1. at' = [at EXCEPT !.pc = "read", !.before = <<dir[at.name], inodes[dir[at.name]].time>>] /\ at.pc = "open"
    BY <1>2 DEF OpenChild
  <2>2. dir[at.name] \in 1..Len(inodes) /\ inodes[dir[at.name]].time \in Nat
    <3>1. dir[at.name] \in 1..Len(inodes)
      BY <1>2, <2>1, ElementFacts DEF ReadingInv, WorldSound, WalkSound
    <3> QED
      BY <3>1, FileFacts DEF ReadingInv
  <2>3. /\ WalkSound'
        /\ at'.pc = "read" /\ at'.name = at.name /\ at'.todo = at.todo /\ at'.dirBefore = at.dirBefore
        /\ at'.before = <<dir[at.name], inodes[dir[at.name]].time>>
    BY <2>1, <2>2 DEF OpenChild, World, ReadingInv, WalkSound
  <2>4. PrefixRead'
    BY <2>2, <2>3 DEF OpenChild, World, PrefixRead, ReadingAssumption
  <2> QED
    BY <2>1, <2>3, <2>4 DEF OpenChild, World, ReadingInv, WorldSound, RecordSound, NamesAccounted
<1> QED
  BY <1>1, <1>2

LEMMA ReadSound ==
  ASSUME ReadingAssumption, ReadingInv, ReadChunk
  PROVE  ReadingInv'
<1>1. /\ at.pc = "read" /\ Len(got) < Chunks /\ UNCHANGED <<World, at, recorded>>
      /\ got' = Append(got, inodes[at.before[1]].chunks[Len(got) + 1])
  BY DEF ReadChunk
<1>2. at.before[1] \in 1..Len(inodes) /\ Len(got) \in Nat /\ got \in Seq(Nat)
  BY <1>1 DEF ReadingInv, PrefixRead
<1>3. inodes[at.before[1]].chunks \in [1..Chunks -> Nat] /\ Len(got) + 1 \in 1..Chunks
  BY <1>1, <1>2, FileFacts DEF ReadingInv, ReadingAssumption
<1>4. /\ got' \in Seq(Nat) /\ Len(got') = Len(got) + 1
      /\ got'[Len(got) + 1] = inodes[at.before[1]].chunks[Len(got) + 1]
      /\ \A k \in 1..Len(got) : got'[k] = got[k]
  <2>1. inodes[at.before[1]].chunks[Len(got) + 1] \in Nat
    BY <1>3
  <2> QED
    BY <1>1, <1>2, <2>1, AppendFacts
<1>5. PrefixRead'
  <2>1. Len(got') \in Nat /\ Len(got') <= Chunks
    BY <1>1, <1>2, <1>4 DEF ReadingAssumption
  <2>2. ASSUME at.before[2] = inodes[at.before[1]].time, NEW k \in 1..Len(got')
        PROVE  got'[k] = inodes[at.before[1]].chunks[k]
    BY <1>1, <1>2, <1>4, <2>2 DEF ReadingInv, PrefixRead
  <2> QED
    BY <1>1, <1>4, <2>1, <2>2 DEF ReadingInv, PrefixRead, World
<1> QED
  BY <1>1, <1>5 DEF World, ReadingInv, WorldSound, WalkSound, RecordSound, NamesAccounted

LEMMA SameChunks ==
  ASSUME NEW f \in [1..Chunks -> Nat], NEW g \in [1..Chunks -> Nat], \A k \in 1..Chunks : f[k] = g[k]
  PROVE  f = g
<1>1. f = [k \in 1..Chunks |-> f[k]] /\ g = [k \in 1..Chunks |-> g[k]]
  OBVIOUS
<1>2. [k \in 1..Chunks |-> f[k]] = [k \in 1..Chunks |-> g[k]]
  OBVIOUS
<1> QED
  BY <1>1, <1>2

LEMMA EndFileSound ==
  ASSUME ReadingAssumption, ReadingInv, EndFile
  PROVE  ReadingInv'
<1>1. at.pc = "read" /\ Len(got) = Chunks /\ UNCHANGED <<World, got>> /\ got \in Seq(Nat) /\ Chunks \in Nat
  BY DEF EndFile, ReadingInv, PrefixRead, ReadingAssumption
<1>2. CASE ~UnchangedFile
  BY <1>1, <1>2, GiveUpSound DEF EndFile, GiveUp
<1>3. CASE UnchangedFile
  <2>1. /\ at' = [at EXCEPT !.pc = "next"]
        /\ recorded' = [m \in DOMAIN recorded \cup {at.name} |-> IF m = at.name THEN <<at.before[1], got>> ELSE recorded[m]]
    BY <1>3 DEF EndFile
  <2>2. at.before[1] \in 1..Len(inodes) /\ at.before[2] = inodes[at.before[1]].time
    BY <1>1, <1>3 DEF UnchangedFile, After, ReadingInv, PrefixRead
  <2>3. got = inodes[at.before[1]].chunks
    <3>1. inodes[at.before[1]].chunks \in [1..Chunks -> Nat]
      BY <2>2, FileFacts DEF ReadingInv
    <3>2. \A k \in 1..Chunks : got[k] = inodes[at.before[1]].chunks[k]
      BY <1>1, <2>2 DEF ReadingInv, PrefixRead
    <3>3. got \in [1..Chunks -> Nat]
      BY <1>1
    <3> QED
      BY <3>1, <3>2, <3>3, SameChunks
  <2>4. got \in pasts[at.before[1]]
    BY <2>2, <2>3 DEF ReadingInv, WorldSound
  <2>5. dir[at.name] = at.before[1] /\ at.name \in SourceNames
    BY <1>1, <1>3, <2>2 DEF UnchangedFile, Current, ReadingInv, WalkSound
  <2>6. /\ DOMAIN recorded' = DOMAIN recorded \cup {at.name}
        /\ recorded'[at.name] = <<at.before[1], got>>
        /\ \A m \in DOMAIN recorded : m # at.name => recorded'[m] = recorded[m]
    BY <2>1
  <2>7. RecordSound'
    BY <1>1, <2>1, <2>2, <2>4, <2>5, <2>6 DEF World, ReadingInv, RecordSound, WalkSound
  <2>8. /\ WalkSound' /\ at'.pc = "next"
        /\ at'.name = at.name /\ at'.todo = at.todo /\ at'.dirBefore = at.dirBefore
    BY <1>1, <2>1 DEF World, ReadingInv, WalkSound
  <2>9. NamesAccounted'
    BY <1>1, <2>5, <2>6, <2>8 DEF World, ReadingInv, NamesAccounted
  <2> QED
    BY <1>1, <2>7, <2>8, <2>9 DEF World, ReadingInv, WorldSound, PrefixRead
<1> QED
  BY <1>2, <1>3

LEMMA EndDirectorySound ==
  ASSUME ReadingInv, EndDirectory
  PROVE  ReadingInv'
<1>1. CASE dirTime # at.dirBefore
  BY <1>1, GiveUpSound DEF EndDirectory, ReadingInv, PrefixRead
<1>2. CASE dirTime = at.dirBefore
  <2>1. at' = [at EXCEPT !.pc = "saved"] /\ at.pc = "next" /\ at.todo = {} /\ UNCHANGED <<World, got, recorded>>
    BY <1>2 DEF EndDirectory
  <2>2. /\ WalkSound' /\ at'.pc = "saved"
        /\ at'.name = at.name /\ at'.todo = at.todo /\ at'.dirBefore = at.dirBefore
    BY <2>1 DEF World, ReadingInv, WalkSound
  <2> QED
    BY <2>1, <2>2 DEF World, ReadingInv, WorldSound, RecordSound, PrefixRead, NamesAccounted
<1> QED
  BY <1>1, <1>2

LEMMA ReadingStays ==
  ASSUME ReadingAssumption, ReadingInv, [ReadingNext]_reading
  PROVE  ReadingInv'
<1>1. CASE UNCHANGED reading
  BY <1>1 DEF reading, ReadingInv, WorldSound, WalkSound, RecordSound, PrefixRead, NamesAccounted
<1> QED
  BY <1>1, OtherWritesSound, OtherReplacesSound, OtherRemovesSound, VisitSound, LstatSound, OpenSound, ReadSound, EndFileSound,
     EndDirectorySound DEF ReadingNext

(* A snapshot that is saved has each file as it once was and, if the       *)
(* directory has not changed since, exactly the names that are there       *)
(* (create()), for any names, chunks and changes by others.                *)
THEOREM ReadWhole == ReadingSpec => []NoMixture
<1>1. ReadingInit => ReadingInv
  BY ReadingStarts, ReadingAssumption
<1>2. ReadingInv /\ [ReadingNext]_reading => ReadingInv'
  BY ReadingStays, ReadingAssumption
<1>3. ReadingInv => NoMixture
  BY DEF ReadingInv, RecordSound, NamesAccounted, NoMixture
<1> QED
  BY <1>1, <1>2, <1>3, PTL DEF ReadingSpec
=============================================================================
