------------------------- MODULE SnapshotDurability -------------------------
(***************************************************************************)
(* What a power failure leaves of a snapshot repository                    *)
(* (python/uc2/snapshot.py on POSIX).                                      *)
(*                                                                         *)
(* File contents are flushed before a file gets its name, so that what a   *)
(* power failure can undo is the directory entries.  For every entry the   *)
(* model keeps its present value and the set of values the disk may hold;  *)
(* fsync of a directory makes that set a singleton for all its entries.    *)
(* The sentinel admits one operation at a time (SnapshotRepo), so there is *)
(* one process here; a leftover lock file is removed before the next one.  *)
(***************************************************************************)
EXTENDS Naturals, FiniteSets

CONSTANTS
    Chunk,      \* chunk digests
    Snap,       \* manifest digests
    Refs,       \* Refs[s]: the chunks the manifest s refers to
    Dir,        \* the directories below chunks/, named by two hex digits
    DirOf,      \* DirOf[h]: the directory of chunk h
    Root,       \* config.json and objects.sqlite3, entries of one directory
    Nil,        \* no object
    MaxFailures \* bound: kills and power failures of one behaviour

DurabilityAssumption ==
    /\ Refs \in [Snap -> SUBSET Chunk]
    /\ DirOf \in [Chunk -> Dir]
    /\ MaxFailures \in Nat
    (* Paths are distinct. *)
    /\ Snap \cap Chunk = {} /\ Snap \cap Dir = {} /\ Chunk \cap Dir = {}
    /\ Nil \notin Chunk \cup Snap
    /\ Root \notin Chunk \cup Snap \cup Dir

Object == Chunk \cup Snap
Path == Object \cup Dir

VARIABLES
    live,       \* the entries of chunks/, its directories and snapshots/
    possible,   \* per entry: what the disk may hold
    config,     \* the present config.json, "v1" or "v2"
    configs,    \* what the disk may hold of it
    database,   \* the objects in objects.sqlite3
    databases,  \* what the disk may hold of it
    pc, goal, todo, cur, dirs,      \* the running operation
    failures,   \* kills and power failures so far
    returned,   \* observer: snapshots whose create returned, not yet pruned
    unsure,     \* observer: entries an interrupted operation left unsynced
    excused     \* observer: snapshots a power failure met while they had some

entries == <<live, possible>>
root == <<config, configs, database, databases>>
observers == <<returned, unsure, excused>>
operation == <<pc, goal, todo, cur, dirs, failures>>
vars == <<live, possible, config, configs, database, databases,
          pc, goal, todo, cur, dirs, failures, returned, unsure, excused>>

TypeOK ==
    /\ live \in [Path -> BOOLEAN]
    /\ possible \in [Path -> SUBSET BOOLEAN]
    /\ config \in {"v1", "v2"}
    /\ configs \subseteq {"v1", "v2"}
    /\ database \subseteq Object
    /\ databases \subseteq SUBSET Object
    /\ pc \in {"idle", "storing", "naming", "placing", "filing", "publishing",
               "unlinking", "sweeping", "syncing", "replacing", "switching",
               "confirming", "clearing", "emptying", "vacuuming"}
    /\ goal \in Snap \cup {Nil}
    /\ todo \subseteq Object
    /\ cur \in Chunk \cup {Nil}
    /\ dirs \subseteq Dir
    /\ failures \in 0..MaxFailures
    /\ returned \subseteq Snap
    /\ unsure \subseteq Path \cup {Root}
    /\ excused \subseteq Snap

-----------------------------------------------------------------------------
(***************************************************************************)
(* The file system.                                                        *)
(***************************************************************************)

\* An entry is created or removed; the disk may hold either value.
SetEntry(p, there) ==
    /\ live' = [live EXCEPT ![p] = there]
    /\ possible' = [possible EXCEPT ![p] = @ \cup {there}]
    /\ UNCHANGED <<root, observers>>

\* fsync of a directory whose entries are P.
Sync(P) ==
    /\ possible' = [p \in Path |-> IF p \in P THEN {live[p]} ELSE possible[p]]
    /\ unsure' = unsure \ P
    /\ UNCHANGED <<live, root>>

SyncRoot ==
    /\ configs' = {config}
    /\ databases' = {database}
    /\ unsure' = unsure \ {Root}
    /\ UNCHANGED <<entries, config, database, returned, excused>>

FilesIn(d) == {h \in Chunk : DirOf[h] = d}

Manifests == {s \in Snap : live[s]}

Loose == {h \in Chunk : live[h]}

Referred(S) == UNION {Refs[s] : s \in S}

\* Every manifest has its chunks, as _validated requires.
Complete(S, H) == \A s \in S : Refs[s] \subseteq H

Goto(step) == pc' = step /\ UNCHANGED failures

Halt ==
    /\ pc' = "idle"
    /\ goal' = Nil
    /\ todo' = {}
    /\ cur' = Nil
    /\ dirs' = {}

End == Halt /\ UNCHANGED failures

-----------------------------------------------------------------------------
(***************************************************************************)
(* create and repair on a loose repository.  They differ in where the      *)
(* contents come from and in that repair renames over the name that create *)
(* links; both skip what is there already, and neither syncs it.           *)
(***************************************************************************)
Store(s) ==
    /\ pc = "idle" /\ config = "v1"
    /\ goal' = s
    /\ todo' = Refs[s]
    /\ Goto("storing")
    /\ UNCHANGED <<entries, root, cur, dirs, observers>>

\* _chunk_path(create=True): a directory that exists is taken as it is, a new
\* one is followed by fsync of chunks/.
FindDirectory(h) ==
    /\ pc = "storing"
    /\ h \in todo
    /\ live[DirOf[h]]
    /\ cur' = h
    /\ Goto("placing")
    /\ UNCHANGED <<entries, root, goal, todo, dirs, observers>>

MakeDirectory(h) ==
    /\ pc = "storing"
    /\ h \in todo
    /\ ~live[DirOf[h]]
    /\ SetEntry(DirOf[h], TRUE)
    /\ cur' = h
    /\ Goto("naming")
    /\ UNCHANGED <<goal, todo, dirs>>

SyncDirectories ==
    /\ pc = "naming"
    /\ Sync(Dir)
    /\ Goto("placing")
    /\ UNCHANGED <<goal, todo, cur, dirs, returned, excused>>

\* _store: a chunk that exists is decoded and compared, but not synced.
ReuseChunk ==
    /\ pc = "placing"
    /\ live[cur]
    /\ todo' = todo \ {cur}
    /\ cur' = Nil
    /\ Goto("storing")
    /\ UNCHANGED <<entries, root, goal, dirs, observers>>

\* _publish_file: link, then fsync of the chunk's directory.
LinkChunk ==
    /\ pc = "placing"
    /\ ~live[cur]
    /\ SetEntry(cur, TRUE)
    /\ Goto("filing")
    /\ UNCHANGED <<goal, todo, cur, dirs>>

SyncChunk ==
    /\ pc = "filing"
    /\ Sync(FilesIn(DirOf[cur]))
    /\ todo' = todo \ {cur}
    /\ cur' = Nil
    /\ Goto("storing")
    /\ UNCHANGED <<goal, dirs, returned, excused>>

\* create or repair returns: the snapshot is there, whatever it was before.
Stored ==
    /\ returned' = returned \cup {goal}
    /\ excused' = excused \ {goal}

KeepManifest ==
    /\ pc = "storing"
    /\ todo = {}
    /\ live[goal]
    /\ Stored
    /\ End
    /\ UNCHANGED <<entries, root, unsure>>

LinkManifest ==
    /\ pc = "storing"
    /\ todo = {}
    /\ ~live[goal]
    /\ SetEntry(goal, TRUE)
    /\ Goto("publishing")
    /\ UNCHANGED <<goal, todo, cur, dirs>>

SyncManifest ==
    /\ pc = "publishing"
    /\ Sync(Snap)
    /\ Stored
    /\ End

-----------------------------------------------------------------------------
(***************************************************************************)
(* prune on a loose repository.                                            *)
(***************************************************************************)
Prune(R) ==
    LET orphans == Loose \ Referred(R) IN
    /\ pc = "idle" /\ config = "v1"
    /\ Complete(Manifests, Loose)
    /\ R \subseteq Manifests
    /\ Manifests # {} => R # {}
    /\ todo' = (Manifests \ R) \cup orphans
    /\ dirs' = {DirOf[h] : h \in orphans}
    /\ returned' = returned \cap R
    /\ Goto("unlinking")
    /\ UNCHANGED <<entries, root, goal, cur, unsure, excused>>

Unlink(o) ==
    /\ SetEntry(o, FALSE)
    /\ todo' = todo \ {o}
    /\ UNCHANGED <<pc, failures, goal, cur, dirs>>

UnlinkManifest(s) ==
    /\ pc = "unlinking"
    /\ s \in todo \cap Snap
    /\ Unlink(s)

\* Faulty variant: chunks are removed before snapshots/ is synced.
SweepUnsynced ==
    /\ pc = "unlinking"
    /\ todo \cap Snap = {}
    /\ Goto("sweeping")
    /\ UNCHANGED <<entries, root, goal, todo, cur, dirs, observers>>

SyncRemovals ==
    /\ pc = "unlinking"
    /\ todo \cap Snap = {}
    /\ Sync(Snap)
    /\ Goto("sweeping")
    /\ UNCHANGED <<goal, todo, cur, dirs, returned, excused>>

UnlinkChunk(h) ==
    /\ pc = "sweeping"
    /\ h \in todo
    /\ Unlink(h)

BeginSyncing ==
    /\ pc = "sweeping"
    /\ todo = {}
    /\ Goto("syncing")
    /\ UNCHANGED <<entries, root, goal, todo, cur, dirs, observers>>

SyncParent(d) ==
    /\ pc = "syncing"
    /\ d \in dirs
    /\ Sync(FilesIn(d))
    /\ dirs' = dirs \ {d}
    /\ UNCHANGED <<pc, failures, goal, todo, cur, returned, excused>>

EndPrune ==
    /\ pc = "syncing"
    /\ dirs = {}
    /\ End
    /\ UNCHANGED <<entries, root, observers>>

-----------------------------------------------------------------------------
(***************************************************************************)
(* compact.                                                                *)
(***************************************************************************)
Compact ==
    /\ pc = "idle" /\ config = "v1"
    /\ Complete(Manifests, Loose)
    /\ database' = Loose \cup Manifests
    /\ databases' = databases \cup {database'}
    /\ Goto("replacing")
    /\ UNCHANGED <<entries, config, configs, goal, todo, cur, dirs, observers>>

SyncDatabase ==
    /\ pc = "replacing"
    /\ SyncRoot
    /\ Goto("switching")
    /\ UNCHANGED <<goal, todo, cur, dirs>>

SwitchConfig ==
    /\ pc = "switching"
    /\ config' = "v2"
    /\ configs' = configs \cup {"v2"}
    /\ Goto("confirming")
    /\ UNCHANGED <<entries, database, databases, goal, todo, cur, dirs, observers>>

BeginClear ==
    /\ todo' = Loose \cup Manifests
    /\ dirs' = {d \in Dir : live[d]}
    /\ Goto("clearing")
    /\ UNCHANGED <<goal, cur>>

\* Faulty variant: the loose objects go before the switch is on disk.
ClearUnconfirmed ==
    /\ pc = "confirming"
    /\ BeginClear
    /\ UNCHANGED <<entries, root, observers>>

ConfirmSwitch ==
    /\ pc = "confirming"
    /\ SyncRoot
    /\ BeginClear

\* compact of a packed repository goes on to the cleanup at once.
Recompact ==
    /\ pc = "idle" /\ config = "v2"
    /\ Complete(database \cap Snap, database)
    /\ BeginClear
    /\ UNCHANGED <<entries, root, observers>>

ClearChunk(h) ==
    /\ pc = "clearing"
    /\ h \in todo \cap Chunk
    /\ DirOf[h] \in dirs
    /\ Unlink(h)

SyncCleared(d) ==
    /\ pc = "clearing"
    /\ d \in dirs
    /\ todo \cap FilesIn(d) = {}
    /\ Sync(FilesIn(d))
    /\ dirs' = dirs \ {d}
    /\ UNCHANGED <<pc, failures, goal, todo, cur, returned, excused>>

ClearManifest(s) ==
    /\ pc = "clearing"
    /\ dirs = {}
    /\ s \in todo
    /\ Unlink(s)

SyncEmptied ==
    /\ pc = "clearing"
    /\ dirs = {} /\ todo = {}
    /\ Sync(Snap)
    /\ Goto("emptying")
    /\ UNCHANGED <<goal, todo, cur, dirs, returned, excused>>

SyncCleanup ==
    /\ pc = "emptying"
    /\ Sync(Dir)
    /\ Goto("vacuuming")
    /\ UNCHANGED <<goal, todo, cur, dirs, returned, excused>>

\* VACUUM, whose journal syncs the root; nothing is left to sync there when the
\* compaction has done it itself.
EndCompact ==
    /\ pc = "vacuuming"
    /\ SyncRoot
    /\ End

-----------------------------------------------------------------------------
(***************************************************************************)
(* The same on a packed repository: SQLite commits atomically and, with    *)
(* synchronous=FULL, durably; its journal is created in the root and syncs *)
(* that directory.                                                         *)
(***************************************************************************)
CommitRows(rows) ==
    /\ pc = "idle" /\ config = "v2"
    /\ database' = rows
    /\ databases' = {rows}
    /\ configs' = {config}
    /\ unsure' = unsure \ {Root}
    /\ UNCHANGED <<entries, config, operation>>

StorePacked(s) ==
    /\ CommitRows(database \cup {s} \cup Refs[s])
    /\ returned' = returned \cup {s}
    /\ excused' = excused \ {s}

PrunePacked(R) ==
    /\ Complete(database \cap Snap, database)
    /\ R \subseteq database \cap Snap
    /\ database \cap Snap # {} => R # {}
    /\ CommitRows(R \cup (database \cap Referred(R)))
    /\ returned' = returned \cap R
    /\ UNCHANGED excused

-----------------------------------------------------------------------------
(***************************************************************************)
(* Failures.                                                               *)
(***************************************************************************)

Unsynced == {p \in Path : possible[p] # {live[p]}}
                \cup (IF configs # {config} \/ databases # {database} THEN {Root} ELSE {})

Fail ==
    /\ failures < MaxFailures
    /\ failures' = failures + 1
    /\ Halt

\* The entries a loose snapshot consists of, and whether one was left unsynced.
Parts(s) == {s} \cup Refs[s] \cup {DirOf[h] : h \in Refs[s]}
Exposed(s) == (Parts(s) \cup {Root}) \cap unsure # {}

\* The process is killed, or the fsync it is about to do fails.
Interrupt ==
    /\ pc # "idle"
    /\ unsure' = Unsynced
    /\ Fail
    /\ UNCHANGED <<entries, root, returned, excused>>

\* The machine stops; each entry comes back as one of the values the disk may
\* hold, and the files of a directory that does not come back are gone.
PowerFailure ==
    /\ \E found \in [Path -> BOOLEAN] :
           /\ \A p \in Path : found[p] \in possible[p]
           /\ live' = [p \in Path |->
                         found[p] /\ (p \in Chunk => found[DirOf[p]])]
    /\ possible' = [p \in Path |-> {live'[p]}]
    /\ config' \in configs
    /\ configs' = {config'}
    /\ database' \in databases
    /\ databases' = {database'}
    /\ unsure' = {}
    /\ excused' = excused \cup {s \in Snap : Exposed(s)}
    /\ returned' = {s \in returned : ~Exposed(s)}
    /\ Fail

-----------------------------------------------------------------------------
Init ==
    /\ live = [p \in Path |-> FALSE]
    /\ possible = [p \in Path |-> {FALSE}]
    /\ config = "v1"
    /\ configs = {"v1"}
    /\ database = {}
    /\ databases = {{}}
    /\ pc = "idle" /\ goal = Nil /\ todo = {} /\ cur = Nil /\ dirs = {}
    /\ failures = 0
    /\ returned = {}
    /\ unsure = {}
    /\ excused = {}

Next ==
    \/ \E s \in Snap : \/ Store(s) \/ UnlinkManifest(s) \/ ClearManifest(s)
                       \/ StorePacked(s)
    \/ \E h \in Chunk : \/ FindDirectory(h) \/ MakeDirectory(h)
                        \/ UnlinkChunk(h) \/ ClearChunk(h)
    \/ \E d \in Dir : SyncParent(d) \/ SyncCleared(d)
    \/ \E R \in SUBSET Snap : Prune(R) \/ PrunePacked(R)
    \/ SyncDirectories \/ ReuseChunk \/ LinkChunk \/ SyncChunk
    \/ KeepManifest \/ LinkManifest \/ SyncManifest
    \/ SyncRemovals \/ BeginSyncing \/ EndPrune
    \/ Compact \/ SyncDatabase \/ SwitchConfig \/ ConfirmSwitch
    \/ Recompact \/ SyncEmptied \/ SyncCleanup \/ EndCompact
    \/ Interrupt \/ PowerFailure

Spec == Init /\ [][Next]_vars

-----------------------------------------------------------------------------
(***************************************************************************)
(* Safety.  The predicates speak of every state a power failure at this    *)
(* moment could leave.                                                     *)
(***************************************************************************)
Maybe(p) == TRUE \in possible[p]
Surely(p) == possible[p] = {TRUE}
ChunkSurely(h) == Surely(h) /\ Surely(DirOf[h])

\* A manifest the disk may hold has chunks the disk does hold.
LooseComplete(s) == Maybe(s) => \A h \in Refs[s] : ChunkSurely(h)

\* Whatever format comes back, the snapshot comes back with it.
Restorable(s) ==
    /\ "v1" \in configs => Surely(s) /\ \A h \in Refs[s] : ChunkSurely(h)
    /\ "v2" \in configs => \A rows \in databases : {s} \cup Refs[s] \subseteq rows

\* No power failure exposes an incomplete snapshot, except for entries that an
\* interrupted operation left unsynced and no later one has synced.
PublishedComplete ==
    /\ TypeOK
    /\ "v1" \in configs => \A s \in Snap \ excused : ~Exposed(s) => LooseComplete(s)

\* A snapshot whose create returned survives a power failure at any moment,
\* under the same exception.
ReturnedDurable ==
    \A s \in returned : ~Exposed(s) => Restorable(s)

\* create "never publishes an incomplete snapshot": without the exception.
NeverIncomplete == "v1" \in configs => \A s \in Snap : LooseComplete(s)

=============================================================================
