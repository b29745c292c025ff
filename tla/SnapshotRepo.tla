---------------------------- MODULE SnapshotRepo ----------------------------
(***************************************************************************)
(* The snapshot repository of python/uc2/snapshot.py: a directory of       *)
(* content-addressed chunks and manifests shared by several processes.     *)
(*                                                                         *)
(* A repository is kept in one of two formats.  In "v1" every object is a  *)
(* loose file; in "v2" every object is a row of objects.sqlite3.  compact  *)
(* converts the first into the second.  All operations take the exclusive  *)
(* sentinel .writer-lock, which a killed process leaves behind.            *)
(*                                                                         *)
(* An object is a chunk or a manifest and its health is what a reader      *)
(* would find: "absent", "good" (decodes to bytes with the SHA-256 in its  *)
(* name) or "bad".  Contents never matter beyond that, because every       *)
(* object is named by the hash of its contents.                            *)
(***************************************************************************)
EXTENDS Naturals, FiniteSets

CONSTANTS
    Client,     \* processes that call the API
    Repo,       \* repository directories
    Chunk,      \* chunk digests
    Snap,       \* manifest digests, numbered in the order of (created, digest)
    Refs,       \* Refs[s]: the chunks the manifest s refers to
    Free,       \* no .writer-lock file
    Stale,      \* a .writer-lock file whose process is gone
    Nil,        \* "no value" of a client's registers
    MaxDamage   \* bound on the objects of a repository damaged at one time

ASSUME RefsType == Refs \in [Snap -> SUBSET Chunk]
ASSUME SnapsAreOrdered == Snap \subseteq Nat
ASSUME ObjectsAreDistinct == Snap \cap Chunk = {}
ASSUME LockValues == Free # Stale /\ {Free, Stale} \cap Client = {}
ASSUME NilIsNoValue == Nil \notin Repo \cup Snap
ASSUME DamageBound == MaxDamage \in Nat

Object == Chunk \cup Snap
Health == {"absent", "good", "bad"}
Store == [Object -> Health]
Empty == [o \in Object |-> "absent"]

VARIABLES
    (* On disk, per repository. *)
    lock,       \* .writer-lock: Free, Stale, or the client that created it
    format,     \* config.json: "v1" or "v2"
    loose,      \* the files below chunks/ and snapshots/
    packed,     \* the committed rows of objects.sqlite3
    (* In memory, per client. *)
    pc,         \* the step of the operation it runs
    at,         \* the repository it works on
    from,       \* the replica a repair has locked
    goal,       \* the snapshot it works on
    plan,       \* the snapshots a repair still has to copy
    todo,       \* the objects its current loop still has to visit
    txn,        \* rows as its connection sees them, or compact's new database
    (* Observers, which no action reads. *)
    damaged,    \* per repository: objects lost to the medium since last written
    kept        \* per repository: snapshots committed and not given up by prune

disk == <<lock, format, loose, packed>>
registers == <<at, from, goal, plan, todo, txn>>
ghosts == <<damaged, kept>>
vars == <<lock, format, loose, packed, pc, at, from, goal, plan, todo, txn,
          damaged, kept>>

Steps == {"idle", "storing", "reading", "retaining", "unlinking", "sweeping",
          "packing", "replacing", "switching", "clearing", "pairing",
          "comparing", "choosing", "copying", "checking", "leaving", "unlocking"}

TypeOK ==
    /\ lock \in [Repo -> Client \cup {Free, Stale}]
    /\ format \in [Repo -> {"v1", "v2"}]
    /\ loose \in [Repo -> Store]
    /\ packed \in [Repo -> Store]
    /\ pc \in [Client -> Steps]
    /\ at \in [Client -> Repo \cup {Nil}]
    /\ from \in [Client -> Repo \cup {Nil}]
    /\ goal \in [Client -> Snap \cup {Nil}]
    /\ plan \in [Client -> SUBSET Snap]
    /\ todo \in [Client -> SUBSET Object]
    /\ txn \in [Client -> Store]
    /\ damaged \in [Repo -> SUBSET Object]
    /\ kept \in [Repo -> SUBSET Snap]

-----------------------------------------------------------------------------
(***************************************************************************)
(* What a process sees of a repository.                                    *)
(***************************************************************************)

\* What the next process to take the lock of r will find.
Disk(r) == IF format[r] = "v1" THEN loose[r] ELSE packed[r]

\* What client c sees in r: loose files, its own uncommitted rows in the
\* repository it works on, and the committed rows of a replica.
View(c, r) ==
    IF format[r] = "v1" THEN loose[r]
    ELSE IF r = at[c] THEN txn[c] ELSE packed[r]

Addresses(store) == {s \in Snap : store[s] # "absent"}

Inventory(store) == {h \in Chunk : store[h] # "absent"}

\* A manifest and every file it describes pass their hashes.
Verified(store, s) ==
    /\ store[s] = "good"
    /\ \A h \in Refs[s] : store[h] = "good"

Validated(store) == \A s \in Addresses(store) : Verified(store, s)

\* The k snapshots of S that sort last by (created, digest).
Newest(S, k) == {s \in S : Cardinality({t \in S : t > s}) < k}

Live(S) == UNION {Refs[s] : s \in S}

-----------------------------------------------------------------------------
(***************************************************************************)
(* Steps shared by the operations.                                         *)
(***************************************************************************)

\* Faulty variant: .writer-lock is opened with mode "w".
AcquireOverOthers(c, r) ==
    /\ pc[c] = "idle"
    /\ lock' = [lock EXCEPT ![r] = c]
    /\ at' = [at EXCEPT ![c] = r]
    /\ txn' = [txn EXCEPT ![c] = IF format[r] = "v2" THEN packed[r] ELSE Empty]
    /\ UNCHANGED <<format, loose, packed, from, damaged, kept>>

\* Creating .writer-lock with mode "x", then reading config.json and opening
\* the database of a packed repository.  A client that finds the file there
\* fails with FileExistsError and changes nothing.
Acquire(c, r) ==
    /\ pc[c] = "idle"
    /\ lock[r] = Free
    /\ lock' = [lock EXCEPT ![r] = c]
    /\ at' = [at EXCEPT ![c] = r]
    /\ txn' = [txn EXCEPT ![c] = IF format[r] = "v2" THEN packed[r] ELSE Empty]
    /\ UNCHANGED <<format, loose, packed, from, damaged, kept>>

Forget(c) ==
    /\ pc' = [pc EXCEPT ![c] = "idle"]
    /\ at' = [at EXCEPT ![c] = Nil]
    /\ from' = [from EXCEPT ![c] = Nil]
    /\ goal' = [goal EXCEPT ![c] = Nil]
    /\ plan' = [plan EXCEPT ![c] = {}]
    /\ todo' = [todo EXCEPT ![c] = {}]
    /\ txn' = [txn EXCEPT ![c] = Empty]

\* The observers after client c has made its repository hold `store`.
Observe(c, store) ==
    /\ damaged' = [damaged EXCEPT ![at[c]] = {o \in @ : store[o] # "good"}]
    /\ kept' = [kept EXCEPT ![at[c]] = @ \cup {s \in Snap : store[s] = "good"}]

\* Publishing object o with the given health: an exclusive link or a rename in
\* a loose repository, an INSERT in the open transaction of a packed one.
Write(c, o, health) ==
    LET store == [View(c, at[c]) EXCEPT ![o] = health] IN
    IF format[at[c]] = "v1"
    THEN /\ loose' = [loose EXCEPT ![at[c]] = store]
         /\ Observe(c, store)
         /\ UNCHANGED <<lock, format, packed, txn>>
    ELSE /\ txn' = [txn EXCEPT ![c] = store]
         /\ UNCHANGED <<disk, ghosts>>

\* Faulty variants: the replica is not unlocked; the locks of a repair are
\* released in the wrong order.
LeaveReplicaLocked(c) ==
    /\ pc[c] \in {"leaving", "unlocking"}
    /\ from[c] # Nil
    /\ from' = [from EXCEPT ![c] = Nil]
    /\ UNCHANGED <<disk, pc, at, goal, plan, todo, txn, ghosts>>

\* The exit of `with _lock(source)` in repair, on success or failure: the
\* replica is unlocked before the destination commits or rolls back.
ReleaseReplica(c) ==
    /\ pc[c] \in {"leaving", "unlocking"}
    /\ from[c] # Nil
    /\ lock' = [lock EXCEPT ![from[c]] = Free]
    /\ from' = [from EXCEPT ![c] = Nil]
    /\ UNCHANGED <<format, loose, packed, pc, at, goal, plan, todo, txn, ghosts>>

\* Faulty variant: the lock file is removed before the transaction commits.
CommitUnlocked(c) ==
    /\ pc[c] = "leaving"
    /\ from[c] = Nil
    /\ pc' = [pc EXCEPT ![c] = "unlocking"]
    /\ lock' = [lock EXCEPT ![at[c]] = Free]
    /\ IF format[at[c]] = "v2"
       THEN /\ packed' = [packed EXCEPT ![at[c]] = txn[c]]
            /\ Observe(c, txn[c])
       ELSE UNCHANGED <<packed, ghosts>>
    /\ UNCHANGED <<format, loose, registers>>

\* connection.commit() at the end of `with _lock(root)`.  A compact that has
\* just converted the repository has no connection, but its txn is what it
\* installed, so that committing it again changes nothing.
Commit(c) ==
    /\ pc[c] = "leaving"
    /\ from[c] = Nil
    /\ pc' = [pc EXCEPT ![c] = "unlocking"]
    /\ IF format[at[c]] = "v2"
       THEN /\ packed' = [packed EXCEPT ![at[c]] = txn[c]]
            /\ Observe(c, txn[c])
       ELSE UNCHANGED <<packed, ghosts>>
    /\ UNCHANGED <<lock, format, loose, registers>>

\* path.unlink() in the finally clause of _lock.
Unlock(c) ==
    /\ pc[c] = "unlocking"
    /\ from[c] = Nil
    /\ lock' = [lock EXCEPT ![at[c]] = Free]
    /\ Forget(c)
    /\ UNCHANGED <<format, loose, packed, ghosts>>

\* An exception inside an operation: closing the connection rolls its
\* transaction back; loose files already published or removed stay so.
Fail(c) ==
    /\ pc[c] \notin {"idle", "unlocking"}
    /\ pc' = [pc EXCEPT ![c] = "unlocking"]
    /\ txn' = [txn EXCEPT ![c] = Empty]
    /\ UNCHANGED <<disk, at, from, goal, plan, todo, ghosts>>

\* The process is killed: its lock files stay, its transaction does not.
Crash(c) ==
    /\ pc[c] # "idle"
    /\ lock' = [r \in Repo |-> IF lock[r] = c THEN Stale ELSE lock[r]]
    /\ Forget(c)
    /\ UNCHANGED <<format, loose, packed, ghosts>>

Goto(c, step) == pc' = [pc EXCEPT ![c] = step]

\* The current loop is done with object o.
Visited(c, o) == todo' = [todo EXCEPT ![c] = @ \ {o}]

-----------------------------------------------------------------------------
(***************************************************************************)
(* create: store every chunk of the source, then publish the manifest.     *)
(***************************************************************************)
BeginCreate(c, r, s) ==
    /\ Acquire(c, r)
    /\ Goto(c, "storing")
    /\ goal' = [goal EXCEPT ![c] = s]
    /\ todo' = [todo EXCEPT ![c] = Refs[s]]
    /\ UNCHANGED plan

\* _store finds the chunk, decodes it and compares it with the source.  When
\* it is damaged the comparison raises and only Fail is possible.
ReuseChunk(c, h) ==
    /\ pc[c] = "storing"
    /\ h \in todo[c]
    /\ View(c, at[c])[h] = "good"
    /\ Visited(c, h)
    /\ UNCHANGED <<disk, pc, at, from, goal, plan, txn, ghosts>>

StoreChunk(c, h) ==
    /\ pc[c] = "storing"
    /\ h \in todo[c]
    /\ View(c, at[c])[h] = "absent"
    /\ Write(c, h, "good")
    /\ Visited(c, h)
    /\ UNCHANGED <<pc, at, from, goal, plan>>

\* _save_manifest: an existing manifest must be the same.
PublishManifest(c) ==
    /\ pc[c] = "storing"
    /\ todo[c] = {}
    /\ \/ /\ View(c, at[c])[goal[c]] = "absent"
          /\ Write(c, goal[c], "good")
       \/ /\ View(c, at[c])[goal[c]] = "good"
          /\ UNCHANGED <<disk, txn, ghosts>>
    /\ Goto(c, "leaving")
    /\ UNCHANGED <<at, from, goal, plan, todo>>

-----------------------------------------------------------------------------
(***************************************************************************)
(* verify, restore and snapshots: read without writing.                    *)
(***************************************************************************)
\* Faulty variant: a reader takes no lock.
BeginReadUnlocked(c, r, s) ==
    /\ pc[c] = "idle"
    /\ at' = [at EXCEPT ![c] = r]
    /\ txn' = [txn EXCEPT ![c] = IF format[r] = "v2" THEN packed[r] ELSE Empty]
    /\ Goto(c, "reading")
    /\ goal' = [goal EXCEPT ![c] = s]
    /\ todo' = [todo EXCEPT ![c] = Refs[s] \cup {s}]
    /\ UNCHANGED <<disk, from, plan, ghosts>>

BeginRead(c, r, s) ==
    /\ Acquire(c, r)
    /\ Goto(c, "reading")
    /\ goal' = [goal EXCEPT ![c] = s]
    /\ todo' = [todo EXCEPT ![c] = Refs[s] \cup {s}]
    /\ UNCHANGED plan

BeginList(c, r) ==
    /\ Acquire(c, r)
    /\ Goto(c, "reading")
    /\ todo' = [todo EXCEPT ![c] = Addresses(Disk(r))]
    /\ UNCHANGED <<goal, plan>>

\* Manifests are read before the chunks they name.
ReadObject(c, o) ==
    /\ pc[c] = "reading"
    /\ o \in todo[c]
    /\ o \in Chunk => goal[c] \notin todo[c]
    /\ View(c, at[c])[o] = "good"
    /\ Visited(c, o)
    /\ UNCHANGED <<disk, pc, at, from, goal, plan, txn, ghosts>>

EndRead(c) ==
    /\ pc[c] = "reading"
    /\ todo[c] = {}
    /\ Goto(c, "leaving")
    /\ UNCHANGED <<disk, registers, ghosts>>

-----------------------------------------------------------------------------
(***************************************************************************)
(* prune: verify all snapshots, choose what to retain, delete the rest.    *)
(***************************************************************************)
BeginPrune(c, r) ==
    /\ Acquire(c, r)
    /\ Goto(c, "retaining")
    /\ UNCHANGED <<goal, plan, todo>>

\* Faulty variants: all chunks of the manifests that go, or those of them that
\* no retained manifest refers to.
ReferredByObsolete(store, S) ==
    Inventory(store) \cap Live(Addresses(store) \ S)
NewlyUnreachable(store, S) ==
    (Inventory(store) \cap Live(Addresses(store) \ S)) \ Live(S)

\* What prune deletes from a store when it retains the snapshots S: the other
\* manifests, and every chunk no retained manifest refers to.
Obsolete(store, S) == Addresses(store) \ S
Unreachable(store, S) == Inventory(store) \ Live(S)

\* A dry run reports and leaves.  A packed repository deletes everything in
\* its transaction; a loose one starts to unlink, manifests first.
Retain(c, keep, keepLast, apply) ==
    LET store == View(c, at[c])
        retained == keep \cup Newest(Addresses(store), keepLast)
        removed == Obsolete(store, retained) \cup Unreachable(store, retained)
    IN
    /\ pc[c] = "retaining"
    /\ Validated(store)
    /\ keep \subseteq Addresses(store)
    /\ Addresses(store) # {} => retained # {}
    /\ IF ~apply
       THEN /\ Goto(c, "leaving")
            /\ UNCHANGED <<todo, txn, kept>>
       ELSE /\ kept' = [kept EXCEPT ![at[c]] = @ \ Obsolete(store, retained)]
            /\ IF format[at[c]] = "v2"
               THEN /\ txn' = [txn EXCEPT ![c] =
                                 [o \in Object |-> IF o \in removed THEN "absent"
                                                   ELSE store[o]]]
                    /\ Goto(c, "leaving")
                    /\ UNCHANGED todo
               ELSE /\ todo' = [todo EXCEPT ![c] = removed]
                    /\ Goto(c, "unlinking")
                    /\ UNCHANGED txn
    /\ UNCHANGED <<disk, at, from, goal, plan, damaged>>

Unlink(c, o) ==
    /\ loose' = [loose EXCEPT ![at[c]][o] = "absent"]
    /\ Visited(c, o)
    /\ UNCHANGED <<lock, format, packed, pc, at, from, goal, plan, txn, ghosts>>

UnlinkManifest(c, s) ==
    /\ pc[c] = "unlinking"
    /\ s \in todo[c] \cap Snap
    /\ Unlink(c, s)

\* The snapshots directory is synced before the first chunk is removed.
BeginSweep(c) ==
    /\ pc[c] = "unlinking"
    /\ todo[c] \cap Snap = {}
    /\ Goto(c, "sweeping")
    /\ UNCHANGED <<disk, registers, ghosts>>

UnlinkChunk(c, h) ==
    /\ pc[c] = "sweeping"
    /\ h \in todo[c]
    /\ Unlink(c, h)

EndSweep(c) ==
    /\ pc[c] = "sweeping"
    /\ todo[c] = {}
    /\ Goto(c, "leaving")
    /\ UNCHANGED <<disk, registers, ghosts>>

-----------------------------------------------------------------------------
(***************************************************************************)
(* compact: pack a loose repository, or finish an interrupted conversion.  *)
(***************************************************************************)
BeginCompact(c, r) ==
    /\ Acquire(c, r)
    /\ Goto(c, "packing")
    /\ UNCHANGED <<goal, plan, todo>>

\* Faulty variants: a database left by an interrupted conversion is trusted;
\* config.json is replaced before the database.
PackUnlessPacked(c) ==
    LET store == View(c, at[c]) IN
    /\ pc[c] = "packing"
    /\ Validated(store)
    /\ format[at[c]] = "v1"
    /\ txn' = [txn EXCEPT ![c] = IF packed[at[c]] = Empty THEN store ELSE packed[at[c]]]
    /\ Goto(c, "replacing")
    /\ UNCHANGED <<disk, at, from, goal, plan, todo, ghosts>>

PackAfterSwitch(c) ==
    LET store == View(c, at[c]) IN
    /\ pc[c] = "packing"
    /\ Validated(store)
    /\ format[at[c]] = "v1"
    /\ txn' = [txn EXCEPT ![c] = store]
    /\ Goto(c, "switching")
    /\ UNCHANGED <<disk, at, from, goal, plan, todo, ghosts>>

\* A loose repository is copied, orphans too, into a new database; an orphan
\* that does not decode stops the conversion.
Pack(c) ==
    LET store == View(c, at[c]) IN
    /\ pc[c] = "packing"
    /\ Validated(store)
    /\ format[at[c]] = "v1"
    /\ \A h \in Inventory(store) : store[h] = "good"
    /\ txn' = [txn EXCEPT ![c] = store]
    /\ Goto(c, "replacing")
    /\ UNCHANGED <<disk, at, from, goal, plan, todo, ghosts>>

\* os.replace of the database: a leftover one from an interrupted conversion
\* disappears.
ReplaceDatabase(c) ==
    /\ pc[c] = "replacing"
    /\ packed' = [packed EXCEPT ![at[c]] = txn[c]]
    /\ Goto(c, "switching")
    /\ UNCHANGED <<lock, format, loose, registers, ghosts>>

\* The loose objects that remain in r.
Leftovers(r) == {o \in Object : loose[r][o] # "absent"}

BeginClear(c) ==
    /\ Goto(c, "clearing")
    /\ todo' = [todo EXCEPT ![c] = Leftovers(at[c])]
    /\ UNCHANGED <<lock, loose, packed, at, from, goal, plan, txn, ghosts>>

SwitchFormat(c) ==
    /\ pc[c] = "switching"
    /\ format' = [format EXCEPT ![at[c]] = "v2"]
    /\ BeginClear(c)

\* compact of a repository that is packed already.
Recompact(c) ==
    /\ pc[c] = "packing"
    /\ Validated(View(c, at[c]))
    /\ format[at[c]] = "v2"
    /\ BeginClear(c)
    /\ UNCHANGED format

\* Chunks are removed before manifests.
ClearObject(c, o) ==
    /\ pc[c] = "clearing"
    /\ o \in todo[c]
    /\ o \in Snap => todo[c] \cap Chunk = {}
    /\ Unlink(c, o)

EndClear(c) ==
    /\ pc[c] = "clearing"
    /\ todo[c] = {}
    /\ Goto(c, "leaving")
    /\ UNCHANGED <<disk, registers, ghosts>>

-----------------------------------------------------------------------------
(***************************************************************************)
(* repair: copy selected snapshots from a verified replica.                *)
(***************************************************************************)
BeginRepair(c, r) ==
    /\ Acquire(c, r)
    /\ Goto(c, "pairing")
    /\ UNCHANGED <<goal, plan, todo>>

\* Faulty variant: the replica is read without its lock.
PairUnlocked(c, r) ==
    /\ pc[c] = "pairing"
    /\ r # at[c]
    /\ from' = [from EXCEPT ![c] = r]
    /\ Goto(c, "comparing")
    /\ UNCHANGED <<disk, at, goal, plan, todo, txn, ghosts>>

\* The second lock.  A replica that is locked fails the repair.
Pair(c, r) ==
    /\ pc[c] = "pairing"
    /\ r # at[c]
    /\ lock[r] = Free
    /\ lock' = [lock EXCEPT ![r] = c]
    /\ from' = [from EXCEPT ![c] = r]
    /\ Goto(c, "comparing")
    /\ UNCHANGED <<format, loose, packed, at, goal, plan, todo, txn, ghosts>>

\* Faulty variant: only the manifests of the replica are verified.
SelectUnverified(c, S) ==
    LET donor == View(c, from[c]) IN
    /\ pc[c] = "comparing"
    /\ S \subseteq {s \in Addresses(donor) : donor[s] = "good"}
    /\ plan' = [plan EXCEPT ![c] = S]
    /\ Goto(c, "choosing")
    /\ UNCHANGED <<disk, at, from, goal, todo, txn, ghosts>>

\* Every selected snapshot of the replica is verified before anything is
\* written; without a selection all of them are.
Select(c, S) ==
    LET donor == View(c, from[c]) IN
    /\ pc[c] = "comparing"
    /\ S \subseteq Addresses(donor)
    /\ S # {} \/ Addresses(donor) = {}
    /\ \A s \in S : Verified(donor, s)
    /\ plan' = [plan EXCEPT ![c] = S]
    /\ Goto(c, "choosing")
    /\ UNCHANGED <<disk, at, from, goal, todo, txn, ghosts>>

\* Faulty variant: a snapshot is never done with.
ChooseAgain(c, s) ==
    /\ pc[c] = "choosing"
    /\ s \in plan[c]
    /\ goal' = [goal EXCEPT ![c] = s]
    /\ todo' = [todo EXCEPT ![c] = Refs[s]]
    /\ Goto(c, "copying")
    /\ UNCHANGED <<disk, plan, at, from, txn, ghosts>>

Choose(c, s) ==
    /\ pc[c] = "choosing"
    /\ s \in plan[c]
    /\ plan' = [plan EXCEPT ![c] = @ \ {s}]
    /\ goal' = [goal EXCEPT ![c] = s]
    /\ todo' = [todo EXCEPT ![c] = Refs[s]]
    /\ Goto(c, "copying")
    /\ UNCHANGED <<disk, at, from, txn, ghosts>>

\* Make object o of the destination what it is in the replica.
Mend(c, o) ==
    IF View(c, at[c])[o] = "good"
    THEN UNCHANGED <<disk, txn, ghosts>>
    ELSE Write(c, o, View(c, from[c])[o])

CopyChunk(c, h) ==
    /\ pc[c] = "copying"
    /\ h \in todo[c]
    /\ Mend(c, h)
    /\ Visited(c, h)
    /\ UNCHANGED <<pc, at, from, goal, plan>>

CopyManifest(c) ==
    /\ pc[c] = "copying"
    /\ todo[c] = {}
    /\ Mend(c, goal[c])
    /\ Goto(c, "checking")
    /\ UNCHANGED <<at, from, goal, plan, todo>>

\* The repaired snapshot is verified before the next one is chosen.
CheckRepaired(c) ==
    /\ pc[c] = "checking"
    /\ Verified(View(c, at[c]), goal[c])
    /\ Goto(c, "choosing")
    /\ UNCHANGED <<disk, registers, ghosts>>

EndRepair(c) ==
    /\ pc[c] = "choosing"
    /\ plan[c] = {}
    /\ Goto(c, "leaving")
    /\ UNCHANGED <<disk, registers, ghosts>>

-----------------------------------------------------------------------------
(***************************************************************************)
(* The environment.                                                        *)
(***************************************************************************)

\* An operator who knows that the process is gone removes its lock file.
ClearStale(r) ==
    /\ lock[r] = Stale
    /\ lock' = [lock EXCEPT ![r] = Free]
    /\ UNCHANGED <<format, loose, packed, pc, registers, ghosts>>

\* The medium corrupts or loses an object.  Operations assume that the tree
\* does not change under them, so this happens between operations only.
Damage(r, o, health) ==
    /\ lock[r] \notin Client
    /\ Disk(r)[o] = "good"
    /\ Cardinality(damaged[r]) < MaxDamage
    /\ IF format[r] = "v1"
       THEN /\ loose' = [loose EXCEPT ![r][o] = health]
            /\ UNCHANGED packed
       ELSE /\ packed' = [packed EXCEPT ![r][o] = health]
            /\ UNCHANGED loose
    /\ damaged' = [damaged EXCEPT ![r] = @ \cup {o}]
    /\ UNCHANGED <<lock, format, pc, registers, kept>>

-----------------------------------------------------------------------------
(***************************************************************************)
(* The specification.                                                      *)
(***************************************************************************)
Init ==
    /\ lock = [r \in Repo |-> Free]
    /\ format = [r \in Repo |-> "v1"]
    /\ loose = [r \in Repo |-> Empty]
    /\ packed = [r \in Repo |-> Empty]
    /\ pc = [c \in Client |-> "idle"]
    /\ at = [c \in Client |-> Nil]
    /\ from = [c \in Client |-> Nil]
    /\ goal = [c \in Client |-> Nil]
    /\ plan = [c \in Client |-> {}]
    /\ todo = [c \in Client |-> {}]
    /\ txn = [c \in Client |-> Empty]
    /\ damaged = [r \in Repo |-> {}]
    /\ kept = [r \in Repo |-> {}]

Begin(c) ==
    \E r \in Repo :
        \/ \E s \in Snap : BeginCreate(c, r, s) \/ BeginRead(c, r, s)
        \/ BeginList(c, r)
        \/ BeginPrune(c, r)
        \/ BeginCompact(c, r)
        \/ BeginRepair(c, r)

\* The steps an operation takes once it has begun.
Create(c) ==
    \/ \E h \in Chunk : ReuseChunk(c, h) \/ StoreChunk(c, h)
    \/ PublishManifest(c)

Read(c) == EndRead(c) \/ \E o \in Object : ReadObject(c, o)

Prune(c) ==
    \/ \E keep \in SUBSET Snap, keepLast \in 0..Cardinality(Snap), apply \in BOOLEAN :
           Retain(c, keep, keepLast, apply)
    \/ \E s \in Snap : UnlinkManifest(c, s)
    \/ BeginSweep(c)
    \/ \E h \in Chunk : UnlinkChunk(c, h)
    \/ EndSweep(c)

Compact(c) ==
    \/ Pack(c) \/ ReplaceDatabase(c) \/ SwitchFormat(c) \/ Recompact(c)
    \/ \E o \in Object : ClearObject(c, o)
    \/ EndClear(c)

Repair(c) ==
    \/ \E r \in Repo : Pair(c, r)
    \/ \E S \in SUBSET Snap : Select(c, S)
    \/ \E s \in Snap : Choose(c, s)
    \/ \E h \in Chunk : CopyChunk(c, h)
    \/ CopyManifest(c) \/ CheckRepaired(c) \/ EndRepair(c)

Leave(c) == ReleaseReplica(c) \/ Commit(c) \/ Unlock(c)

Continue(c) ==
    Create(c) \/ Read(c) \/ Prune(c) \/ Compact(c) \/ Repair(c) \/ Leave(c) \/ Fail(c)

Environment(r) ==
    \/ ClearStale(r)
    \/ \E o \in Object, health \in {"absent", "bad"} : Damage(r, o, health)

Next ==
    \/ \E c \in Client : Begin(c) \/ Continue(c) \/ Crash(c)
    \/ \E r \in Repo : Environment(r)

Spec == Init /\ [][Next]_vars

\* A call that has begun keeps running until it returns, raises or is killed,
\* and somebody removes the lock file of a dead process in the end.
FairSpec ==
    /\ Spec
    /\ \A c \in Client : WF_vars(Continue(c))
    /\ \A r \in Repo : WF_vars(ClearStale(r))

-----------------------------------------------------------------------------
(***************************************************************************)
(* Safety.                                                                 *)
(***************************************************************************)

\* Whoever is inside an operation owns the lock file of its repository, and a
\* repair owns a second one as well.
HoldsLocks(c) ==
    pc[c] # "idle" =>
        /\ lock[at[c]] = c
        /\ from[c] # Nil => lock[from[c]] = c /\ from[c] # at[c]

\* The sentinel excludes: no two calls are ever inside one repository, as the
\* owner of a repository or as the reader of a replica (_lock, repair).
LocksExclude == \A c \in Client : HoldsLocks(c)

\* Whatever was interrupted where, a manifest on disk is the manifest of a
\* complete snapshot: each chunk it refers to is there and decodes, unless the
\* medium lost it ("never publishes an incomplete snapshot").
SnapshotsComplete ==
    \A r \in Repo : \A s \in Addresses(Disk(r)) : \A h \in Refs[s] :
        Disk(r)[h] = "good" \/ h \in damaged[r]

\* A snapshot that was committed once stays until a prune gives it up: no
\* conversion, failed repair, kill or later create makes it disappear.
KeptSnapshotsSurvive ==
    \A r \in Repo : \A s \in kept[r] \ damaged[r] : Disk(r)[s] = "good"

\* An object goes bad on the medium only: a repair does not spread the damage
\* of one replica to the other ("complete the donor verification before
\* changing destination objects").
DamageDoesNotSpread ==
    \A r \in Repo : \A o \in Object : Disk(r)[o] = "bad" => o \in damaged[r]

\* What a verification, a restore or a listing has still to read does not change
\* under it, whatever other processes create, prune or compact meanwhile
\* ("maintenance cannot remove an in-use object").
StableWhileRead ==
    [][\A c \in Client : pc[c] = "reading" /\ pc'[c] = "reading"
           => View(c, at[c])' = View(c, at[c])]_vars

\* The replica a repair copies from does not change from the moment it is
\* locked: what the repair verified is what it copies, also when a repair in the
\* opposite direction wants to write there.
ReplicaStable ==
    [][\A c \in Client : from[c] # Nil /\ from'[c] # Nil
           => View(c, from[c])' = View(c, from[c])]_vars

\* Switching a repository to the packed format changes no object a reader
\* finds ("no snapshot history is discarded").
ConversionPreserves ==
    [][\A r \in Repo : format'[r] # format[r] => Disk(r)' = Disk(r)]_vars

\* A prune of a loose repository that reaches its end has removed the orphans
\* of every interrupted run before it ("rerun prune to finish").
PruneLeavesNoOrphans ==
    [][\A c \in Client : pc[c] = "sweeping" /\ pc'[c] = "leaving"
           => Inventory(Disk(at[c])) \subseteq Live(Addresses(Disk(at[c])))]_vars

\* The repositories implement the abstract histories.
History == INSTANCE SnapshotHistory WITH
    owner <- lock,
    history <- [r \in Repo |-> {s \in Snap : Verified(Disk(r), s)}],
    lost <- damaged

ImplementsHistory == History!Spec

-----------------------------------------------------------------------------
(***************************************************************************)
(* The inductive invariant.  The safety properties above speak of what is  *)
(* on disk; they are inductive only together with what each operation      *)
(* knows at each of its steps.                                             *)
(***************************************************************************)

\* A store of which bad is what the medium lost and S what must survive.
Sound(store, bad, S) ==
    /\ \A s \in Addresses(store) : \A h \in Refs[s] : store[h] = "good" \/ h \in bad
    /\ \A s \in S \ bad : store[s] = "good"
    /\ \A o \in Object : store[o] = "bad" => o \in bad

RepositoriesSound == \A r \in Repo : Sound(Disk(r), damaged[r], kept[r])

\* The steps that know a snapshot, a replica, or that the format is "v1".
WithGoal == {"storing", "copying", "checking"}
WithReplica == {"comparing", "choosing", "copying", "checking"}
Loose == {"unlinking", "sweeping", "replacing", "switching"}

RegistersKnown(c) ==
    /\ pc[c] # "idle" => at[c] \in Repo
    /\ pc[c] \in WithGoal => goal[c] \in Snap
    /\ pc[c] \in WithReplica => from[c] \in Repo
    /\ from[c] # Nil => pc[c] \in WithReplica \cup {"leaving", "unlocking"}
    /\ pc[c] \in Loose => format[at[c]] = "v1"
    /\ pc[c] = "clearing" => format[at[c]] = "v2"

\* What will be committed is as sound as what is on disk.
ViewSound(c) ==
    pc[c] \notin {"idle", "unlocking"} =>
        Sound(View(c, at[c]), damaged[at[c]], kept[at[c]])

\* The chunks of the snapshot in work that were visited are there.
VisitedStored(c) ==
    pc[c] \in {"storing", "copying"} =>
        \A h \in Refs[goal[c]] \ todo[c] : View(c, at[c])[h] = "good"

\* The snapshots that a repair copies are restorable from its replica.
DonorVerified(c) ==
    /\ pc[c] \in {"choosing", "copying", "checking"} =>
           \A s \in plan[c] : Verified(View(c, from[c]), s)
    /\ pc[c] \in {"copying", "checking"} => Verified(View(c, from[c]), goal[c])
    /\ pc[c] = "copying" => todo[c] \subseteq Refs[goal[c]]

\* A prune removes no manifest that must survive and, once it sweeps, no chunk
\* that a manifest refers to.
RemovalsUnreferred(c) ==
    /\ pc[c] = "unlinking" =>
           /\ todo[c] \cap kept[at[c]] = {}
           /\ \A s \in Addresses(loose[at[c]]) \ todo[c] : Refs[s] \cap todo[c] = {}
    /\ pc[c] = "sweeping" =>
           \A s \in Addresses(loose[at[c]]) : Refs[s] \cap todo[c] = {}

\* The database a compact installs holds what the loose repository holds.
ConversionExact(c) ==
    /\ pc[c] \in {"replacing", "switching"} => txn[c] = loose[at[c]]
    /\ pc[c] = "switching" => packed[at[c]] = txn[c]

Consistent(c) ==
    /\ HoldsLocks(c)
    /\ RegistersKnown(c)
    /\ ViewSound(c)
    /\ VisitedStored(c)
    /\ DonorVerified(c)
    /\ RemovalsUnreferred(c)
    /\ ConversionExact(c)

Inductive ==
    /\ TypeOK
    /\ RepositoriesSound
    /\ \A c \in Client : Consistent(c)

-----------------------------------------------------------------------------
(***************************************************************************)
(* Liveness, under FairSpec.                                               *)
(***************************************************************************)

\* Every call returns, raises or is killed.
OperationsEnd == \A c \in Client : pc[c] # "idle" ~> pc[c] = "idle"

\* A repository does not stay locked for ever, whoever dies holding it.
LocksAreReleased == \A r \in Repo : lock[r] # Free ~> lock[r] = Free

=============================================================================
