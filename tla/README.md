# A formal model of UC2

UC2 reads, writes and serves archives in the UltraCompressor II format. This
directory holds TLA+ models of the parts of it that keep state, share state
with other processes or have to survive failures, and of the coders and the
program of 1992 to 1995 whose format they keep; the TLC configurations that
check them; and TLAPS proofs about the most critical of them. Paths below are
relative to `src/`.

- [1. The system](#1-the-system)
- [2. The modules and the code](#2-the-modules-and-the-code)
- [3. The runs](#3-the-runs)
- [4. Fairness](#4-fairness)
- [5. The proofs](#5-the-proofs)
- [6. What the models showed](#6-what-the-models-showed)
- [7. What is left out](#7-what-is-left-out)
- [8. Plan](#8-plan)

## 1. The system

### 1.1 Components

| Component | Code | State it keeps | Operations |
|---|---|---|---|
| Snapshot repository | `python/uc2/snapshot.py` | a directory of content-addressed chunks and manifests, loose (`"v1"`) or in `objects.sqlite3` (`"v2"`); `config.json`; the sentinel `.writer-lock` | create, restore, verify, snapshots, prune, repair, compact |
| Archive writer | `python/uc2/_writer.py`, `python/writer.c`, `lib/src/uc2_writer.c` | entries, a spool of their contents, two views of the directories, a temporary file, the destination | mkdir, write_stream, write, writestr, close, abort |
| Archive reader | `lib/src/decompress.c`, `python/native.c`, `python/uc2/__init__.py` | a handle, the records of the dictionaries ("masters"), the decoded ones, `needed_by` links, counted memory, an index of names | open, extract, copy_to, close |
| Archive mount | `python/uc2/_mount.py` | decoded files with their sizes, least recently used first; the archive's signature; a lock | getattr, readdir, open, read |
| Browser reader, page and worker | `web/app.js`, `web/worker.js` | the pending job, the archive on show, marks of checked entries; per worker an open decoder | open, verify, download, ZIP export, cancel |
| Browser reader, offline shell | `web/sw.js`, `web/offline.js` | caches by version, a service worker registration, open tabs | install, activate, fetch, repair |
| ZIP writer, decoder bridge | `web/zip.js`, `web/bridge.c` | none beyond a call | |
| Ingest containers | `cli/src/main.c` (`ingest_*`), `lib/src/uc2_ingest.c`, `uc2_cdc.c`, `uc2_merkle.c`, `uc2_blockstore.c` | a container file or a directory of chunks, a hash map of chunks, a temporary file | ingest, extract, verify |
| Command line | `cli/src/main.c`, `cli/src/ingest_tar.c` | the tree of an archive with its marks, one path buffer, a staged output file; a tar stream's extensions and directories | create, list, extract, test, ingest |
| Time stamps | `lib/src/uc2_ots.c`, `cli/src/main.c` (`cmd_ots_*`) | a trailer behind the archive | attach, extract, verify |
| Volumes, self-extracting archives, paths | `lib/src/uc2_path.c`, `uc2_sea.c` | a spool of joined parts | open |
| Safe extraction | `python/uc2/_extract.py` | files under a directory descriptor | extract |
| Batch preservation | `python/uc2/preserve.py` | a staged directory, a reserved destination | preserve |
| Stream coders | `lib/src/compress.c`, `decompress.c`, `uc2_rans.c`, `uc2_lz4.c`, `uc2_tables.c`, `uc2_preprocess.c`, `uc2_delta.c` | bit registers, a ring with hash chains, a decoding window, code trees | compress, extract |
| Original UltraCompressor II | `original/UC2_source/src/` | a catalogue in swapped memory, cached files, archive, temporary and recovery files, DOS disk | add, delete, extract, move, repair, optimise |
| Integrations | `contrib/` (libarchive, Total Commander, Midnight Commander, libuc2read) | the reader's | adapters |
| Tests, tooling | `tests/`, `scripts/`, `cmake/`, `docs/` | | exercising the program |

### 1.2 How they interact

- Everything that stores bytes goes through the writer or the compressor, and
  everything that reads goes through the reader. The snapshot repository stores
  each chunk as a one-entry archive; the mount decodes each file with a fresh
  reader; the browser compiles the decoder to WebAssembly behind `bridge.c`.
- The Python objects call native code that calls back: the decoder asks Python
  for pieces of the source, and releases the interpreter to other threads while
  it does. `busy` flags turn calls that meet inside an object away.
- Processes meet in the file system only: `.writer-lock`, links, renames, one
  SQLite database, and the destination of a writer.
- The formats of the library are those of the original program: its readers must
  accept what the old writers wrote, and its trees must be the same bit for bit.
- The command line passes one path buffer through a tree of directories, and one
  set of pending extensions through a tar stream.
- The page and its workers meet in messages, which may arrive after the one who
  sent them was terminated. The service workers of two builds meet in the cache
  storage, and each meets the server, whose files change one by one.

### 1.3 What is hard

- **Kills, power failures and leftovers.** An operation on a repository is a
  sequence of links, renames, unlinks and fsyncs, each of which may be the last.
  The next operation must be able to build on what it finds, and does so
  deliberately: a chunk that is there is not written again.
- **Interleaving.** Between processes on a repository or two, between two
  writers of a destination, between threads in the mount, between a page, its
  worker and the user, between service workers of different builds.
- **Events out of order.** A reply of a job that was cancelled, an error event
  of a worker that was replaced, a sample that arrives after Cancel, a timer that
  races the answer, a deployment between two fetches.
- **Failure in the middle.** A decode after an eviction, the fifth link of a
  walk through dictionaries, the second directory of a path, the third object of
  a repair.
- **Limits.** Cache bytes and entries, decoder memory, entries and input of a
  writer, groups of 256.
- **Edges of registers and rings.** A field that ends with its word, a match behind
  the ring, a code longer than its tree may be, a frequency that wraps.
- **One buffer for everything.** The path of an extraction, the results of the
  original's `V()`, the blocks all its files share.
- **Coincidence.** Two contents with one digest, two with one chunk hash.

### 1.4 What makes each part correct

| Part | Correctness |
|---|---|
| Repository | a manifest on disk has its chunks; a committed snapshot stays until a prune gives it up; a repair never copies damage; a conversion changes nothing; what returned survives a power failure; nobody works in a repository beside another; every operation ends and every lock is released |
| Writer | what close leaves reads back as exactly what was added; counts a reader relies on are true; the destination is replaced whole or not at all |
| Reader | an answer is true of the archive whatever failed before it; cached dictionaries are whole; memory is counted and bounded; every call ends, on cyclic archives as well |
| Mount | bounds hold during a decode; only verified originals are served, in one piece; no call keeps the lock |
| Page | a mark or a download is true of the archive on show; busy means working; cancelled means closed |
| Publications | a name holds the old or the new, whole, whoever else uses it; only one's own is removed |
| Source reading | a snapshot holds each file as it was at one moment |
| Containers, time stamps | the stream comes back, the library under it is kept; a proof is accepted only when sound and about this archive |
| Volumes | what opens is one whole archive, but for a mixture of sets whose totals are equal, which the code cannot tell apart |
| Command line | the archive holds the tree, patterns select and show what they say, an extraction puts it where it says |
| Coders | what was stored is read back, cut short it is refused or whole; both programs make the same trees |
| Original | memory, pipes and files give back the last write; no revision is lost or changed unasked; one copy survives every kill |
| Offline shell | a page gets one build; an active worker has its shell; a failing update loses nothing |

`PROJECT.json` lists, under `hazards`, where in the code each of these could go
wrong and which property would notice.

## 2. The modules and the code

`PROJECT.json` maps every definition to the lines it stands for. Operators named
"Faulty variant" are never used by a specification: each is a form of a definition
with a plausible bug, and shows that the property it is paired with (under
`mutants`) notices the bug.

### 2.1 SnapshotRepo, SnapshotHistory and their proofs

`SnapshotRepo` has several processes that run all seven operations on several
repositories. An object is a chunk or a manifest, and its health is what a reader
would find: absent, good, or bad. `loose` and `packed` are the two stores,
`format` says which is in force, `lock` is the sentinel. A process has a program
counter and registers for the loop it is in; one action is one change of the disk
(one `link`, `unlink` or `replace`), or one object read, or one transaction of
SQLite committed. Between two actions anyone else may act, the process may be
killed (`Crash`: its sentinel becomes `Stale` and its transaction is rolled back),
or the operation may raise (`Fail`). `Environment` is the operator who removes a
stale sentinel (`docs/snapshots.md:49-56`) and the medium, which damages objects
nobody is using.

| Code | Actions |
|---|---|
| `_lock` | Acquire (in every Begin), Commit, Unlock, Forget, Fail, Crash |
| `create`, `_store`, `_save_manifest` | BeginCreate, ReuseChunk, StoreChunk, PublishManifest |
| `restore`, `verify`, `snapshots` | BeginRead, BeginList, ReadObject, EndRead |
| `prune` | BeginPrune, Retain, UnlinkManifest, BeginSweep, UnlinkChunk, EndSweep |
| `compact` | BeginCompact, Pack, ReplaceDatabase, SwitchFormat, Recompact, BeginClear, ClearObject, EndClear |
| `repair` | BeginRepair, Pair, Select, Choose, CopyChunk, CopyManifest, CheckRepaired, EndRepair, ReleaseReplica |

`SnapshotHistory` is the promise without chunks, formats or steps: a repository
has an owner and a set of restorable snapshots; only the owner adds to the set or
gives up a part of it, never all; the medium may lose some. `SnapshotRepo`
implements it with the snapshots that verify as the history. `SnapshotRepoProofs` proves
what section 5 says, the refinement included; every other `*Proofs` module belongs to the module it is
named after.

### 2.2 SnapshotDurability, Publishing, SourceReading and their proofs

`SnapshotDurability`: what a power failure leaves. Files are flushed before they get a name, so what can
be lost is directory entries: for every entry the model keeps its present value
and the set of values the disk may hold. Changing an entry adds to the set,
`fsync` of its directory reduces the set to the present value, and a power
failure picks from it. The operations appear with their fsyncs where the code has
them (`_publish_file`, `_chunk_path`, `prune`, `compact`). Because the sentinel
admits one operation at a time, which `SnapshotRepo` establishes, there is one
process. Entries that an interrupted operation left unsynced are observed
(`unsure`): the code does not go back to sync them. `tool` states what
holds with that exception, `retry` shows what happens without.

`Publishing`: three ways to put something at a name, system call by system call:
the first creation of a repository (`_repository`, which looks and makes outside
the lock), a file linked or replaced (`_extract.py`), a report's directory staged,
reserved with `mkdir` and renamed (`preserve.py`). Two processes do it at once,
either may be killed, and another program makes and removes things at the name.
`SourceReading`: `create`'s walk of one directory, with the `stat` results it
compares, while files are written, replaced and removed.

### 2.3 ArchiveFormat, ArchiveWriter, ArchiveStore

`ArchiveFormat` has the pure part of both ends of the format: which files are
duplicates, how files with a common beginning are put in groups that share a
dictionary (`group_files`), how the directory is laid out (`assemble`), and how a
reader finds dictionaries, data and names in it. Contents are short sequences; two of the blocks
have the same digest and two the same chunk hash, because the
code compares bytes where digests agree and the model must be able to tell.

`ArchiveWriter` has writers with their entries, spool and tables of names, in both
layers; `Name` is what a part of a path may be, and every path a writer is used with is a nonempty sequence of
such parts: `_writer.py` makes the missing directories of a path one native call at a
time and keeps its own table. An add is one step (the writer refuses
other calls meanwhile); close is MakeTemporary, Finish, Sync, Replace, Release,
with failures, kills and power failures between. `ArchiveStore` is the promise: a
path always holds one whole archive, a close replaces it in one step by exactly
what was added, nothing else changes it but a power failure, which may bring an
earlier whole archive back.

### 2.4 ArchiveReader and the coders

`ArchiveReader` has one open archive. `needs` is any function from dictionaries to dictionaries, so
that chains, trees, gaps and cycles all occur, and any one stream is damaged.
`resolve_master` is taken step by step: Walk leaves a `needed_by` link, Decode
follows the links back, `GivesUp` clears them. What an answer depends on is everything below a
dictionary: `Below(m)` is the least set that holds *m* and what its members need. A step that allocates asks the
counting allocator of `native.c`, which may refuse; a step that reads may raise. A
damaged stream either fails to decode or decodes to wrong bytes, as the code keeps
no checksum of dictionaries; only the entry's own checksum catches it.

The coders under it, with the original's beside the library's where both exist:

| Module | Code |
|---|---|
| `BitStreams` | `bits_out`, `bits` of the library; `PUTBITS`, `SKIP`, `GETBITS` of `BITIO.CPP`, their buffers, lookahead and end of input |
| `HuffmanTrees`, `OriginalTrees` | `treegen`, `tree_enc`, `ht_dec`; `TREEGEN.CPP`, `TREEENC.CPP` |
| `BlockStream`, `RansBlocks` | blocks of methods 1 to 9 and of method 10, written and read |
| `TurboBlocks`, `FastBlocks` | the predictor of method 80 in both programs; LZ4 blocks |
| `MatchFinder`, `OriginalMatcher` | the rings, hash chains and lazy search of `compress.c` and `ULTRACMP.CPP` |
| `DecodeWindows` | the decoding windows of both programs, with masters, the delta filter and its analysis |
| `ByteTransforms` | `uc2_preprocess.c`, `uc2_delta.c` |

Pure functions are operators; machines (`BitStreams`, `MatchFinder`, `OriginalMatcher`,
`DecodeWindows`) take one read, token, block or word per step. Where a size of the
code is too large (a ring of 65536 bytes) it is a constant of the module; the sizes of
the trees and of rANS are the code's own.

### 2.5 MountCache

`ArchiveFS` under its lock. The bytes a file takes are counted as a set of blocks, so
that the sum the code keeps in `cached_bytes` is a cardinality and can be reasoned about. A call is one step unless it decodes; then evictions
(one each), the decoding of each block, the check of the archive's signature and
the insertion are steps, and the archive may change between them. A thread that
reads keeps a path and an offset and reads on where the last answer ended.

### 2.6 BrowserSession

The page has `pending`, `serial`, `epoch`, `busy`; each worker has its task and a queue of
replies; terminating a worker (`alive`) does not empty the queue, and its error event may
be on its way (`faults`). Actions of the page are the handlers of `app.js` up to
an `await`; what follows an `await` is an action of its own, with the `token` it
compares. A worker may fail to load, hang or stop in the middle of a ZIP.

### 2.7 OfflineShell

The server's files change one by one (`DeployAsset`, `DeployScript`), also back to
an earlier build. Service workers are installed, wait, take over and are killed as
browsers do it; `prepare`, the handlers of `install`, `activate`, `fetch` and
`message` are steps. A cache that is deleted loses its name while those who
have it open go on writing to it, which is how the Cache API behaves. Digests
are the version an asset belongs to.

### 2.8 The command line

`CommandLine` is one run of `main.c`, or a creation and a reading after it. Creation
scans the inputs in order, gives DOS names, closes directories, and stages and
commits the output. Reading takes the head and the records of the directory, builds
the tree of nodes, marks what each pattern selects part by part (`match_pattern`,
`mark`), and visits it with the callbacks of listing, testing and extraction, which
share one `path` buffer. Names are sequences of characters because the code cuts
paths by counting them, and a character may take two bytes. A write that fails inside the extraction of a
file leaves part of it and the command goes on; a failing `fclose` ends the command. `TarIngest` reads a tar
stream item by item, with pax and GNU extensions, local and global, and makes the
directories that members imply; it converts the numbers of pax records, and refuses malformed
records, sizes out of range, data that is cut short and too long a tail.
`IngestContainer` cuts a stream into chunks as `uc2_cdc.c`
does and stores them in each of the three ways, and is killed at any write; a block of
the store may be lost or cut short without being noticed, because the code ignores the failure.
`Timestamps` has the trailer and its parser, the proof's tree of operations (the walk is a function of the place
and of the operations on the way to it), and the commands that rewrite the archive's end in place: an attach may
be killed, fail, or lose the end of what it writes unnoticed. `VolumeSets` opens sets of
volumes, and self-extracting streams cut into parts, from a directory with two sets in it; the
two may have the same total length.

### 2.9 The original program

`VirtualMemory` and `FileCache` are its operating system: blocks swapped between a few
frames, extended memory and a file, with an allocator and pipes in them; files
behind caches whose blocks others take, over a DOS that may stop a transfer
halfway. `ClassicStorage` stores an archive: into a temporary file, or in place under a
recover file, each command a list of writes that is carried out cell by cell, with damage protection and `UC T`. `ClassicCatalog` has the commands on the
tree of revisions: masks with revisions, masters, moving, archive bits, time travel,
while other programs change the disk between any two steps.

### 2.10 Composition

`MCTool` and `MCCoders` run one machine each at a time, so that one run of TLC asks its
question of all of them. `MCTool` extends `SnapshotDurability`, `SourceReading`, `FileCache` and `Timestamps`, and `MCCoders`
extends `ArchiveReader`, which keep their own variables, so that what the proof modules say of these
modules is what the runs check; the other machines share registers, and a machine's actions touch only what its INSTANCE maps to them. They are disjoint unions and say nothing about two
machines at once: the interactions the code has are inside a module (two processes in
`Publishing`, two writers in `ArchiveWriter`) or between its modules (`CommandLine` extends the
reader's directory, `RansBlocks` extends `BlockStream`, `BlockStream` extends `HuffmanTrees`).

## 3. The runs

Each configuration is run with the module it starts with the name of, for instance
`tlc -config MCSnapshotRepo_two.cfg MCSnapshotRepo`; `PROJECT.json` names the
configuration of each run. The longest takes about two and a half minutes with two workers.
The proofs are checked with `tlapm` on each of `SnapshotRepoProofs.tla`, `SnapshotDurabilityProofs.tla`,
`ArchiveWriterProofs.tla`, `CodersProofs.tla`, `MountCacheProofs.tla`, `ToolProofs.tla`,
`BrowserSessionProofs.tla` and `OfflineShellProofs.tla`.

| Run | Instance | States | Shows |
|---|---|---|---|
| `repository` | 2 processes, 1 repository, 3 chunks, 2 snapshots sharing one, 1 damaged object at a time | 164 378 | no snapshot is incomplete or lost, nothing changes under a reader, a conversion changes nothing, a prune that ends leaves no orphans, the repository implements its history |
| `replicas` | 2 processes, 2 repositories, 1 chunk, 1 snapshot, every operation | 188 662 | the locks exclude; every operation ends and every lock is released |
| `repair` | 2 processes, 2 repositories in any state of 2 nested snapshots and either format, 1 damaged object each | 137 279 | repairs in both directions never publish an incomplete snapshot nor copy damage, and a replica stands still while it is copied from |
| `tool` | twelve machines: 3 chunks in 2 directories under 3 failures; 2 publishing processes and another program; 2 names, 3 changes of a source; 7 streams to ingest; 5 sets of volumes in three pairs; 20 proofs; 5 blocks of memory in 3 frames; a file of 4 cells; 3 archive members; 3 commands on 3 files; 1 202 command lines; 7 628 tar streams | 596 191 | see below |
| `mount` | 2 threads, 5 members (3 sound, 1 corrupt, 1 too large), a cache of 3 blocks and 2 files, answers of 2 blocks | 1 208 009 | bounds, only verified originals, whole files, no call keeps the lock |
| `browser` | 3 archives (sound, damaged, unreadable), 2 entries, 3 requests | 552 691 | marks and downloads are true, busy means working and ends |
| `offline` | 2 builds with a rollback, 3 service workers, 3 caches, 2 assets, 1 tab | 2 256 720 | one build per page, a failing update loses nothing |
| `writer` | up to 4 adds at the paths x, y, y/x/x; contents of 0 to 2 blocks with a digest and a hash collision; 4 entries, 5 blocks, groups of 2; a second writer | 402 965 | round trip, equal views of the names, atomic replacement |
| `reader` | every archive of 3 dictionaries, any one stream damaged, memory for two of the three; rings and windows of 16 to 48 bytes; 1 024 + 2 187 frequency tables; streams whole and cut at five places | 312 834 | see below |
| `retry` | the durability machine alone | violation | `NeverIncomplete`, without the exception |
| `extraction` | the command line alone | violation | `ExtractedInPlace`, as the manual has it |
| `rans_table` | blocks of level 6 with many rare symbols | violation | `ScaledToSum`, as the header has it |

The properties of `tool` by machine:

| Property | Machines | Says |
|---|---|---|
| `PublishedComplete`, `ReturnedDurable` | snapshots | what may be on disk after a power failure is complete, and what returned is there |
| `KeptThroughFailure` | ingest, storage, publish, command | a kill or a refusal in the middle leaves the old or the new, whole |
| `AttestsTrue` | timestamps | an attach that is killed, fails or loses writes anywhere leaves the archive, and no proof in the file is about anything else; one that lost nothing leaves its proof where it is found |
| `NoMixture` | source | a snapshot's file was once so, or is recorded as torn |
| `WholeOrNothing` | volumes | what opens is the whole of one set, or of a mixture of sets with the same total; nothing opens from a set with a part lost |
| `CacheSeesFile` | file | the cached file reads as the plain one, and its blocks add up |
| `OriginalKeeps` | memory, file, catalog, storage | the last write is read, through swaps and retries; revisions stay unless asked for, moves are safe, repairs give back |
| `CommandsRight` | command, tar, timestamps | tree, selection, listing, extraction into new places, tar members, flawed tar streams refused, only proofs accepted that are well formed |

and of `reader`: `AnswersTrue`, `CachedRight`, `CallsEnd` (the reader), `MatchesStandForData` (the library's matcher),
`WindowsDeliver` (the decoding windows), `StoredIsReadBack` (bit streams, whole coders, the original's matcher), `TreesAgree` (both tree builders).

### Why these bounds are enough

- *Two processes.* The sentinel is one file: what a third process can do to the
  second is what the first can. Two repairs in opposite directions are the
  smallest circular wait. In `repair` the clients and repositories are
  interchangeable, and so are the clients in `repository`, so symmetry is sound there (no liveness is checked
  with it).
- *Two snapshots with one chunk in common* is the smallest case in which removing
  one may break the other; a chunk of its own for each lets a prune and a repair have
  something to do. In `repair` one snapshot extends the other, so that a replica can be
  ahead.
- *`replicas` has one chunk* because its subject is locks and termination, over
  both repositories and all operations, and liveness is checked on the whole graph.
- *Three failures*: one interruption suffices for either finding; three let an
  interruption, another one of the operation that builds on it and a power failure
  follow each other, so that the exceptions are not widened by a repeated one.
- *The cache of the mount* holds two small files or one large, so that bytes and
  entries each are the reason of an eviction, one decode may evict several files, and a member
  is larger than the cache.
- *Three requests of the page* are an archive, a job that is cancelled and an
  archive after it, the shortest history in which a late reply can be mistaken;
  every worker started has a number, so that two terminated ones can be told apart.
- *Three service workers*: an active, a waiting and an installing one exist
  at once only with three.
- *The writer's contents*: an empty file, duplicates, files with one digest and
  different bytes, files with one chunk hash and different bytes. Groups of two stand
  for the code's 256, so that four adds fill one group, leave a second with a single
  file, and leave files over; a dictionary of one block (`MasterMax`) is shorter than the longest file.
- *Rings of 16 and 24 bytes, windows of 16*: small enough to wrap several times in an
  input of twenty to forty bytes, and just larger than the longest match plus the margin.
- *All tables of five symbols with four frequencies, and of seven with three*, under limits of 3
  and 4 bits: most of them force the repair of a tree that is too deep, over every order of equals.
- *Frames*: three, because `V()` results of the last call, an access in progress and a
  block swapped in are then all there are; the arrays have four, and boosting goes to five, as the code does, and back.
- *Command lines*: patterns in both orders, with revisions, wildcards over directories and names
  at the limit of 255 characters (here 5), trees at the limit of depth, old directories with
  short records, unknown tags, missing parents; names that are themselves patterns (`[`), a file with
  the name of a directory, and a disk that fills up in the middle of a file of two bytes, at its close, or while printing.
- *Tar streams* of up to four items from nine kinds: an extension, a member it is for, a member
  it is not for, and the directory both imply. 240 of them have one flaw: a malformed record, a number that is none
  or does not fit, a size over the limit, a block or member cut short, a tail beyond the limit.
- *Volumes*: three pairs of sets on one shelf, two SAS sets of different totals, two of the same, and two of
  self-extracting streams, since the total is the one thing that tells SAS sets apart.
- *Block stores*: up to two blocks are lost or cut short, so that a chunk used once and one used twice are met.
- *Three dictionaries* give cycles of every length up to three, chains with a gap at each
  place, and one more dictionary than the memory limit allows.

Deadlock is checked in every run but those where something really ends: `browser`, where the page
stops for good once its three requests are used up, and `tool`, `reader` and the
violation runs on them, whose machines run a command or a coder to its end.

## 4. Fairness

- `replicas` (`SnapshotRepo!FairSpec`): an operation that has begun goes on until
  it returns, raises or is killed: it waits for nothing, as the sentinel refuses instead of
  blocking. And somebody removes the sentinel of a dead process in the end, as
  `docs/snapshots.md:49-56` asks. No fairness says that anyone calls an operation.
- `browser` (`FairSpec`): the timer fires, because its limit runs from the start
  of the job and is not extended by progress (`app.js:72-79`), and a `fetch` is
  answered or fails. Workers have no fairness: they may hang.
- `reader` (`MCSpec`): a call inside the decoder goes on; it waits for nothing
  but the source, whose failure is one of its steps.
- `mount`: no fairness is needed for its property, which says that the call
  inside the lock always has a next step and that each brings it nearer to its end.

## 5. The proofs

Each theorem holds for every value of the constants that the assumptions of its module allow:
any number of processes, repositories, chunks, snapshots, threads, files, archives, builds, tabs, kills and
power failures.

| Module | Theorem | Property | In words |
|---|---|---|---|
| `SnapshotRepoProofs` | TypeCorrect | | variables keep their types |
| | Exclusion | LocksExclude | whoever is inside an operation owns the sentinel of its repository, and of the replica it reads |
| | Completeness | SnapshotsComplete | a manifest on disk has its chunks, unless the medium lost them |
| | Survival | KeptSnapshotsSurvive | a committed snapshot stays, unless a prune gave it up or the medium lost it |
| | NoSpread | DamageDoesNotSpread | no operation makes an object bad |
| | Conversion | ConversionPreserves | switching the format changes nothing a reader finds |
| | Stability | StableWhileRead | nothing changes under a reader of the repository |
| | DonorStable | ReplicaStable | a replica does not change from the moment a repair has locked it |
| | NoOrphans | PruneLeavesNoOrphans | a prune that ends leaves no chunk that nobody refers to |
| | Refinement | ImplementsHistory | the repositories implement their histories |
| `SnapshotDurabilityProofs` | Published | PublishedComplete | no power failure exposes a manifest without its chunks, but for what was left unsynced |
| | Durable | ReturnedDurable | what create returned for is there after any power failure, with the same exception |
| | ReadWhole | NoMixture | what a snapshot records as read whole was in the file at one time |
| `MountCacheProofs` | Verified | OnlyVerified | only verified files of the unchanged archive are cached |
| | WholeFiles | ReadsWholeFile | who reads to the end has had every byte |
| | Bounded | DiskBounded | the cache, the file being decoded included, stays within its bytes and its files |
| | CallsShorten | | every step of the call that holds the lock brings it nearer to its end |
| `CodersProofs` | CacheStands | CachedRight | a cached dictionary stands on cached ones and is right unless something below it is damaged; memory is counted and bounded |
| | SaysTrue | AnswersTrue | an extraction gives data of intact entries only, calls only damaged ones damaged, and reports the limit exactly when it was refused memory |
| | TokensStandForData | MatchesStandForData | what the match finder codes is the file at every step, and no block overruns its buffer |
| | TokensDelivered | WindowsDeliver | what the library and the original write is a beginning of what the tokens stand for, all of it when done, and damage is told only of a damaged or too long raw stream |
| `ArchiveWriterProofs` | NamesAgree | ViewsAgree | the two layers of the writer agree on what is at every name, and under which identifier |
| | WrittenReadsBack | RoundTrip | a finished archive is acceptable, reads back as what was added, and counts what needs each dictionary |
| | WriterImplements | ImplementsStore | the writers of a destination implement the archive that changes only as a whole |
| `ToolProofs` | WholePublished | (`PublishedWhole`) | nobody sees half a report, file or repository at a name |
| | OneReturned | (`OneReport`) | of several processes one returns for a report |
| | OthersKept | (`NothingTaken`) | what is there and filled is taken away or replaced only by another program or an extraction that was told to |
| | FileAsWritten | CacheSeesFile | reads, writes, seeks and retries through the cache are those of a plain file |
| | BlocksAccounted | (`BlocksBack`) | every block the cached files hold is counted, and comes back |
| | StampsAttest | AttestsTrue | the archive stays in front of its trailer through every kill, failure and lost write; whatever proof is found attests the whole archive; what was attached without loss is found again |
| | ArchiveSurvives | (`OneCopyGood`) | of an archive one good copy, or what it is made of again, is left by every command, failure and kill; a protected one verifies |
| | RepairsRestore | (`RepairGivesBack`) | a repair gives back the archive; a damaged one never verifies |
| `BrowserSessionProofs` | SessionTypes | | variables keep their types, counters their bounds |
| | MarksTrue | ChecksAreTrue | marks are true of the archive on show |
| | SavesTrue | SavesAreVerified | so is what was saved |
| | BusyRight | BusyWhileWorking | busy means working, cancelled means closed |
| `OfflineShellProofs` | ServedMatch | ServedPagesMatch | one build per page, a whole shell per active worker |
| | WorkingKept | WorkingCacheKept | a failing installation takes nothing from the worker in use |

They rest on the named assumptions of the modules about their constants: each snapshot
refers to some of the chunks, snapshots are numbers (their order stands for the
time of creation) and no chunks, special values of locks and
registers are different from the others. `DurabilityAssumption` is a hypothesis of the two theorems
on power failures, which `MCTool` has TLC evaluate for its instance. `ReadingAssumption`: any names that are
left have one that is sorted first. `StorageAssumption`: sectors, groups and
archives are not empty; it is a hypothesis too. `FileCacheAssumption`: the part of a block that a short read fills (2048 bytes) holds
what is asked for (less than 500). `MatchAssumption`: a match as far as may be, one read and the bytes that wait for it fit into the ring
(64000 + 512 + 3 of 65536), and a block has room for what is added before it is found full (27000 of 32768).
`TimestampsAssumption`: neither the archive nor a proof has the bytes of a magic or, where a trailer
keeps its numbers, of a number, and nobody has stamped this archive together with something behind it, as the rest of an attach
that was killed. A digest stands for what it is the digest of (`SHA256` is a definition), so no two contents share one.
`WindowAssumption`: the window is even and larger than the room asked for before a token, which is the longest match
(35482 of 65536); a master fits into the window and a distance reaches no further. The library's decoder is proved right for any tokens, sensible or not; the
original's, which checks none, for those a compressor writes (`Trusted`).

No safety property here is inductive, and every invariant that is was given to TLC before it
was proved.

**The repositories.** Whether a step keeps a
manifest complete depends on what the operation knows at that step, and whether
that knowledge is still true depends on nobody else having changed the repository.
The inductive invariant (`Inductive`, in `SnapshotRepo`) therefore joins:

- `RepositoriesSound`: every repository is complete, keeps what it must keep, and
  has nothing bad that the medium did not make bad;
- `HoldsLocks`, `RegistersKnown`: a process inside an operation owns its
  repositories, and which registers mean something at which step;
- `ViewSound`: what its transaction will commit is as sound as the disk;
- `VisitedStored`: the chunks a create or a repair has passed are there;
- `DonorVerified`: what a repair copies verifies in the replica;
- `RemovalsUnreferred`: what a prune is still going to unlink is neither kept nor referred to by a manifest that stays;
- `ConversionExact`: the database a compact installs equals the loose store.

The argument: a step of process *c* changes only what *c* owns (`Undisturbed`), so what
the others know stays true (`UndisturbedConsistent`); one lemma per action shows
that it re-establishes what *c* must know next. `Write` and the removals are
treated once (`SoundWrite`, `SoundRemove`, `SoundDamage`). Stability follows from the same
frames. NoOrphans needs the converse of `RemovalsUnreferred` as an invariant beside it
(`OrphansListed`): what nobody refers to is still on the list of the prune.

**The histories.** Refinement needs to know which snapshots a step can lose or gain, and the
invariant above says only that none is lost that must be kept. `Traceable` adds
that damaged objects are not good on disk; that a prune which
unlinks found every snapshot in order and retains one; and that uncommitted rows
restore what the committed ones do, or are those of a prune and fewer. Then each step of an operation is one
step of a history or none (`AddStep`, `DiscardStep`, `NoStep`).

**Power failures.** `DurabilityInv` speaks of what the disk may hold. `Flushed`: an entry is synced, or unsure, or
in flight for a reason the step of the operation gives. `ClaimsHold`: a manifest that is there, or may come back though
nothing is unsure about it, has its chunks, as long as the loose format is in force. `Storing`, `Pruning` and
`Compacting` say why nothing in flight belongs to such a manifest: what is being made was not there before, and
what is being removed nobody refers to, because the removal of manifests was synced first. `PromisesKept` carries what
returned through the switch of the format. The exception for unsure entries is exactly what the invariant
cannot do without, as the run `retry` shows.

**Reading a source.** `ReadingInv` relates what the walk holds to a directory that changes under it. The chunks
read so far are the file's as it is now, unless its time has changed since it was opened (`PrefixRead`); then
the comparison after the last read does not let it pass. A name that is unlinked while its
file is open keeps that file, and the proof has the file and not the name in it. `NamesAccounted`: the names left to
read, the one being read and those recorded are the directory's, unless the directory's time has changed. `WorldSound` adds that
no time is ahead of the clock, so that any later change is seen as one.

**The mount.** `MountInv`: an archive that changed stays changed (`Untainted`), so what was decoded from it is
not inserted; past the checks a call is about a file that is in the cache when it is served and not
before (`Located`); an offset is where the thread's last answer ended (`Tracked`). The bounds need `Spacious` beside
it: `cached_bytes` is the number of blocks of the cached files, which are different files, so an eviction
frees exactly what it subtracts; and from the end of the evictions to the insertion there is room for the
whole of the file. CallsShorten is the half of the run's `CallsEnd` that the provers can treat: a rank that every
step lowers. That a step is always possible is an ENABLED and left to TLC.

**The reader.** A dictionary may need any other, so the graph of needs has cycles and gaps, and nothing can be said by
induction on depth. `Below(m)` is the least closed set, and `Grounded(m)` says that it holds neither a cycle nor a
missing dictionary. `ReaderInv` is about the links a walk leaves: each leads from a dictionary to one that needs it and on to the entry's
own (`Links`); the walk has linked everything between the entry and the cursor and nothing else (`Walks`), so that
meeting a linked dictionary again is a cycle; on the way back what the next dictionary needs is
decoded (`Decodes`). `Standing` then says of every cached dictionary, from whichever call, that it is grounded, stands on cached
ones and is right unless something below it is damaged, and that survives any call that gives up halfway.
`Counted` has the memory: the allocator's sum is the size of what is held.

**The match finder.** Positions of the ring are reused while hash chains still lead to what was there before, so nothing holds of the
chains but that their places are numbers (`Numbered`), and nothing need: `MatcherInv` says that the ring holds
the latest bytes (`RingHolds`), so that every place within the farthest distance shows the file's own bytes, and a match is
compared before it is taken (`BetterRight`, `FindRight`). A read does not wrap, so that it replaces only bytes behind the
reach (`LoadInv`). A copy that overlaps itself repeats the bytes before it (`Periodic`), which is what the reader makes of
it. That the tokens, expanded, are the file up to the position (`Stands`) is then kept by a literal, by a
match and by the start of a new block. Expansions are functions on an interval, like those of the writer.

**The decoding windows.** `WindowsInv` says of a decoder under way (`Going`) how many tokens it has decoded (`ReadUpTo`), that the window holds
the last bytes of their data (`RingIs`), and that what it wrote is a piece of that data with the delta undone, up to some point (`Sent`). For the library the point lies
where the ring's writing stopped, with room for another token behind it (`ByRing`); for the original it
lies in the half that is being filled or was filled last, and no token skips a half (`ByHalves`). The other case (`Full`) is that
all bytes asked for are out. The delta is undone write by write, and `UnDeltaTwo` says that two pieces in a row,
with the channel kept between them, give what the whole gives: within a piece each byte needs the one a stride
earlier, and across the cut that byte is the last the channel heard at that place (`Hears`, `EarlierOn`). What a
token adds does not depend on the window as long as the distance lies in it (`BroughtIs`).

**The writer.** `WriterInv` has three parts: the names, what was recorded, and that a finished temporary file is what
`Assemble` makes of the entries. Everything else follows from those entries alone.

*Names.* Python's tables and the native writer's entries are kept apart and never compared. `Filed` says that the
identifier of a path is the position of an entry that has its last name and the identifier of its front as
parent, that no two paths share an identifier, and that entries are there for exactly the paths in the two tables. A path
gets its missing directories one by one, and the lemmas about `MkdirMakes` give the identifiers they
receive. `Within` bounds every entry by the spool and the limits.

*What was recorded.* The store keeps the list of what was added, the writer only entries. `Recorded` says that the items that are
files correspond to the entries that are files, in order, each at its path and with its data in the spool, and that
the directories are those above some item.

*The round trip.* Lists of entries are ranks: n - 1 members of `Ascending(S)` are below the n-th, which makes the list one to one
and onto (`AscendingFacts`), and enumerations of corresponding sets correspond. `GroupsFacts`: however the chunk hashes collide, every stored file is in exactly one
group, so a file or the original of a duplicate has one dictionary and one place in the body, and `Extract` returns
its bytes. The counts are sizes of disjoint sets: the files that name a dictionary are its group and the duplicates
counted later. `Paths` climbs from a row by identifiers for at most `MaxDepth` steps, and finds the path by which the writer
filed it, because no path is deeper (`Shallow`). So a reader sees the same directories and, newest first,
the same versions as the store's `Tree`. Recursion inside these definitions (groups made one run after the other, sums, climbing)
is by functions on an interval of numbers, and one lemma (`Recursion`) proves that such functions exist, by the least number that fails.

*The store.* An add is a store's `Add` of the same item, or an item refused; making, finishing and syncing a temporary file are
stutters; the rename is `Commit` (and needs the round trip, which says that what is renamed reads as the draft); an
abort or a kill is `Discard`; and a power failure brings back the synced archive of an earlier rename, which was whole.

**Publishing.** `PublishingInv` adds to the properties where a process is: what it puts in place is whole by then, and what it
removes again is its own empty reservation (`Stepping`). While no other program interferes, a returned report stays in place,
so nobody else can reserve (`Returned`); and the directories made stay made, so a configuration
comes after them (`Growing`). The run `tool` has `PublishedWhole` and `OneReport` as parts of `KeptThroughFailure`.

**The original's files.** `FilesInv` (with `Sound`, `Based`) has what the program may rely on between calls: its own idea of the position is that
of DOS, the length is right or unknown; a write cache ends where the caller is, and a
read cache is what lies on the disk there; without a cache nothing is held. The plain file that the run compares with is
`View`: the disk with a write cache laid over it. Every helper (flush, refill, seek, transfers that DOS cuts
short and that are tried again) has a lemma that says what it does to the view, the position and the free blocks, and
every call is put together from those.

**Timestamps.** A trailer is found from the end of the file, and it is written over an older one from its start, so a
kill or a failed write leaves the start of one trailer over the rest of another, or less than a trailer; and when flush and close both
fail, which nobody notices, the truncation fills the missing end with zeros (`Truncated`). `StampInv` says what
may lie behind the archive: nothing; a whole trailer (`Whole`), perhaps of the parts of two proofs of the same length, which is
about the archive all the same, as its place and its two lengths agree; or a broken one (`Broken`), which the parser
refuses or does not see. Parsing fails or gives the archive's own length, because the magics and numbers are nowhere but at
a trailer's two ends: this is where the assumption is needed. A broken trailer that
is not seen counts as archive to the next attach, which then refuses every proof there is, since none has the digest
of both. While one is attached the first `written` cells are its own (`Over`); when the attach ends and lost none (`Stands`), all
are. A file that ends in zeros has no magic at its end, so it is one of the broken ones. What stays with the runs is that the walk over the
proof's tree accepts only well formed ones.

**The original's storage.** A command is a list of writes, and `StorageInv` says where in its list a command is and what the three
files hold by then (`IncAt`, `PutAt`, `RecAt`): how far the recover file is written, whether the archive is still the old one, which
of its cells are already those of the new one. At every stage an incremental update leaves the old archive or one that agrees with it
from the third cell up to the directory, beside the whole recover file (`Covered`), or the old archive beside a part of the recover
file (`Short`), which its own length gives away. An in-place recovery that is killed leaves the same again. For the damage
(`Hurts`) nothing is needed of the sizes: what protects a payload lies behind its sectors (`Guards`), the sums tell which sector is not what
it was, and as at most one of each group is (`OneEach`), the exclusive or of the others and their record is that sector
(`RebuiltIs`), because a mark is in it if an odd number of the group has it. A guarded file that verifies is the
protected archive itself (`SoundIsProtected`); as in the runs, a Fletcher sum of 16 bits is taken to tell any two sectors apart, which it does not always. The run `tool` has the two as parts of `KeptThroughFailure` and `OriginalKeeps`.

**The page.** `SessionInv` says what the page cannot see: only its own worker runs, and only on the pending job
(`WorkerCurrent`); a reply on its way is of an earlier job, or true (`LettersTrue`); the token of a pending job is
the current epoch (`PendingCurrent`). A reply whose number matches may then be believed, and that is all that the handlers
check. Every job sent raises the epoch at most twice (`Counted`), which bounds the counters of the model.

**The offline shell.** `ShellInv` has to survive a rollback: while one build is in use and another waits, a third
worker may install the first build again, and if it fails it deletes the cache by the name both use. `SameBuild` says that such
an installation fills the cache in use, unless that is gone or is an empty one nobody fills; `Filled` that
an installed worker from which nothing was taken has all its assets.

Only model-checked: everything with fairness (`OperationsEnd`, `LocksAreReleased`,
`BusyEnds`, the reader's `CallsEnd`), which is out of the prover's reach, and so is the part of the
mount's `CallsEnd` that is an ENABLED; of the machines of `tool`, `WholeOrNothing`,
`KeptThroughFailure` but for its parts about `Publishing` and `ClassicStorage`, `OriginalKeeps` but for the blocks of `FileCache` and the repairs, and `CommandsRight`; of the
coders, `StoredIsReadBack` and `TreesAgree`. Most of these speak about what recursive operators compute (parsers of
command lines and of tar, trees of codes, bit streams, volumes put together), and the prover takes no module that declares one;
`TreesAgree` and `StoredIsReadBack` compare whole algorithms on given inputs, where a proof would be an induction over
the data.

## 6. What the models showed

- **A retried create can publish an incomplete snapshot to the disk** (`retry`).
  `_chunk_path` takes a directory that exists, and `_store` a chunk that exists,
  as stored. If an earlier run was interrupted between making the name and the
  fsync of its parent, the next create syncs its manifest and not the chunk's entry;
  a power failure then leaves the manifest without the chunk. The docstring of
  create says it "never publishes an incomplete snapshot"
  (`python/uc2/snapshot.py:402-403`). A kill alone, without a power failure, cannot do it.
- **An extraction can go below the wrong directory** (`extraction`). The path buffer is
  shortened in the callback on the way out of a directory, and that callback runs
  for marked directories only. A directory that was there already loses its mark
  (`cli/src/main.c:573`), and one that a pattern only passes through never has it. `uc2 -d out t.uc2
  a/x b/y` writes `out/a/b/y`, and so does a second `uc2 -f -d out t.uc2`. `CommandsRight` states what
  holds: files go where they belong when the whole of each directory was selected into a
  new place.
- **The table of method 10 can fail to add up** (`rans_table`). The largest frequency takes up
  the difference to the scale; if more symbols were rounded up than it holds, the subtraction
  wraps in 16 bits (`lib/src/uc2_rans.c:60`) and the block cannot be read.

Further disagreements of smaller weight met on the way have no run of their own: a compact that finds
the format switched starts to delete loose objects without syncing the root, although the
comment says "Cleanup follows the durable config switch" (`python/uc2/snapshot.py:897`); and the
activation of a service worker can delete the cache its successor is still installing into
(`web/sw.js:40-43`), which is repaired online. Attaching a proof ignores a failing `fflush` and
`fclose` (`cli/src/main.c:771`, `:776`) and says "Everything went OK" of a proof that is then not found; the archive is untouched, and
`AttestsTrue` holds with that exception. A block store ignores a failing `fopen` or `fwrite`
(`lib/src/uc2_blockstore.c:80-83`), so the container may refer to blocks that are not there or short; reading back
then fails, as `KeptThroughFailure` says. The original's memory is boosted while the number of frames is at most
`MAX_RAM_BLOCKS` (`VMEM.CPP:357`), which is one more than its arrays hold.

## 7. What is left out

### Not modelled in the parts that are modelled

- *Repository*: limits on entries and references, metadata and names; the attributes restore
  sets. SHA-256 is taken to be free of collisions here, as the code does. The entry of the
  repository itself, which is never synced; Windows.
- *Writer*: compression, the encoding of records and of names; `write` of a
  directory tree, which is a sequence of adds.
- *Reader*: recovery of a damaged central directory; the memory of Python.
- *Coders*: the choice of a filter by the look of the content (`uc2_preprocess_detect`), trained dictionaries
  (`uc2_dict.c`), the similarity hash: heuristics that promise nothing a run could refute.
- *Mount*: the two trees of names (`_add`), a constant of the model.
- *Page*: rendering, selection, the checks of names in `readIndex`. A page opened before
  the first service worker controls it starts its worker from whatever build is
  deployed by then (`web/app.js:43`); nothing in the code decides what happens then.
- *Command line*: options, benchmarks, terminal output, the attributes of files.
- *Original*: the menus, the configuration and its editor, the script language, video, keyboard
  and memory models of DOS, network locks, the extraction stubs. Its undefined accesses are
  modelled where they decide something.

### Not modelled at all

- `web/zip.js`, `web/bridge.c`: byte layout, and a wrapper without state of its own.
- `lib/src/uc2_sha256.c`, `uc2_blake3.c`, the Merkle tree: hash functions are out of a model checker's reach;
  where the code guards against collisions, colliding names stand for them.
- `cli/src/compat/`: substitutes for library functions.
- `contrib/`: adapters to the interfaces of other programs, which are not here.
- `original/unuc2-0.6/`: the reader `lib/src/decompress.c` grew out of, not built; its successor is modelled.
- The Python command line, tests, scripts and build files.

Little is left that could be modelled faithfully and would say more: what is not covered
is input and output, wording, tables of constants, and hash functions.

## 8. Plan

Order: what can lose data first, then what can mislead a user, then what fails
loudly; pure algorithms last, because tests reach them best.

1. *Done*: `SnapshotRepo`, `SnapshotHistory`, `SnapshotDurability`, `MountCache`, `ArchiveReader`,
   `BrowserSession`, `OfflineShell`, `ArchiveFormat`, `ArchiveWriter`, `SourceReading`, `FileCache`, `MatchFinder`, `DecodeWindows`, `Publishing`, `Timestamps` and
   `ClassicStorage` with their proofs.
2. *Done*: `IngestContainer`, `TarIngest`, `CommandLine`, `VolumeSets`; the other coders,
   with the original's; the original's memory and catalogue.
3. *Open*: the mount's trees of names; the metadata of a manifest; recovery of a damaged
   directory.
4. *Open for proofs*: `VolumeSets`, whose recursive operators would first have to be
   written as functions.
