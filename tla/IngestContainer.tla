--------------------------- MODULE IngestContainer ---------------------------
(***************************************************************************)
(* Ingestion of a stream of bytes: content-defined chunks (uc2_cdc.c,      *)
(* uc2_merkle.c), stored once each.  Version 1 keeps them as files of a    *)
(* directory (uc2_blockstore.c), version 2 in the container itself         *)
(* (uc2_ingest.c), version 3 as entries of an ordinary archive, from a     *)
(* pipe (cli/src/main.c).  The library writes in place, the command line   *)
(* into a temporary file that it renames.  Any writer may be killed.       *)
(***************************************************************************)
EXTENDS Integers, Sequences, FiniteSetsExt

CONSTANTS Jobs,     \* what is asked: [version, data, before, old]: old is at the path, before in the store
          Gear(_),  \* gear_table
          MODULUS,  \* mask + 1: a boundary is where the hash of the last bytes is 0 in it
          MIN, MAX, \* min_chunk and max_chunk
          Hash64(_),\* uc2_hash64(), of which no injectivity is assumed
          CAP,      \* slots of a new hash map (16)
          MaxLost   \* how many blocks a store may fail to keep

VARIABLES job, rest, buffer, chunks, done, uniq, map, file, temp, store, phase
kept == <<job, file, temp, store>>

Low(a, b) == IF a < b THEN a ELSE b
First(S) == CHOOSE x \in S : \A y \in S : x <= y
Drop(s, n) == SubSeq(s, n + 1, Len(s))
RECURSIVE Joined(_)
Joined(parts) == IF parts = <<>> THEN <<>> ELSE Head(parts) \o Joined(Tail(parts))
------------------------------------------------------------------------------
(* uc2_chunker_next(): the hash runs over all bytes of the chunk, and is   *)
(* compared after the first MIN.                                           *)
NextChunk(data) ==
    LET end == Low(MAX, Len(data))
        h[i \in 0..end] == IF i = 0 THEN 0 ELSE (2 * h[i - 1] + Gear(data[i])) % MODULUS
        cuts == {i \in Low(MIN, end) + 1..end : h[i] = 0}
    IN  IF cuts = {} THEN end ELSE First(cuts)

RECURSIVE Cut(_)
Cut(data) ==
    IF data = <<>> THEN <<>>
    ELSE LET n == NextChunk(data) IN <<SubSeq(data, 1, n)>> \o Cut(Drop(data, n))

(* uc2_merkle_build(); uc2_merkle_common(), the chunks of a that b has;    *)
(* uc2_merkle_similarity(), as the bytes in them.                          *)
Merkle(data) ==
    LET parts == Cut(data)
    IN  [i \in DOMAIN parts |-> [hash |-> Hash64(parts[i]), data |-> parts[i]]]
Common(a, b) == {i \in DOMAIN a : \E j \in DOMAIN b : a[i].hash = b[j].hash}
SharedBytes(a, b) == LET shared == Common(a, b)
                     IN Len(Joined([i \in DOMAIN a |-> IF i \in shared THEN a[i].data ELSE <<>>]))
\* The files of a store that holds a tree.
Blocks(tree) ==
    [h \in {tree[i].hash : i \in DOMAIN tree} |-> tree[First({i \in DOMAIN tree : tree[i].hash = h})].data]
------------------------------------------------------------------------------
(* The hash maps: linear probing over a power of two.  A map is a function *)
(* of slots to [key, value], key 0 being the empty slot.                   *)
Free == [key |-> 0, value |-> 0]
NewMap(cap) == [slot \in 0..cap - 1 |-> Free]
Cap(m) == Cardinality(DOMAIN m)
Used(m) == {slot \in DOMAIN m : m[slot].key # 0}
Nonzero(key) == IF key = 0 THEN 1 ELSE key

\* The slots that are probed for a key, up to the one that holds it with one of
\* the values wanted, or is free.
RECURSIVE Probe(_, _, _, _)
Probe(m, slot, key, wanted) ==
    IF m[slot].key = 0 \/ (m[slot].key = key /\ m[slot].value \in wanted) THEN slot
    ELSE Probe(m, (slot + 1) % Cap(m), key, wanted)
Any(m) == {m[slot].value : slot \in DOMAIN m}
Put(m, key, value) == [m EXCEPT ![Probe(m, key % Cap(m), key, {})] = [key |-> key, value |-> value]]

\* ing_map_grow() and dedup_map_grow().
RECURSIVE Reinsert(_, _, _)
Reinsert(m, slot, into) ==
    IF slot = Cap(m) THEN into
    ELSE Reinsert(m, slot + 1, IF m[slot].key = 0 THEN into ELSE Put(into, m[slot].key, m[slot].value))
Grow(m) == Reinsert(m, 0, NewMap(2 * Cap(m)))

(* dedup_map_get() looks for the hash itself, and so never finds 0;        *)
(* dedup_map_put() enters 1 for 0.                                         *)
Find(m, hash) ==
    LET slot == Probe(m, hash % Cap(m), hash, Any(m))
    IN  IF hash = 0 \/ m[slot].key = 0 THEN 0 ELSE m[slot].value
Enter(m, hash, value) ==
    LET room == IF (Cardinality(Used(m)) + 1) * 2 > Cap(m) THEN Grow(m) ELSE m
        slot == Probe(room, Nonzero(hash) % Cap(room), Nonzero(hash), Any(room))
    IN  IF room[slot].key # 0 THEN room ELSE [room EXCEPT ![slot] = [key |-> Nonzero(hash), value |-> value]]
------------------------------------------------------------------------------
(* Containers.  Entry of version 1: [hash, size]; of version 2: [size, at],*)
(* zeros until they are known; of version 3 the number of a block.         *)
None == [version |-> "none", count |-> 0, entries |-> <<>>, pool |-> <<>>]
Blob(version, count, entries, pool) == [version |-> version, count |-> count, entries |-> entries, pool |-> pool]
NoEntry == [hash |-> 0, size |-> 0, at |-> 0]

Failed == [ok |-> FALSE, data |-> <<>>]
Restored(data) == [ok |-> TRUE, data |-> data]

\* restore_v1(), with uc2_blockstore_read(): a file that is too short is noticed.
RestoreV1(c, blocks) ==
    LET fits(e) == e.hash \in DOMAIN blocks /\ Len(blocks[e.hash]) >= e.size
    IN  IF Len(c.entries) < c.count \/ \E i \in DOMAIN c.entries : ~fits(c.entries[i]) THEN Failed
        ELSE Restored(Joined([i \in DOMAIN c.entries |-> SubSeq(blocks[c.entries[i].hash], 1, c.entries[i].size)]))

RestoreV2(c) ==
    IF Len(c.entries) < c.count \/ \E i \in DOMAIN c.entries : c.entries[i].at + c.entries[i].size > Len(c.pool) THEN Failed
    ELSE Restored(Joined([i \in DOMAIN c.entries |->
                            SubSeq(c.pool, c.entries[i].at + 1, c.entries[i].at + c.entries[i].size)]))

\* ingest_restore_v3(): every file entry, in the order of the directory.
RestoreV3(c) == Restored(Joined([i \in DOMAIN c.entries |-> c.pool[c.entries[i]]]))

\* cmd_ingest_restore() and uc2_ingest_restore().
Restore(c, blocks) ==
    CASE c.version = "v1" -> RestoreV1(c, blocks)
      [] c.version = "v2" -> RestoreV2(c)
      [] c.version = "v3" -> RestoreV3(c)
      [] OTHER -> Failed

IngestInit ==
    /\ job \in Jobs
    /\ rest = job.data
    /\ buffer = <<>>
    /\ chunks = <<>>
    /\ done = 0
    /\ uniq = <<>>
    /\ map = NewMap(CAP)
    /\ file = job.old
    /\ temp = None
    /\ store = Blocks(Merkle(job.before))
    /\ phase = "begin"
------------------------------------------------------------------------------
(* uc2_ingest_write(), in place.                                           *)
ChunkNow == chunks[done + 1]
OpenV2 ==
    /\ phase = "begin" /\ job.version = "v2"
    /\ chunks' = Merkle(job.data)
    /\ rest' = <<>>
    /\ file' = None
    /\ phase' = "header"
    /\ UNCHANGED <<job, buffer, done, uniq, map, temp, store>>
WriteHeader ==
    /\ phase = "header"
    /\ file' = Blob("v2", Len(chunks), <<>>, <<>>)
    /\ phase' = "reserve"
    /\ UNCHANGED <<job, rest, buffer, chunks, done, uniq, map, temp, store>>
ReserveManifest ==
    /\ phase = "reserve"
    /\ file' = [file EXCEPT !.entries = [i \in DOMAIN chunks |-> NoEntry]]
    /\ phase' = "pool"
    /\ UNCHANGED <<job, rest, buffer, chunks, done, uniq, map, temp, store>>

\* uniq holds the offset of every chunk, plus 1.
AppendChunk ==
    /\ phase = "pool" /\ done < Len(chunks)
    /\ LET found == Find(map, ChunkNow.hash)
           here == Len(file.pool) + 1
       IN  /\ uniq' = Append(uniq, IF found = 0 THEN here ELSE found)
           /\ map' = IF found = 0 THEN Enter(map, ChunkNow.hash, here) ELSE map
           /\ file' = IF found = 0 THEN [file EXCEPT !.pool = @ \o ChunkNow.data] ELSE file
    /\ done' = done + 1
    /\ UNCHANGED <<job, rest, buffer, chunks, temp, store, phase>>
PoolWritten ==
    /\ phase = "pool" /\ done = Len(chunks)
    /\ done' = 0
    /\ phase' = "backfill"
    /\ UNCHANGED <<kept, rest, buffer, chunks, uniq, map>>
Backfill ==
    /\ phase = "backfill" /\ done < Len(chunks)
    /\ file' = [file EXCEPT !.entries[done + 1] =
                    [hash |-> ChunkNow.hash, size |-> Len(ChunkNow.data), at |-> uniq[done + 1] - 1]]
    /\ done' = done + 1
    /\ UNCHANGED <<job, rest, buffer, chunks, uniq, map, temp, store, phase>>
CloseV2 ==
    /\ phase = "backfill" /\ done = Len(chunks)
    /\ phase' = "done"
    /\ UNCHANGED <<kept, rest, buffer, chunks, done, uniq, map>>
------------------------------------------------------------------------------
(* uc2_blockstore_ingest(), a file per new chunk, after which a version 1  *)
(* container names them.  It does not ask whether a file could be opened,  *)
(* nor how much of the chunk it took.                                      *)
Kept(i) == chunks[i].hash \in DOMAIN store /\ Len(store[chunks[i].hash]) >= Len(chunks[i].data)
MayLose == Cardinality({i \in 1..done : ~Kept(i)}) < MaxLost
OpenV1 ==
    /\ phase = "begin" /\ job.version = "v1"
    /\ chunks' = Merkle(job.data)
    /\ rest' = <<>>
    /\ phase' = "blocks"
    /\ UNCHANGED <<kept, buffer, done, uniq, map>>
HaveBlock ==
    /\ phase = "blocks" /\ done < Len(chunks)
    /\ ChunkNow.hash \in DOMAIN store
    /\ done' = done + 1
    /\ UNCHANGED <<kept, rest, buffer, chunks, uniq, map, phase>>
OpenBlock ==
    /\ phase = "blocks" /\ done < Len(chunks)
    /\ ChunkNow.hash \notin DOMAIN store
    /\ store' = [h \in DOMAIN store \cup {ChunkNow.hash} |-> IF h = ChunkNow.hash THEN <<>> ELSE store[h]]
    /\ phase' = "block"
    /\ UNCHANGED <<job, file, temp, rest, buffer, chunks, done, uniq, map>>
BlockRefused ==
    /\ phase = "blocks" /\ done < Len(chunks)
    /\ ChunkNow.hash \notin DOMAIN store
    /\ MayLose
    /\ done' = done + 1
    /\ UNCHANGED <<kept, rest, buffer, chunks, uniq, map, phase>>
WriteBlock ==
    /\ phase = "block"
    /\ \E n \in 0..Len(ChunkNow.data) :
        /\ n < Len(ChunkNow.data) => MayLose
        /\ store' = [store EXCEPT ![ChunkNow.hash] = SubSeq(ChunkNow.data, 1, n)]
    /\ done' = done + 1
    /\ phase' = "blocks"
    /\ UNCHANGED <<job, file, temp, rest, buffer, chunks, uniq, map>>
NameBlocks ==
    /\ phase = "blocks" /\ done = Len(chunks)
    /\ file' = Blob("v1", Len(chunks),
                    [i \in DOMAIN chunks |-> [hash |-> chunks[i].hash, size |-> Len(chunks[i].data), at |-> 0]], <<>>)
    /\ phase' = "done"
    /\ UNCHANGED <<job, temp, store, rest, buffer, chunks, done, uniq, map>>
------------------------------------------------------------------------------
(* ingest_write_v3(): the buffer is filled to the largest chunk, one chunk *)
(* taken, compared with the stored ones of its key, and stored or shared.  *)
StageV3 ==
    /\ phase = "begin" /\ job.version = "v3"
    /\ temp' = Blob("staged", 0, <<>>, <<>>)
    /\ phase' = "fill"
    /\ UNCHANGED <<job, file, store, rest, buffer, chunks, done, uniq, map>>
Fill ==
    /\ phase = "fill"
    /\ LET n == Low(MAX - Len(buffer), Len(rest))
       IN  /\ buffer' = buffer \o SubSeq(rest, 1, n)
           /\ rest' = Drop(rest, n)
    /\ phase' = IF buffer' = <<>> THEN "directory" ELSE "take"
    /\ UNCHANGED <<kept, chunks, done, uniq, map>>

\* Faulty variant: as version 2, a chunk is known by its hash.
SameKey(slot, chunk) == TRUE
SameChunk(slot, chunk) == uniq[slot] = chunk

TakeChunk ==
    /\ phase = "take"
    /\ LET n == NextChunk(buffer)
           chunk == SubSeq(buffer, 1, n)
           room == IF Len(uniq) >= Cap(map) \div 2 THEN Grow(map) ELSE map
           key == Nonzero(Hash64(chunk))
           slot == Probe(room, key % Cap(room), key, {i \in DOMAIN uniq : SameChunk(i, chunk)})
           new == room[slot].key = 0
       IN  /\ buffer' = Drop(buffer, n)
           /\ uniq' = IF new THEN Append(uniq, chunk) ELSE uniq
           /\ chunks' = Append(chunks, IF new THEN Len(uniq) + 1 ELSE room[slot].value)
           /\ map' = IF new THEN [room EXCEPT ![slot] = [key |-> key, value |-> Len(uniq) + 1]] ELSE room
           /\ temp' = IF new THEN [temp EXCEPT !.pool = Append(@, chunk)] ELSE temp
    /\ phase' = "fill"
    /\ UNCHANGED <<job, file, store, rest, done>>

\* One entry for each occurrence, and then the header.
WriteDirectory ==
    /\ phase = "directory"
    /\ temp' = Blob("v3", Len(chunks), chunks, temp.pool)
    /\ phase' = "commit"
    /\ UNCHANGED <<job, file, store, rest, buffer, chunks, done, uniq, map>>
CommitV3 ==
    /\ phase = "commit"
    /\ file' = temp
    /\ temp' = None
    /\ phase' = "done"
    /\ UNCHANGED <<job, store, rest, buffer, chunks, done, uniq, map>>

\* err() and errx() end the program; discard_staged_output() runs at its exit.
Fails ==
    /\ phase \notin {"begin", "done", "failed", "killed"}
    /\ temp' = None
    /\ phase' = "failed"
    /\ UNCHANGED <<job, file, store, rest, buffer, chunks, done, uniq, map>>
KilledIngest ==
    /\ phase \notin {"begin", "done", "failed", "killed"}
    /\ phase' = "killed"
    /\ UNCHANGED <<kept, rest, buffer, chunks, done, uniq, map>>

\* The same data are ingested again, over what an interrupted run left.
Again ==
    /\ phase \in {"failed", "killed"}
    /\ job.version = "v1"
    /\ chunks' = Merkle(job.data)
    /\ done' = 0
    /\ phase' = "blocks"
    /\ UNCHANGED <<kept, rest, buffer, uniq, map>>

IngestNext ==
    \/ OpenV2 \/ WriteHeader \/ ReserveManifest \/ AppendChunk \/ PoolWritten \/ Backfill \/ CloseV2
    \/ OpenV1 \/ HaveBlock \/ BlockRefused \/ OpenBlock \/ WriteBlock \/ NameBlocks
    \/ StageV3 \/ Fill \/ TakeChunk \/ WriteDirectory \/ CommitV3
    \/ Fails \/ KilledIngest \/ Again
------------------------------------------------------------------------------
(* The names of version 3's entries: as many digits as the last one needs. *)
Width(n) == LET wide == {w \in 1..9 : n - 1 < 10^w} IN First(wide)
PartName(i, n) == [d \in 1..Width(n) |-> (i \div 10^(Width(n) - d)) % 10]
Before(a, b) == \E d \in DOMAIN a : a[d] < b[d] /\ SubSeq(a, 1, d - 1) = SubSeq(b, 1, d - 1)
NamesInOrder(n) == \A i \in 0..n - 2 : Before(PartName(i, n), PartName(i + 1, n))

Distinct(data) == {Cut(data)[i] : i \in DOMAIN Cut(data)}
Honest(S) == \A a, b \in S : Nonzero(Hash64(a)) = Nonzero(Hash64(b)) => a = b
Bytes(blocks) == FoldSet(LAMBDA h, n : Len(blocks[h]) + n, 0, DOMAIN blocks)

\* What has come back from a pipe is what went in, however its chunks collide,
\* each chunk stored once and cut where the whole data would be cut; the path
\* holds the earlier container until then, whenever the writer is stopped.
StreamKept ==
    job.version = "v3" =>
        /\ phase # "done" => file = job.old
        /\ phase = "done" =>
              /\ Restore(file, store) = Restored(job.data)
              /\ [i \in DOMAIN chunks |-> uniq[chunks[i]]] = Cut(job.data)
              /\ {uniq[i] : i \in DOMAIN uniq} = Distinct(job.data)
              /\ Len(uniq) = Cardinality(Distinct(job.data))
              /\ NamesInOrder(Len(chunks))
        /\ phase \in {"done", "failed"} => temp = None
        /\ 2 * Cardinality(Used(map)) <= Cap(map)

\* What the library has written comes back unless two chunks of one hash
\* differ; a block that is missing, or cut off by a kill or a full disk, is
\* never taken for a whole one, and nothing else keeps a stream back.  A store
\* grows by the bytes that are not in chunks it has: their similarity says how
\* much is saved.
LibraryKept ==
    LET tree == Merkle(job.data)
        earlier == Merkle(job.before)
        back == Restore(file, store)
    IN  /\ job.version = "v2" => 2 * Cardinality(Used(map)) <= Cap(map)
        /\ phase = "done" /\ job.version # "v3" /\ Honest(Distinct(job.data) \cup Distinct(job.before)) =>
              /\ back.ok => back.data = job.data
              /\ job.version = "v1" => (back.ok <=> \A i \in DOMAIN chunks : Kept(i))
              /\ job.version = "v2" => back.ok /\ Len(file.pool) = Bytes(Blocks(tree))
              /\ job.version = "v1" /\ back.ok /\ Cardinality(Distinct(job.data)) = Len(tree) =>
                    Bytes(store) = Bytes(Blocks(earlier)) + Len(job.data) - SharedBytes(tree, earlier)
==============================================================================
