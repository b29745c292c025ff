---------------------------- MODULE ArchiveFormat ----------------------------
(***************************************************************************)
(* A UC2 archive as the native writer lays it out (lib/src/uc2_writer.c)   *)
(* and as the readers understand it (lib/src/decompress.c and the index of *)
(* python/uc2/__init__.py).                                                *)
(*                                                                         *)
(* Compression is modelled by what it needs: a compressed stream is its    *)
(* data together with the dictionary it was made with, and decompressing   *)
(* it with another dictionary fails.  An offset is the position of a       *)
(* stream in the archive's body.                                           *)
(*                                                                         *)
(* An entry of a writer is a record                                        *)
(*    dir, parent, name, depth    as struct entry; a directory's id is its *)
(*                                position, and 0 is the root              *)
(*    spool, size, digest         where its bytes lie in the spool         *)
(***************************************************************************)
EXTENDS Integers, FiniteSets, Sequences, SequencesExt

CONSTANTS
    Content,    \* the contents of files: sequences of blocks
    Digest,     \* Digest[c]: SHA-256, of which no injectivity is assumed
    Hash,       \* Hash[b]: FNV-1a of a content-defined chunk, here one block
    Zero,       \* the block a dictionary without a source holds
    Super,      \* the SuperMaster
    MasterMax,  \* the longest dictionary, 64000 bytes
    ChunkedMin, \* the smallest file that is chunked, 1024 bytes
    GroupSize,  \* the most files a chunk's group takes, 256
    MaxDepth    \* directory nesting, 64

ASSUME ContentType == Content \subseteq Seq(DOMAIN Hash) /\ Hash \in [DOMAIN Hash -> Nat]
ASSUME DigestType == DOMAIN Digest = Content
ASSUME SizesArePositive == {MasterMax, ChunkedMin, MaxDepth} \subseteq Nat \ {0}
ASSUME GroupsShare == GroupSize \in Nat \ {0, 1}

Root == <<>>

Least(S) == CHOOSE x \in S : \A y \in S : x <= y
Greatest(S) == CHOOSE x \in S : \A y \in S : x >= y

\* A set of numbers in ascending order: n - 1 of them are below the n-th.
Ascending(S) ==
    [n \in 1..Cardinality(S) |-> CHOOSE x \in S : Cardinality({y \in S : y < x}) = n - 1]

\* In descending order: n - 1 of them are above the n-th.
Descending(S) ==
    [n \in 1..Cardinality(S) |-> CHOOSE x \in S : Cardinality({y \in S : y > x}) = n - 1]

Bytes(e, spool) == SubSeq(spool, e.spool + 1, e.spool + e.size)
Files(es) == {i \in DOMAIN es : ~es[i].dir}
------------------------------------------------------------------------------
(* duplicates(): files of one size and digest are compared byte by byte    *)
(* with the first of them.  0 means "no duplicate".                        *)

Twins(es, i) == {j \in Files(es) : es[j].size = es[i].size /\ es[j].digest = es[i].digest}

\* Faulty variant: the bytes are not compared.
DuplicateByDigest(es, spool, i) ==
    LET first == Least(Twins(es, i)) IN IF i # first THEN first ELSE 0

Duplicate(es, spool, i) ==
    LET first == Least(Twins(es, i))
    IN  IF i # first /\ Bytes(es[i], spool) = Bytes(es[first], spool) THEN first ELSE 0

Stored(es, spool) == {i \in Files(es) : Duplicate(es, spool, i) = 0}

\* The stored file whose bytes file i shares.
Origin(es, spool, i) == IF Duplicate(es, spool, i) = 0 THEN i ELSE Duplicate(es, spool, i)

(* group_files(): by ascending chunk hash, the files of a run that have no *)
(* master yet share one, in pieces of GroupSize; a last piece of one file  *)
(* shares nothing.  The files left over share one master.                  *)
Pieces(run) ==
    LET whole == Len(run) \div GroupSize
        count == whole + (IF Len(run) % GroupSize >= 2 THEN 1 ELSE 0)
        last(k) == IF k <= whole THEN k * GroupSize ELSE Len(run)
    IN  [k \in 1..count |-> SubSeq(run, (k - 1) * GroupSize + 1, last(k))]

Grouped(groups) == UNION {ToSet(groups[k]) : k \in DOMAIN groups}

Hashes(es, spool, i) == {Hash[b] : b \in ToSet(Bytes(es[i], spool))}

Chunked(es, spool) == {i \in Stored(es, spool) : es[i].size >= ChunkedMin}

\* The files of a run, by entry, when the groups before it have been made.
Run(es, spool, groups, h) ==
    Ascending({i \in Chunked(es, spool) \ Grouped(groups) : h \in Hashes(es, spool, i)})

Groups(es, spool) ==
    LET runs == Ascending(UNION {Hashes(es, spool, i) : i \in Chunked(es, spool)})
        after[n \in 0..Len(runs)] ==
            IF n = 0 THEN <<>>
            ELSE after[n - 1] \o Pieces(Run(es, spool, after[n - 1], runs[n]))
        shared == after[Len(runs)]
        rest == Stored(es, spool) \ Grouped(shared)
    IN  IF rest = {} THEN shared ELSE Append(shared, Ascending(rest))

(* add_master(): the dictionary is the head of the first largest file, or  *)
(* one zero byte.                                                          *)
Source(es, group) ==
    LET largest == {k \in DOMAIN group :
                        \A j \in DOMAIN group : es[group[j]].size <= es[group[k]].size}
    IN  group[Least(largest)]

Dictionary(es, spool, group) ==
    LET source == es[Source(es, group)]
        taken  == [source EXCEPT !.size = IF @ > MasterMax THEN MasterMax ELSE @]
    IN  IF source.size = 0 THEN <<Zero>> ELSE Bytes(taken, spool)

\* e->master: the last group that took the file; a duplicate's is its
\* original's.
GroupOf(es, spool, groups, i) ==
    Greatest({k \in DOMAIN groups : Origin(es, spool, i) \in ToSet(groups[k])})

\* The files counted at a dictionary: by add_master(), and as duplicates.
Counted(es, spool, groups, k) ==
    LET copies == {i \in Files(es) : /\ Duplicate(es, spool, i) # 0
                                     /\ GroupOf(es, spool, groups, i) = k}
    IN  groups[k] \o Ascending(copies)

Sizes(es, list) ==
    LET sum[n \in 0..Len(list)] == IF n = 0 THEN 0 ELSE sum[n - 1] + es[list[n]].size
    IN  sum[Len(list)]

(* assemble(): dictionaries, then every stored file, then the directory    *)
(* with its rows: masters, directories, files.                             *)
Row(es, spool, groups, stored, i) ==
    [dir |-> es[i].dir, parent |-> es[i].parent, name |-> es[i].name, size |-> es[i].size,
     id |-> IF es[i].dir THEN i ELSE 0,
     master |-> IF es[i].dir THEN 0 ELSE GroupOf(es, spool, groups, i) + 1,
     offset |-> IF es[i].dir THEN 0
                ELSE Len(groups) + (CHOOSE n \in DOMAIN stored : stored[n] = Origin(es, spool, i))]

Master(es, spool, groups, dictionary, k) ==
    [id |-> k + 1, size |-> Len(dictionary[k]), offset |-> k,
     refLen |-> Sizes(es, Counted(es, spool, groups, k)),
     refCount |-> Len(Counted(es, spool, groups, k))]

Listed(es) == Ascending(DOMAIN es \ Files(es)) \o Ascending(Files(es))

Assemble(es, spool) ==
    LET groups == Groups(es, spool)
        stored == Ascending(Stored(es, spool))
        dictionary == [k \in 1..Len(groups) |-> Dictionary(es, spool, groups[k])]
        listed == Listed(es)
    IN  [body |-> [k \in 1..Len(groups) |-> [with |-> Super, data |-> dictionary[k]]]
                    \o [n \in 1..Len(stored) |->
                            [with |-> dictionary[GroupOf(es, spool, groups, stored[n])],
                             data |-> Bytes(es[stored[n]], spool)]],
         masters |-> [k \in 1..Len(groups) |-> Master(es, spool, groups, dictionary, k)],
         rows |-> [n \in 1..Len(listed) |-> Row(es, spool, groups, stored, listed[n])]]
------------------------------------------------------------------------------
(* Reading it back.  A result is a sequence of data, or none: <<>>.        *)

\* resolve_master(), for the one level of dictionaries the writer makes.
Expand(a, stream, with, size) ==
    IF stream \notin DOMAIN a.body THEN <<>>
    ELSE LET s == a.body[stream]
         IN  IF s.with = with /\ Len(s.data) = size THEN <<s.data>> ELSE <<>>

Resolve(a, id) ==
    LET found == {k \in DOMAIN a.masters : a.masters[k].id = id}
    IN  IF found = {} THEN <<>>
        ELSE LET m == a.masters[Least(found)] IN Expand(a, m.offset, Super, m.size)

\* uc2_extract()
Extract(a, row) ==
    LET dictionary == Resolve(a, row.master)
    IN  IF dictionary = <<>> THEN <<>>
        ELSE Expand(a, row.offset, dictionary[1], row.size)

\* _build_index(): the path of every row follows its parents' identifiers; a
\* path is given as <<path>>, and <<>> when a parent is missing or too deep.
Paths(a) ==
    LET folder(id) == {k \in DOMAIN a.rows : a.rows[k].dir /\ a.rows[k].id = id}
        below[left \in 0..MaxDepth] ==
            [id \in {0} \cup {a.rows[k].parent : k \in DOMAIN a.rows} |->
                IF id = 0 THEN <<Root>>
                ELSE IF left = 0 \/ folder(id) = {} THEN <<>>
                ELSE LET row == a.rows[Least(folder(id))]
                         above == below[left - 1][row.parent]
                     IN  IF above = <<>> THEN <<>> ELSE <<Append(above[1], row.name)>>]
    IN  [k \in DOMAIN a.rows |->
            LET above == below[MaxDepth][a.rows[k].parent]
            IN  IF above = <<>> THEN <<>> ELSE <<Append(above[1], a.rows[k].name)>>]

\* The archives _build_index and verify accept.
Acceptable(a) ==
    LET paths == Paths(a)
        rows == a.rows
    IN  /\ \A k \in DOMAIN rows :
            /\ paths[k] # <<>>
            /\ rows[k].dir => rows[k].id # 0
            /\ ~rows[k].dir => Extract(a, rows[k]) # <<>>
        /\ \A j, k \in DOMAIN rows :
            j < k => /\ rows[j].dir /\ rows[k].dir => rows[j].id # rows[k].id
                     /\ rows[j].dir \/ rows[k].dir => paths[j] # paths[k]

\* The versions of a file count from the last row: version 0 is the newest.
Read(a) ==
    LET paths == Paths(a)
        of(dirs) == {k \in DOMAIN a.rows : a.rows[k].dir = dirs}
        newestFirst(p) == Descending({k \in of(FALSE) : paths[k] = <<p>>})
    IN  [directories |-> {paths[k][1] : k \in of(TRUE)},
         files |-> [p \in {paths[k][1] : k \in of(FALSE)} |->
                        LET own == newestFirst(p)
                        IN  [v \in 1..Len(own) |-> Extract(a, a.rows[own[v]])[1]]]]
==============================================================================
