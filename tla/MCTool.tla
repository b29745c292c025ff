-------------------------------- MODULE MCTool --------------------------------
(***************************************************************************)
(* The programs around the archive library, each on its own inputs: one of *)
(* twelve machines runs, the snapshot repository, the reading of a source, *)
(* timestamps and the original's files on their own variables, the others  *)
(* over the same registers.                                                *)
(***************************************************************************)
EXTENDS SnapshotDurability, SourceReading, FileCache, Timestamps, Integers, Sequences, SequencesExt, TLC

VARIABLES machine, r1, r2, r3, r4, r5, r6, r7, r8, r9, r10, r11
registers == <<r1, r2, r3, r4, r5, r6, r7, r8, r9, r10, r11>>
All == <<machine, registers, vars, reading, files, timestamps>>
Repeating(p, n) == [i \in 1..n |-> p[((i - 1) % Len(p)) + 1]]
RECURSIVE Pieces(_, _)
Pieces(s, n) ==
    IF Len(s) <= n THEN <<s>> ELSE <<SubSeq(s, 1, n)>> \o Pieces(SubSeq(s, n + 1, Len(s)), n)
------------------------------------------------------------------------------
(* The snapshot repository on disk: two of three chunks share a directory  *)
(* and the two snapshots share a chunk.                                    *)
CONSTANTS c1, c2, c3, d1, d2, s1, s2
RefsOf == (s1 :> {c1, c2}) @@ (s2 :> {c2, c3})
DirsOf == (c1 :> d1) @@ (c2 :> d1) @@ (c3 :> d2)
------------------------------------------------------------------------------
(* Publication of a report, a file or a repository, while another program  *)
(* makes and removes what it likes at the same name; q is given -f.        *)
Publish == INSTANCE Publishing WITH
    Process <- {"p", "q"}, Kinds <- {"report", "file", "repository"}, Overwrite <- {"q"}, MaxOthers <- 2,
    kind <- r1, place <- r2, pc <- r3, stage <- r4, seen <- r5, others <- r6, kept <- r7

(* A source directory of two names, files of two chunks, three changes.    *)
Alphabetical(a, b) == a = "a"
------------------------------------------------------------------------------
(* Ingest: streams that are cut at the least, at the most and in between,  *)
(* and a hash with seven values, so that different chunks share one.       *)
GearOf(b) == <<1, 2, 5>>[b + 1]
SmallHash(s) ==
    LET f[i \in 0..Len(s)] == IF i = 0 THEN IF s = <<>> THEN 0 ELSE 3 ELSE (f[i - 1] * 5 + s[i] + 1) % 7 IN f[Len(s)]
IngestData == {<<>>, <<1>>, Repeating(<<0, 1, 2, 2, 1>>, 23), Repeating(<<0>>, 17), Repeating(<<1, 2, 0, 0, 2, 1, 0>>, 40),
               Repeating(<<2, 1, 0, 1, 1, 2, 2, 2, 0, 0, 1>>, 33), Repeating(<<1, 1, 2>>, 9)}
OldContainer == [version |-> "v3", count |-> 1, entries |-> <<1>>, pool |-> <<<<7>>>>]
Ingest == INSTANCE IngestContainer WITH
    Jobs <- [version : {"v1", "v2", "v3"}, data : IngestData, before : {<<>>, Repeating(<<1, 2, 0, 0, 2, 1, 0>>, 33)},
             old : {OldContainer}],
    Gear <- GearOf, MODULUS <- 4, MIN <- 2, MAX <- 6, Hash64 <- SmallHash, CAP <- 4, MaxLost <- 2,
    job <- r1, rest <- r2, buffer <- r3, chunks <- r4, done <- r5, uniq <- r6, map <- r7, file <- r8, temp <- r9,
    store <- r10, phase <- r11
------------------------------------------------------------------------------
(* Two sets of volumes, of different totals or of one, or two              *)
(* self-extracting archives, in one directory.                             *)
CutUp(stem) ==
    CASE stem = "a" -> <<<<1, 2, 3>>, <<4, 5, 6>>, <<7>>>>
      [] stem = "b" -> <<<<11, 12, 13>>, <<14, 15, 16>>, <<17, 18>>>>
      [] stem = "c" -> <<<<21, 22, 23, 24>>, <<25, 26, 27>>>>
Volumes(stem) ==
    [k \in {stem} \X (1..Len(CutUp(stem))) |->
        [magic |-> "SAS", total |-> Len(FlattenSeq(CutUp(stem))), bytes |-> 14 + Len(CutUp(stem)[k[2]]), index |-> k[2],
         payload |-> CutUp(stem)[k[2]], regular |-> TRUE, parts |-> 0, files |-> 0, config |-> FALSE]]
Sums == INSTANCE VolumeSets WITH
    SEA_LIMIT <- 12, SEA_FILES <- 3, PARTS <- 4, Shelves <- {}, Stems <- {}, Cut <- CutUp, Made <- {}, MaxWear <- 0,
    dir <- r1, wear <- r2, answer <- r3
SeaFile(p, s) ==
    <<<<"file", [path |-> p, size |-> Len(s), checksum |-> Sums!Checksum(s)]>>>> \o [i \in DOMAIN s |-> <<"byte", s[i]>>]
SeaStream(stem) ==
    (IF stem = "a" THEN SeaFile(<<"x">>, <<1, 2, 3>>) \o SeaFile(<<"d", "y">>, <<7>>)
     ELSE SeaFile(<<"x">>, <<4, 5, 6>>) \o SeaFile(<<"x">>, <<8>>)) \o <<<<"end", 0>>>>
SeaTree(stem) ==
    IF stem = "a" THEN <<"x">> :> [kind |-> "file", data |-> <<<<1, 2, 3>>>>] @@ <<"d">> :> [kind |-> "dir", data |-> <<>>]
                       @@ <<"d", "y">> :> [kind |-> "file", data |-> <<<<7>>>>]
    ELSE <<"x">> :> [kind |-> "file", data |-> <<<<8>>, <<4, 5, 6>>>>]
SeaParts(stem, parts) ==
    [k \in {stem} \X (0..Len(parts) - 1) |->
        [magic |-> IF k[2] = 0 THEN "MZ" ELSE "part", total |-> 0, bytes |-> 0, index |-> 0, payload |-> parts[k[2] + 1],
         regular |-> TRUE, parts |-> Len(parts) - 1, files |-> 2, config |-> k[2] = 0]]
SeaVolumes(stem) == SeaParts(stem, Pieces(SeaStream(stem), 3))
Shelf == INSTANCE VolumeSets WITH
    SEA_LIMIT <- 12, SEA_FILES <- 3, PARTS <- 4, MaxWear <- 2,
    Shelves <- {Volumes("a") @@ Volumes("b"), Volumes("a") @@ Volumes("c"), SeaVolumes("a") @@ SeaVolumes("b")},
    Stems <- {"a", "b", "c"}, Cut <- CutUp, Made <- {SeaTree("a"), SeaTree("b")},
    dir <- r1, wear <- r2, answer <- r3
------------------------------------------------------------------------------
(* An archive of two cells, and proofs to attach to it: right ones of two  *)
(* lengths, one too long, one of another file, a file cut short, another   *)
(* hash, and trees that are cut short, too deep, too large, of an unknown  *)
(* operation, or with a number longer than it needs to be.                 *)
ArchiveCells == <<<<"data", 1>>, <<"data", 2>>>>
Proof(body) == <<<<"ots", 0>>, <<"hash", "sha256">>, SHA256(ArchiveCells)>> \o body
Attestation == <<"attestation", VarintEncode(1), <<<<"tag", 1>>>>>>
Appending == <<"append", VarintEncode(1), <<<<"salt", 1>>>>>>
Hashing == <<"sha256", <<>>, <<>>>>
Mark == <<"branch", <<>>, <<>>>>
RightProofs ==
    {Proof(<<Attestation>>), Proof(<<Mark, Attestation, Appending, Hashing, Attestation>>),
     Proof(<<Mark, Appending, Hashing, Attestation, <<"prepend", <<1>>, <<<<"salt", 2>>>>>>>> \o <<<<"sha1", <<>>, <<>>>>, Attestation>>)}
WrongProofs ==
    {Proof(<<Appending>>), Proof(<<Attestation, Attestation>>), Proof(<<Hashing, Hashing, Hashing, Hashing, Attestation>>),
     Proof(<<Appending, Appending, Attestation>>), Proof(<<<<"other", <<>>, <<>>>>, Attestation>>),
     Proof(<<<<"append", <<129, 0>>, <<<<"salt", 1>>>>>>, Attestation>>), Proof(<<<<"append", <<130, 130>>, <<<<"salt", 1>>>>>>, Attestation>>),
     Proof(<<<<"append", <<255, 255, 127>>, <<<<"salt", 1>>>>>>, Attestation>>), Proof(<<<<"append", <<5>>, <<<<"salt", 1>>>>>>, Attestation>>),
     Proof(<<<<"append", <<2>>, <<<<"salt", 1>>>>>>, Attestation>>), Proof(<<Mark, Mark, Attestation>>),
     Proof(<<Mark, Attestation, Mark, Attestation, Mark, Attestation, Mark, Attestation, Attestation>>),
     SubSeq(Proof(<<>>), 1, 2), <<<<"ots", 0>>, <<"hash", "sha1">>, SHA256(ArchiveCells)>>, <<<<"zip", 0>>, <<"hash", "sha256">>, SHA256(<<>>)>>,
     <<<<"ots", 0>>, <<"hash", "md5">>, SHA256(<<>>)>>,
     <<<<"ots", 0>>, <<"hash", "sha256">>, SHA256(<<>>), Attestation>>}
OfferedProofs == RightProofs \cup WrongProofs
------------------------------------------------------------------------------
(* The original's storage: virtual memory of five blocks and three frames, *)
(* a pipe in it, and an archive file of one to three members; its files    *)
(* have at most four cells behind a cache of four blocks.                  *)
Virtual == INSTANCE VirtualMemory WITH
    TOT_BLOCKS <- 5, BLOCK_SIZE <- 4, RAM_BLOCKS <- 3, MAX_RAM_BLOCKS <- 4, DEEP <- 1, CUT <- 1, MAX_CHUNKS <- 2,
    LISTS <- 2, SPLIT <- 1, Sizes <- {1, 3}, MaxLive <- 4, MaxSteps <- 7, PIPE_BUFFER <- 3, MaxSent <- 8,
    work <- r1, steps <- r2, vm <- r3, live <- r4, held <- r5, pipe <- r6, sent <- r7, got <- r8
Storage == INSTANCE ClassicStorage WITH
    SECTOR <- 2, STEP <- 2, MaxFiles <- 3,
    arch <- r1, tmp <- r2, ur2 <- r3, fix <- r4, todo <- r5, recneeded <- r6, old <- r7, new <- r8, phase <- r9
------------------------------------------------------------------------------
(* The original's catalogue: three files of two names, one of which other  *)
(* programs change once, and any three commands in a row.                  *)
ClassicPlaces == {<<<<>>, "a.c">>, <<<<>>, "b.c">>, <<<<"s", "t">>, "a.c">>}
OnDisk(data, time) == [data |-> data, time |-> time, arch |-> TRUE]
ClassicDisk ==
    [p \in ClassicPlaces |-> IF p[2] = "b.c" THEN OnDisk(<<3, 4, 5>>, 3) ELSE OnDisk(IF p[1] = <<>> THEN <<1>> ELSE <<1, 2>>, 4 + Len(p[1]))]
OneKey(name) == "c"
OwnKey(name) == name
EveryMask == {[names |-> {"a.c", "b.c"}, rev |-> -1]}
OnlyA(revision) == {[names |-> {"a.c"}, rev |-> revision]}
Asked(cmd, inc, move, options, masks, unmask, dtt) ==
    [cmd |-> cmd, inc |-> inc, move |-> move, options |-> options, subdirs |-> TRUE, unmask |-> unmask, dtt |-> dtt,
     paths |-> <<[from |-> <<>>, masks |-> masks]>>]
Orders ==
    {Asked("A", i, FALSE, {}, EveryMask, {}, 0) : i \in BOOLEAN}
    \cup {Asked("A", TRUE, TRUE, {"smskip", "rab"}, EveryMask, {}, 0), Asked("A", FALSE, TRUE, {"newer", "rab"}, EveryMask, {}, 0),
          Asked("A", TRUE, FALSE, {"query", "hyper", "arca"}, EveryMask, OnlyA(-1), 0),
          Asked("A", FALSE, FALSE, {"freshen", "contains"}, EveryMask, {}, 0), Asked("A", FALSE, FALSE, {"nof"}, EveryMask, {}, 0),
          Asked("D", FALSE, FALSE, {}, OnlyA(1), {}, 0), Asked("D", FALSE, FALSE, {"query"}, OnlyA(-1), OnlyA(0), 0),
          Asked("D", FALSE, FALSE, {"contains"}, OnlyA(0), {}, 0),
          Asked("X", FALSE, TRUE, {}, OnlyA(0), {}, 0), Asked("X", FALSE, TRUE, {"smskip", "newer"}, OnlyA(1), {}, 0),
          Asked("X", FALSE, FALSE, {}, OnlyA(0), {}, 9), Asked("X", FALSE, FALSE, {"contains", "nof"}, OnlyA(-1), {}, 0),
          [Asked("X", FALSE, FALSE, {}, EveryMask, {}, 0) EXCEPT
             !.paths = <<[from |-> <<>>, masks |-> EveryMask], [from |-> <<"s">>, masks |-> EveryMask]>>],
          Asked("RED", FALSE, FALSE, {}, {}, {}, 0)}
Catalog == INSTANCE ClassicCatalog WITH
    Places <- ClassicPlaces, Shared <- {<<<<>>, "a.c">>}, Contents <- {<<3, 4, 5>>}, Files <- {ClassicDisk}, Jobs <- Orders,
    Key <- OneKey, HyperKey <- OwnKey, SMALL <- 2, LARGE <- 3, ITEM <- 2, TOTAL <- 4, UNIT <- 2, Sought <- 2,
    MaxChanges <- 1, MaxJobs <- 3,
    disk <- r1, archive <- r2, tree <- r3, job <- r4, todo <- r5, out <- r6, said <- r7, before <- r8, left <- r9, stage <- r10
------------------------------------------------------------------------------
(* The command line: an alphabet in which every part of a pattern occurs,  *)
(* names of at most three characters in DOS, directories three deep.       *)
Alphabet == <<"0", "1", "2", "3", ".", "A", "B", "a", "b", "x", "y", "u", "/", "*", "?", ";", "-", "[", "]", "\\", " ", "~">>
PlaceOf(c) == CHOOSE i \in DOMAIN Alphabet : Alphabet[i] = c
WidthOf(c) == IF c = "u" THEN 2 ELSE 1
LowerOf(c) == IF c = "A" THEN "a" ELSE IF c = "B" THEN "b" ELSE c
UpperOf(c) == IF c = "a" THEN "A" ELSE IF c = "b" THEN "B" ELSE c
FileAt(name, data) == [name |-> name, kind |-> "file", data |-> data, kids |-> {}]
DirAt(name, kids) == [name |-> name, kind |-> "dir", data |-> <<>>, kids |-> kids]
SocketAt(name) == [name |-> name, kind |-> "other", data |-> <<>>, kids |-> {}]
SourceA == DirAt(<<"a">>, {FileAt(<<"x">>, <<1>>), DirAt(<<"b">>, {FileAt(<<"y">>, <<2>>)})})
SourceB == DirAt(<<"b">>, {FileAt(<<"x", ".", "y">>, <<3, 4>>)})
SourceC == DirAt(<<"[">>, {FileAt(<<"x">>, <<5>>)})
Inputs ==
    {<<{SourceA}, {SourceB}>>,
     <<{FileAt(<<"x">>, <<1>>)}, {FileAt(<<"x">>, <<2>>)}, {FileAt(<<"x">>, <<3>>)}, {DirAt(<<"b">>, {})}>>,
     <<{DirAt(<<"a">>, {DirAt(<<"a">>, {DirAt(<<"a">>, {FileAt(<<"x">>, <<1>>)})})})}>>,
     <<{DirAt(<<"a">>, {DirAt(<<"a">>, {DirAt(<<"a">>, {DirAt(<<"x">>, {})})})})}>>,
     <<{DirAt(<<"a">>, {DirAt(<<"x">>, {DirAt(<<"b">>, {})})})}>>, <<{FileAt(<<"a">>, <<1>>)}, {DirAt(<<"a">>, {})}>>,
     <<{SourceB}, {SocketAt(<<"y">>)}>>,
     <<{SourceC}, {FileAt(<<"x">>, <<1>>)}>>, <<{FileAt(<<"~">>, <<1>>)}>>}
ArchiveHead ==
    [magic |-> "UC2", short |-> FALSE, length |-> 9, length2 |-> 9, volume |-> 1, offset |-> 3, version |-> 203, sumGood |-> TRUE]
LongName(name) == <<[tag |-> "LONGNAME", value |-> name, fits |-> TRUE]>>
RecordOf(type, parent, id, dos, tags, data) ==
    [type |-> type, parent |-> parent, id |-> id, dos |-> dos, tags |-> tags, volume |-> 1, data |-> data]
EndRecord == RecordOf("end", 0, 0, <<>>, <<>>, <<>>)
OldRecords ==
    <<RecordOf("dir", 0, 7, <<"A", " ", " ", " ", " ">>, <<>>, <<>>),
      RecordOf("file", 7, 0, <<"X", "NUL", "B", "NUL", "x">>, <<>>, <<1>>), RecordOf("file", 7, 0, <<"x", "NUL", "B", "NUL", "x">>, <<>>, <<2>>),
      RecordOf("master", 0, 2, <<>>, <<>>, <<>>),
      RecordOf("file", 3, 0, <<"B", "B", "B", " ", " ">>,
               <<[tag |-> "other", value |-> <<>>, fits |-> TRUE]>> \o LongName(<<"u", "u", "y">>), <<-1>>),
      RecordOf("file", 3, 0, <<"B", "B", "B", "A", " ">>, LongName(<<"u", "u", "u", "u", "u">>), <<4>>)>>
RecordSets ==
    {OldRecords \o <<EndRecord>>, OldRecords, [OldRecords EXCEPT ![6].tags[1].fits = FALSE] \o <<EndRecord>>,
     [OldRecords EXCEPT ![5].volume = 2] \o <<EndRecord>>, <<RecordOf("file", 0, 0, <<>>, LongName(<<".", ".">>), <<1>>), EndRecord>>,
     OldRecords \o <<RecordOf("file", 0, 0, <<>>, LongName(<<"a">>), <<6>>), EndRecord>>}
DirThere == [kind |-> "dir", data |-> <<>>, stamp |-> 99]
FileThere == [kind |-> "file", data |-> <<9>>, stamp |-> 99]
EmptyDisk == <<>> :> DirThere @@ <<"y">> :> DirThere
FullDisk == EmptyDisk @@ <<"y", "/", "a">> :> DirThere @@ <<"y", "/", "b">> :> DirThere
            @@ <<"y", "/", "a", "/", "x">> :> FileThere @@ <<"y", "/", "x">> :> FileThere
PatternLists ==
    {<<>>, << <<"a", "/", "x">>, <<"b", "/", "*">> >>, << <<"?", "/">> >>, << <<"a", "/", "*">>, <<"a", "/">> >>, << <<"*">> >>,
     << <<"*", ";", "*">> >>, << <<"x", ";", "1">> >>, << <<"a", "/", "[", "a", "-", "b", "]", "/", "y">> >>,
     << <<"*", "/", "x", "*", ";", "0", "1">>, <<"*", "1">> >>, << <<"[", "/">> >>, << <<"[">>, <<"a">> >>}
Job == [inputs |-> <<>>, records |-> <<>>, head |-> ArchiveHead, patterns |-> <<>>, opts |-> {}, mode |-> "extract",
        dest |-> <<"y", "/">>, disk |-> EmptyDisk, full |-> FALSE]
Commands ==
    {[Job EXCEPT !.inputs = i, !.patterns = p, !.opts = o, !.disk = d] :
        i \in Inputs, p \in PatternLists, o \in {{}, {"all"}, {"force"}, {"all", "force", "nometa"}}, d \in {EmptyDisk, FullDisk}}
    \cup {[Job EXCEPT !.records = r, !.patterns = p, !.opts = o, !.mode = m] :
             r \in RecordSets, p \in PatternLists, o \in {{}, {"all"}}, m \in {"list", "test", "extract"}}
    \cup {[Job EXCEPT !.records = OldRecords \o <<EndRecord>>, !.head = h] :
             h \in {[ArchiveHead EXCEPT !.magic = "SAS"], [ArchiveHead EXCEPT !.version = 204]}}
    \cup {[Job EXCEPT !.inputs = <<{SourceA}, {SourceB}>>, !.full = TRUE, !.mode = m, !.dest = <<>>] : m \in {"list", "print", "extract"}}
    \cup {[Job EXCEPT !.inputs = i, !.records = OldRecords] : i \in Inputs}
Command == INSTANCE CommandLine WITH
    Jobs <- Commands, Cp850 <- Range(Alphabet) \ {"~"}, Width <- WidthOf, Order <- PlaceOf, Lower <- LowerOf, Upper <- UpperOf,
    STEM <- 3, EXT <- 2, NAME_CHARS <- 5, NAME_BYTES <- 6, DEPTH <- 3, ROOM <- 12,
    job <- r1, stage <- r2, archive <- r3, entries <- r4, todo <- r5, tree <- r6, path <- r7, disk <- r8, said <- r9, error <- r10
------------------------------------------------------------------------------
(* Tar streams of up to four members and extensions, every flaw between    *)
(* two members, and streams that are cut off or go on for too long.        *)
ZeroBlock == [type |-> "zero", sumGood |-> TRUE, name |-> <<>>, prefix |-> <<>>, ustar |-> FALSE, size |-> <<48>>, mode |-> <<50>>,
              mtime |-> <<49, 48>>, payload |-> <<>>, text |-> <<>>, records |-> <<>>, padGood |-> TRUE]
Octal(n) == <<32, 48 + n, 0>>
Block(type, name, payload) ==
    [ZeroBlock EXCEPT !.type = type, !.name = name, !.payload = payload, !.size = Octal(Len(payload)), !.mtime = Octal(Len(name))]
Pax(key, number, text) == [key |-> key, number |-> number, text |-> text, formed |-> TRUE]
PaxBlock(type, records) == [Block(type, <<"n">>, <<>>) EXCEPT !.records = records, !.size = Octal(Len(records))]
LongBlock(text) == [Block("L", <<"n">>, <<>>) EXCEPT !.text = text, !.size = Octal(Len(text))]
TarItems ==
    {Block("0", <<"a", "/", "x">>, <<1>>), [Block("0", <<"x">>, <<2, 3>>) EXCEPT !.ustar = TRUE, !.prefix = <<"a">>, !.mtime = <<128, 0, 6>>],
     Block("5", <<"a", "/">>, <<>>), Block("V7", <<".", "/", "a", "/", "b", "/">>, <<>>), [Block("5", <<".", "/">>, <<>>) EXCEPT !.mode = <<48>>],
     Block("V7", <<"a">>, <<4>>), LongBlock(<<"b", "/", "x">>),
     PaxBlock("x", <<Pax("mtime", <<57, 46, 53>>, <<>>), Pax("path", <<>>, <<"a", "/", "b", "/", "y">>), Pax("uid", <<>>, <<>>)>>),
     PaxBlock("g", <<Pax("mtime", <<49, 51>>, <<>>)>>)}
TarMembers == {i \in TarItems : i.type \in {"0", "5", "V7"}}
TarFlaws ==
    {[Block("0", <<"a">>, <<1>>) EXCEPT !.sumGood = FALSE], [Block("0", <<"a">>, <<1>>) EXCEPT !.size = <<56>>],
     [Block("0", <<"a">>, <<1>>) EXCEPT !.mtime = <<193, 0>>], [Block("0", <<"a">>, <<1>>) EXCEPT !.mtime = <<55, 55, 55, 55, 55, 55>>],
     [Block("0", <<"a">>, <<1>>) EXCEPT !.padGood = FALSE], Block("5", <<"a">>, <<1>>), Block("2", <<"a">>, <<>>),
     PaxBlock("g", <<Pax("path", <<>>, <<"a">>)>>), PaxBlock("x", <<Pax("linkpath", <<>>, <<"a">>)>>), PaxBlock("x", <<Pax("size", <<51>>, <<>>)>>),
     PaxBlock("x", <<[Pax("uid", <<>>, <<>>) EXCEPT !.formed = FALSE]>>), Block("0", <<"a">>, <<1, 2, 3, 4>>),
     Block("0", <<"/", "a">>, <<>>), Block("0", <<"a", "/", "/", "x">>, <<>>), Block("0", <<"a", "/">>, <<5>>),
     Block("0", <<"a", "/", "b", "/", "a", "/", "x">>, <<>>), LongBlock(<<>>)}
    \cup {PaxBlock("x", <<Pax("size", n, <<>>)>>) : n \in {<<>>, <<50, 46, 48>>, <<45, 50>>, <<54, 53, 53, 51, 56>>}}
    \cup {PaxBlock(t, <<Pax("mtime", n, <<>>)>>) : t \in {"x", "g"}, n \in {<<>>, <<57, 46>>, <<46, 53>>, <<57, 120>>, <<54, 53, 53, 51, 56>>}}
Ending(n) == [i \in 1..n |-> ZeroBlock]
Partial == [ZeroBlock EXCEPT !.type = "part"]
SizeGiven == <<PaxBlock("x", <<Pax("size", <<48, 50>>, <<>>)>>), [Block("0", <<"x">>, <<2, 3>>) EXCEPT !.size = Octal(5)]>>
FlawedStreams ==
    {<<i, f, Block("0", <<"y">>, <<2, 3>>)>> \o Ending(2) : i \in TarMembers, f \in TarFlaws}
    \cup {<<i>> \o tail : i \in TarItems,
                               tail \in {<<>>, Ending(1), Ending(5), <<Partial>>, Append(Ending(1), Partial), Append(Ending(3), Partial)}}
TarStreams ==
    {s \o Ending(2) : s \in UNION {[1..n -> TarItems] : n \in 0..4}}
    \cup FlawedStreams \cup {<<i>> \o Ending(4) : i \in TarMembers} \cup {SizeGiven \o Ending(2)}
Tar == INSTANCE TarIngest WITH
    Streams <- TarStreams, BITS <- 16, BLOCK <- 4, SIZE_LIMIT <- 3, PATH_LIMIT <- 6, EXT_LIMIT <- 8, EXT_COUNT <- 2,
    DIR_LIMIT <- 3, DEPTH <- 3, YEARS <- 4..100,
    tape <- r1, whole <- r2, local <- r3, global <- r4, extensions <- r5, dirs <- r6, entries <- r7, status <- r8
------------------------------------------------------------------------------
ASSUME DurabilityAssumption /\ Storage!StorageAssumption

Machines == {"snapshots", "publish", "source", "ingest", "volumes", "timestamps", "memory",
             "file", "storage", "catalog", "command", "tar"}

\* While another machine runs, the source is an empty directory that nobody reads.
SourceRests == ReadingInit /\ dir = [n \in SourceNames |-> 0]
Free10 == r11 = 0
Free9 == r10 = 0 /\ Free10
Free8 == r9 = 0 /\ Free9
Free7 == r8 = 0 /\ Free8
Free3 == r4 = 0 /\ r5 = 0 /\ r6 = 0 /\ r7 = 0 /\ Free7
Free0 == r1 = 0 /\ r2 = 0 /\ r3 = 0 /\ Free3
MCInit ==
    /\ machine \in Machines
    /\ Init
    /\ FilesInit
    /\ TimestampsInit
    /\ IF machine = "source" THEN ReadingInit ELSE SourceRests
    /\ \/ machine \in {"snapshots", "source", "file", "timestamps"} /\ Free0
       \/ machine = "publish" /\ Publish!PublishingInit /\ Free7
       \/ machine = "ingest" /\ Ingest!IngestInit
       \/ machine = "volumes" /\ Shelf!VolumesInit /\ Free3
       \/ machine = "memory" /\ Virtual!VirtualInit /\ Free8
       \/ machine = "storage" /\ Storage!ClassicInit /\ Free9
       \/ machine = "catalog" /\ Catalog!CatalogInit /\ Free10
       \/ machine = "command" /\ Command!CommandInit /\ Free10
       \/ machine = "tar" /\ Tar!TarInit /\ Free8

Keep8 == UNCHANGED <<r9, r10, r11>>
MCNext ==
    /\ UNCHANGED machine
    /\ machine # "snapshots" => UNCHANGED vars
    /\ machine # "source" => UNCHANGED reading
    /\ machine # "file" => UNCHANGED files
    /\ machine # "timestamps" => UNCHANGED timestamps
    /\ \/ machine = "snapshots" /\ Next /\ UNCHANGED registers
       \/ machine = "source" /\ ReadingNext /\ UNCHANGED registers
       \/ machine = "file" /\ FilesNext /\ UNCHANGED registers
       \/ machine = "publish" /\ Publish!PublishingNext /\ UNCHANGED <<r8, r9, r10, r11>>
       \/ machine = "ingest" /\ Ingest!IngestNext
       \/ machine = "volumes" /\ Shelf!VolumesNext /\ UNCHANGED <<r4, r5, r6, r7, r8, r9, r10, r11>>
       \/ machine = "timestamps" /\ TimestampsNext /\ UNCHANGED registers
       \/ machine = "memory" /\ Virtual!VirtualNext /\ Keep8
       \/ machine = "storage" /\ Storage!ClassicNext /\ UNCHANGED <<r10, r11>>
       \/ machine = "catalog" /\ Catalog!CatalogNext /\ UNCHANGED r11
       \/ machine = "command" /\ Command!CommandNext /\ UNCHANGED r11
       \/ machine = "tar" /\ Tar!TarNext /\ Keep8
MCSpec == MCInit /\ [][MCNext]_All
------------------------------------------------------------------------------
(* Whatever was lost, cut off or exchanged of the volumes, what opens is   *)
(* one whole archive; only of two SAS sets of one total whole volumes may  *)
(* be mixed, each in its place (uc2_open_path(), uc2_open_sea()).          *)
WholeOrNothing == machine = "volumes" => Shelf!WholeOrNothing

(* A program killed or refused in the middle of a publication leaves what  *)
(* was there or what is to be there, whole: the ingested stream and the    *)
(* library under it, the original's archive or its recovery, the report,   *)
(* file or repository of another program, the archive of the command line. *)
KeptThroughFailure ==
    /\ machine = "ingest" => Ingest!StreamKept /\ Ingest!LibraryKept
    /\ machine = "storage" => Storage!OneCopyGood
    /\ machine = "publish" => Publish!PublishedWhole /\ Publish!OneReport
    /\ machine = "command" => Command!ArchiveWhole

(* What the original keeps is what it was given: its memory and its pipes  *)
(* hold what was written last through every swap; no cache block of its    *)
(* files is lost; no command changes a revision it was not asked to, nor   *)
(* loses the data of one it moves; a repair gives back the archive         *)
(* (VMEM.CPP, LLIO.CPP, SUPERMAN.CPP, DAMPRO.CPP).                         *)
OriginalKeeps ==
    /\ machine = "memory" => Virtual!HoldsLastWrite /\ Virtual!HeldStaysPut /\ Virtual!PipeInOrder
    /\ machine = "file" => BlocksBack
    /\ machine = "catalog" => Catalog!HistoriesKept /\ Catalog!MovesAreSafe
    /\ machine = "storage" => Storage!RepairGivesBack

(* The command line archives the tree it was given, selects, lists and     *)
(* extracts what the patterns say and no more, a tar stream becomes the    *)
(* archive its members describe unless it has a flaw, and a test accepts   *)
(* the timestamp exactly of a sound proof (main.c, ingest_tar.c,           *)
(* uc2_ots.c).                                                             *)
CommandsRight ==
    /\ machine = "command" => /\ Command!CreatedTree /\ Command!SelectionRight /\ Command!ShownRight
                              /\ Command!OthersKept /\ Command!ExtractedWhereNew
    /\ machine = "tar" => Tar!TarKept /\ (r2 \in FlawedStreams => r8 # "done")
    /\ machine = "timestamps" => AcceptsSound
------------------------------------------------------------------------------
(* The command line alone, for the one thing it should do and does not.    *)
ExtractInit == machine = "command" /\ Init /\ FilesInit /\ TimestampsInit /\ SourceRests /\ Command!CommandInit /\ Free10
ExtractSpec == ExtractInit /\ [][MCNext]_All

(* What the manual says of an extraction: the files selected are then in   *)
(* the directory given, under their paths (extract_cb()).                  *)
ExtractedInPlace == machine = "command" => Command!ExtractedInPlace
------------------------------------------------------------------------------
(* Snapshots under power failures alone, for what create's docstring says  *)
(* without an exception.                                                   *)
RetryInit == machine = "snapshots" /\ Init /\ FilesInit /\ TimestampsInit /\ SourceRests /\ Free0
RetrySpec == RetryInit /\ [][MCNext]_All
=============================================================================
