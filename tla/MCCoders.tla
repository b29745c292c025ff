------------------------------ MODULE MCCoders ------------------------------
(***************************************************************************)
(* The archive reader, and the coders under it, each on its own inputs.    *)
(* One of six machines runs: the reader, the matcher and the windows on    *)
(* their own variables, the others on registers they share.                *)
(***************************************************************************)
EXTENDS ArchiveReader, MatchFinder, DecodeWindows, OriginalTrees, TLC

VARIABLES machine, r1, r2, r3, r4, r5, r6, r7, r8, r9, r10, r11, r12, r13
registers == <<r1, r2, r3, r4, r5, r6, r7, r8, r9, r10, r11, r12, r13>>
------------------------------------------------------------------------------
(* The reader: every archive of three masters, chains, trees, cycles of    *)
(* any length, gaps, and one damaged stream.  The limit leaves room for    *)
(* any two dictionaries and not for all three.                             *)
CONSTANTS m1, m2, m3
LengthOf == [m \in {m1, m2, m3} |-> IF m = m1 THEN 1 ELSE 2]
\* The archive on which the reader stays shut while another machine runs.
Shut == needs = [m \in Master |-> Super] /\ damaged = {}
------------------------------------------------------------------------------
(* Bit streams: fields of every width that matters at the edge of a word.  *)
Widths == {1, 3, 13, 15, 16}
FieldSet == UNION {{[value |-> v, width |-> w] : v \in {0, 2^w - 1, 2^w \div 3}} : w \in Widths}
Streams == INSTANCE BitStreams WITH
    Fields <- {<<>>} \cup [1..1 -> FieldSet] \cup [1..2 -> FieldSet]
              \cup {[i \in 1..5 |-> IF i % 2 = 1 THEN a ELSE b] : a \in FieldSet, b \in FieldSet},
    OBUFS <- 4, IBUFS <- 4, CHUNK <- 3,
    fields <- r1, program <- r2, word <- r3, room <- r4, buffer <- r5, stream <- r6, bits <- r7, have <- r8,
    next13 <- r9, got <- r10, written <- r11, lost <- r12, phase <- r13
------------------------------------------------------------------------------
(* The library's matcher: a ring of 16 bytes, so that it wraps and chains  *)
(* lead into what was overwritten.                                         *)
ThreeHash(a, b, c) == (a + b + c) % 3
Repeating(p, n) == [i \in 1..n |-> p[((i - 1) % Len(p)) + 1]]
MatcherInputs ==
    [master : {<<>>, <<1, 2, 3, 1, 2>>},
     data : {<<>>, <<1, 2>>, Repeating(<<1, 2, 3, 1, 2, 0>>, 19), Repeating(<<1>>, 18),
             <<1, 2, 3, 0, 0, 1, 2, 2, 3, 0, 0, 1, 1, 2, 3, 0, 0, 1, 2>>, Repeating(<<2, 1, 2, 1, 1, 2, 2, 3, 1>>, 23)},
     search : {3}, lazyDepth : {0, 2}, lazyLimit : {5}, giveUp : {4, 6}]
    \cup {[master |-> Repeating(<<1, 2>>, 16), data |-> <<1>>, search |-> 3, lazyDepth |-> 0, lazyLimit |-> 5, giveUp |-> 4]}
\* A refused input, which rests while another machine runs.
MatcherRests == Len(input.master) = 16
------------------------------------------------------------------------------
(* The original's: sessions of up to three files, whose masters return.    *)
SevenHash(a, b, c) == (a + b + c) % 7
Near == <<1, 2, 3, 0, 5, 2, 3, 4, 5, 6, 0, 0, 1, 2, 3, 4, 5, 6, 7, 8, 9, 1, 2, 3, 4, 5, 6>>
FileSet == [index : {1, 2}, data : {<<>>, Near, Repeating(<<1, 2, 3>>, 41)}]
MasterOf(index) == IF index = 1 THEN Repeating(<<1, 2, 3, 4>>, 16) ELSE Repeating(<<5, 1>>, 8)
Filed(f) == [index |-> f.index, master |-> MasterOf(f.index), data |-> f.data]
Sessions3 == {<<Filed(f)>> : f \in FileSet} \cup {<<Filed(f), Filed(g)>> : f \in FileSet, g \in FileSet}
             \cup {<<Filed(f), Filed(g), Filed(f)>> : f \in FileSet, g \in FileSet}
Original == INSTANCE OriginalMatcher WITH
    Sessions <- Sessions3, READ_SIZE <- 8, MAX_DIST <- 24, MAX_LEN <- 5, MAX_XLEN <- 11, LOW <- 18, TAIL <- 3,
    HIBUFS <- 5, BNo <- 2, Depth <- 6, LazyDepth <- 6, LazyLimit <- 5, GiveUp <- 5, HASH <- SevenHash,
    session <- r1, m <- r2, match <- r3, tokens <- r4, words <- r5, blocks <- r6, store <- r7, LM <- r8,
    lasMas <- r9, stage <- r10
------------------------------------------------------------------------------
(* Decoding windows of 16 bytes.                                           *)
Coding == INSTANCE RansBlocks
Char(b) == Coding!Literal(b)
Match(dist, len) == Coding!Match(dist, len)
Nine == [i \in 1..9 |-> Char(20 * i)]
ValidTokens == {<<>>, Nine, Nine \o <<Match(4, 6), Char(7), Match(9, 5), Match(1, 4), Char(250)>>,
                <<Char(1), Match(1, 6), Match(3, 6), Char(2), Match(7, 6), Match(5, 3), Char(9)>>}
BadToken == {Match(9, 0), Match(16, 3), Match(10, 9)}
BadTokens == {Nine \o <<bad, Char(1)>> : bad \in BadToken}
WindowMembers ==
    [method : {4, 21} \cup 30..33, master : {<<>>, <<3, 5, 9>>, [i \in 1..11 |-> 10 * i]}, super : {TRUE, FALSE},
     tokens : ValidTokens, size : {0, 9, 21, 60}]
    \cup [method : {4, 32}, master : {<<>>}, super : {FALSE}, tokens : BadTokens \cup {Nine \o <<Match(4, 9), Match(9, 9), Char(1)>>},
           size : {60}]
\* An empty member, which rests while another machine runs.
WindowRests == [method |-> 4, master |-> <<>>, super |-> TRUE, tokens |-> <<>>, size |-> 0]
\* What the analysis of a sample gives whose third differences are the cheapest.
SampledMethods ==
    {Analyze(4, size, [n \in 0..4 |-> IF n = 3 THEN 300 ELSE 400], worse) : size \in {1500, 1501}, worse \in BOOLEAN}
------------------------------------------------------------------------------
(* Whole coders: what is stored, perhaps cut short, is read back.          *)
Turbo == INSTANCE TurboBlocks WITH BLOCK_SIZE <- 11, TAIL <- 3
LastHash(four) == (four[1] + four[4]) % 5
Fast == INSTANCE FastBlocks WITH Lz4Hash <- LastHash, FAR <- 24
SlotOf(w) == (w[1] + w[2]) % 4
Transforms == INSTANCE ByteTransforms WITH WINDOW <- 2, MIN_MATCH <- 4, DeltaSlot <- SlotOf

Lits(s) == [i \in DOMAIN s |-> Char(s[i])]
Text == <<97, 98, 97, 99, 97, 98, 97, 100, 97, 98, 97, 99>>
Matches == <<Char(65), Char(0), Match(1, 3), Match(2, 10), Char(200), Match(15, 11), Match(16, 26), Match(17, 27),
             Match(60, 90), Match(100, 91), Match(192, 154), Match(255, 155), Match(256, 200)>>
Long == Matches \o [i \in 1..80 |-> Match(300 + i, 3)]   \* entries enough for trees of its own
Blocks == {<<Lits(Text)>>, <<Matches, Lits(Text) \o <<Match(12, 30)>>>>, <<Long, Matches, <<>>>>,
           <<Lits([i \in 1..40 |-> (i * i) % 251])>>}
StreamCases == [kind : {"huffman", "rans"}, master : {<<>>, [i \in 1..20 |-> 40 + i]}, blocks : Blocks \cup {<<<<>>>>}]
               \cup [kind : {"raw"}, master : {<<>>}, blocks : Blocks]
PlainData == {<<>>, <<0>>, Text, Repeating(Text, 31), [i \in 1..23 |-> i], <<232, 1, 2, 232, 255, 9, 233, 255, 255, 255, 255, 7>>,
              [i \in 1..45 |-> IF i = 7 THEN 9 ELSE 1], Repeating(<<0, 0, 1>>, 14)}
PlainCases == [kind : {"turbo", "old turbo", "lz4", "bcj", "bwt", "stride", "versions"}, master : {<<>>, Repeating(Text, 17)}, data : PlainData]

TreeCases == [kind : {"tree"}, freq : {[s \in 0..4 |-> <<0, 1, 4, 16>>[((n \div 4^s) % 4) + 1]] : n \in 0..4^5 - 1}, max : {3}]
             \cup [kind : {"tree"}, freq : {[s \in 0..6 |-> <<1, 4, 16>>[((n \div 3^s) % 3) + 1]] : n \in 0..3^7 - 1}, max : {4}]

Mixed(k) == [s \in Symbols(NumSymbols) |-> (s * k + (s \div 7)) % 14]
Runs(k) == [s \in Symbols(NumSymbols) |-> IF (s \div k) % 3 = 0 THEN 0 ELSE 8 + ((s \div k) % 5)]
OnlyText(f) == [s \in DOMAIN f |-> IF s \in Present(0) THEN f[s] ELSE 0]
LengthsCases == [kind : {"lengths"}, now : {Mixed(3), Runs(9), OnlyText(Runs(23)), DefaultLengths},
                 previous : {DefaultLengths, Runs(4)}]

DataOf(c) ==
    IF c.kind \in {"huffman", "rans", "raw"}
    THEN LET all == Unpack(c.master, Concat(c.blocks)).data IN SubSeq(all, Len(c.master) + 1, Len(all))
    ELSE c.data

\* What each writer stores.
Stored(c) ==
    CASE c.kind \in {"huffman", "raw"} -> Coding!Stream(c.blocks)
      [] c.kind = "rans" -> Coding!RansStream(c.blocks)
      [] c.kind \in {"turbo", "old turbo"} -> Turbo!TurboCompressor(c.data, c.master)
      [] c.kind = "lz4" -> Fast!Lz4Compress(c.data, 60)
      [] c.kind = "bcj" -> Transforms!BcjApply(c.data)
      [] c.kind = "bwt" -> Transforms!BwtApply(c.data).out
      [] c.kind = "stride" -> Transforms!DeltaFilterApply(c.data, 3)
      [] c.kind = "versions" -> Transforms!DeltaEncode(c.master, c.data).instructions
      [] c.kind = "tree" -> TreeGen(c.freq, Cardinality(DOMAIN c.freq), c.max)
      [] c.kind = "lengths" -> TreeEnc(c.now, c.previous)

Full(all, wanted) == IF Len(all) < Len(wanted) THEN [status |-> "Truncated", out |-> <<>>] ELSE [status |-> "Done", out |-> all]
Answer(r) == [status |-> IF r.ok THEN "Done" ELSE "Damaged", out |-> r.out]

Followed(bits) == Finish(bits \o [i \in 1..16 |-> 0])

\* What each reader makes of what it finds; of trees and their lengths, the original program too.
ReadBack(c, s) ==
    CASE c.kind = "huffman" -> Coding!Extract(s, c.master, Len(DataOf(c)))
      [] c.kind = "raw" -> Coding!Raw(s, Len(DataOf(c)))
      [] c.kind = "rans" -> Coding!RansExtract(s, c.master, Len(DataOf(c)))
      [] c.kind = "turbo" -> Turbo!TurboExtract(s, c.master, Len(c.data))
      [] c.kind = "old turbo" -> Full(Turbo!TurboDecompressor(s, c.master), c.data)
      [] c.kind = "lz4" -> Full(Fast!Lz4Decompress(s, Len(c.data)), c.data)
      [] c.kind = "bcj" -> Full(Transforms!BcjRevert(s), c.data)
      [] c.kind = "stride" -> Full(Transforms!DeltaFilterRevert(s, 3), c.data)
      [] c.kind = "bwt" -> Answer(Transforms!BwtRevert(s, CHOOSE i \in Transforms!BwtApply(c.data).primaries : TRUE))
      [] c.kind = "versions" -> Answer(Transforms!DeltaApply(c.master, [length |-> Len(c.data), instructions |-> s]))
      [] c.kind = "tree" -> OldTreeGen(c.freq, Cardinality(DOMAIN c.freq), c.max)
      [] c.kind = "lengths" ->
            [old |-> OldTreeEnc(c.now, c.now = BasePrev, c.previous), library |-> HtDec(Followed(s), 0, c.previous),
             original |-> TreeDec(Followed(s), 0, c.previous)]

\* A filter changes no length, so only the others are cut short.
Cuttable(c) == c.kind \in {"huffman", "rans", "raw", "turbo", "lz4", "versions"}

CoderInit ==
    /\ r1 \in StreamCases \cup PlainCases \cup TreeCases \cup LengthsCases
    /\ r2 = "Given"
    /\ r3 = <<>>
    /\ r4 = <<>>
Store ==
    /\ r2 = "Given"
    /\ r2' = "Stored"
    /\ r3' = Stored(r1)
    /\ UNCHANGED <<r1, r4>>
CutShort ==
    /\ r2 = "Stored"
    /\ Cuttable(r1)
    /\ \E n \in {1, 2, 16, 40, Len(r3) \div 2} :
          /\ n < Len(r3)
          /\ r3' = SubSeq(r3, 1, Len(r3) - n)
    /\ r2' = "Cut"
    /\ UNCHANGED <<r1, r4>>
ReadIt ==
    /\ r2 \in {"Stored", "Cut"}
    /\ r4' = ReadBack(r1, r3)
    /\ r2' = IF r2 = "Stored" THEN "Read" ELSE "ReadCut"
    /\ UNCHANGED <<r1, r3>>
CoderNext == Store \/ CutShort \/ ReadIt

(* A tree is complete, so that every 13 bits lead to a symbol; its shape   *)
(* is that of the original program; and either program reads back the tree *)
(* that either wrote.                                                      *)
Weight(lengths, max) == Total([s \in Coded(lengths) |-> 2^(max - lengths[s])])
TreeRight(c, made, old) ==
    /\ made = old
    /\ Weight(made, c.max) = 2^c.max
    /\ \A s \in DOMAIN c.freq : c.freq[s] > 0 => made[s] \in 1..c.max
LengthsRight(c, written, read) ==
    /\ written = read.old
    /\ read.library.ok
    /\ read.library.lengths = c.now
    /\ read.original.lengths = c.now
    /\ read.library.at = Len(written)
    /\ read.original.at = Len(written)
------------------------------------------------------------------------------
ASSUME CodersAssumption ==
    Turbo!TurboAssumption /\ Transforms!DeltaAssumption /\ Original!OriginalAssumption

Machines == {"reader", "streams", "matcher", "original", "windows", "coder"}

Unused4 == r11 = 0 /\ r12 = 0 /\ r13 = 0

MCInit ==
    /\ machine \in Machines
    /\ Init
    /\ machine # "reader" => Shut
    /\ MatcherInit
    /\ machine # "matcher" => MatcherRests
    /\ member \in IF machine = "windows" THEN {m \in WindowMembers : m.method \in {21} \cup SampledMethods} ELSE {WindowRests}
    /\ program \in IF machine = "windows" THEN {"library", "raw", "original"} ELSE {"library"}
    /\ WindowsInit
    /\ \/ /\ machine \in {"reader", "matcher", "windows"}
          /\ r1 = 0 /\ r2 = 0 /\ r3 = 0 /\ r4 = 0 /\ r5 = 0 /\ r6 = 0 /\ r7 = 0 /\ r8 = 0 /\ r9 = 0 /\ r10 = 0 /\ Unused4
       \/ /\ machine = "streams"
          /\ Streams!StreamsInit
       \/ /\ machine = "original"
          /\ Original!OriginalInit
          /\ Unused4
       \/ /\ machine = "coder"
          /\ CoderInit
          /\ r5 = 0 /\ r6 = 0 /\ r7 = 0 /\ r8 = 0 /\ r9 = 0 /\ r10 = 0 /\ Unused4

CodersNext ==
    \/ /\ machine = "streams"
       /\ Streams!StreamsNext
    \/ /\ machine = "original"
       /\ Original!OriginalNext
       /\ UNCHANGED <<r11, r12, r13>>
    \/ /\ machine = "coder"
       /\ CoderNext
       /\ UNCHANGED <<r5, r6, r7, r8, r9, r10, r11, r12, r13>>

MCNext ==
    /\ UNCHANGED machine
    /\ \/ machine = "reader" /\ Next /\ UNCHANGED <<matcher, windows, registers>>
       \/ machine = "matcher" /\ MatcherNext /\ UNCHANGED <<vars, windows, registers>>
       \/ machine = "windows" /\ WindowsNext /\ UNCHANGED <<vars, matcher, registers>>
       \/ CodersNext /\ UNCHANGED <<vars, matcher, windows>>

ReaderStep == machine = "reader" /\ Step /\ UNCHANGED <<machine, matcher, windows, registers>>
All == <<machine, vars, matcher, windows, registers>>

\* A call of the reader runs to its end: nothing in it waits.
MCSpec == MCInit /\ [][MCNext]_All /\ WF_All(ReaderStep)
------------------------------------------------------------------------------
(* Every call of the reader ends, whatever the needs of the masters: a     *)
(* cycle is noticed.                                                       *)
CallsEnd == busy ~> ~busy

(* What either writer put into a bit stream either reader gets, value by   *)
(* value, and a stream that was cut off is never read to its end           *)
(* (BITIO.CPP; bits_get() and bitsout_put()).  What a coder stored is read *)
(* back as it was; cut short, it is read back as it was or refused         *)
(* (flush_block(), flush_block_rans(), COMP_TT.CPP, uc2_lz4.c, uc2_delta.c *)
(* and their readers).  And the tokens of the original's matcher, expanded *)
(* after the master, are the file (UltraCompressor()).                     *)
StoredIsReadBack ==
    /\ machine = "streams" => Streams!ReadsWhatWasPut
    /\ machine = "coder" /\ r1.kind \notin {"tree", "lengths"} =>
          /\ r2 = "Read" => r4.status = "Done"
          /\ r2 \in {"Read", "ReadCut"} /\ r4.status = "Done" => r4.out = DataOf(r1)
    /\ machine = "original" =>
          /\ r10 = "Written" => Original!ExpandAll(Head(r1).master, r4) = Head(r1).master \o Head(r1).data
          /\ \A i \in DOMAIN r4 : r4[i].dist > 0 => r4[i].dist <= 24 /\ r4[i].len \in 3..11
          /\ \A h \in DOMAIN r2.cnt : r2.cnt[h] >= 0

(* The library makes the trees the original made, complete ones within the *)
(* limit, and either program reads back the lengths the other wrote        *)
(* (treegen(), tree_enc(), ht_dec(); TREEGEN.CPP, TREEENC.CPP).            *)
TreesAgree ==
    machine = "coder" /\ r2 = "Read" =>
        /\ r1.kind = "tree" => TreeRight(r1, r3, r4)
        /\ r1.kind = "lengths" => LengthsRight(r1, r3, r4)
------------------------------------------------------------------------------
(* The frequencies of a block of level 6, on their own: symbols that are   *)
(* frequent beside ones that occur once.                                   *)
CountCases == [many : {1, 20, 44}, often : {10, 600}, few : {0, 100, 200}]
CountsOf(c) ==
    [s \in Symbols(NumSymbols) |-> IF s < c.many THEN c.often ELSE IF s < c.many + c.few THEN 1 ELSE 0]

TableInit ==
    /\ machine = "table"
    /\ Init
    /\ Shut
    /\ MatcherInit
    /\ MatcherRests
    /\ member = WindowRests
    /\ program = "library"
    /\ WindowsInit
    /\ r1 \in CountCases
    /\ r2 = "Counted"
    /\ r3 = <<>>
    /\ r4 = 0 /\ r5 = 0 /\ r6 = 0 /\ r7 = 0 /\ r8 = 0 /\ r9 = 0 /\ r10 = 0 /\ Unused4
MakeTable ==
    /\ r2 = "Counted"
    /\ r2' = "Made"
    /\ r3' = Coding!BuildTable(CountsOf(r1)).freq
    /\ UNCHANGED <<machine, vars, matcher, windows, r1, r4, r5, r6, r7, r8, r9, r10, r11, r12, r13>>
TableSpec == TableInit /\ [][MakeTable]_All

(* What the header says of every table: its frequencies add up to the      *)
(* scale (uc2_rans_build_table()).                                         *)
ScaledToSum == machine = "table" /\ r2 = "Made" => Total(r3) = Coding!PROB_SCALE
=============================================================================
