----------------------------- MODULE BlockStream -----------------------------
(***************************************************************************)
(* The Huffman-coded stream of UC2 (methods 1 to 9): blocks of literals    *)
(* and matches as lib/src/compress.c writes them, and as                   *)
(* lib/src/decompress.c reads them, from an archive and from a raw stream. *)
(*                                                                         *)
(* A token is a literal [byte, dist = 0, len = 0] or a match of len bytes  *)
(* dist back.  A reader's result is the bytes it produced and a status.    *)
(***************************************************************************)
EXTENDS HuffmanTrees

MAX_DIST == 64000
EOB_MARK == MAX_DIST + 1
Window == 65536

Literal(b) == [byte |-> b, dist |-> 0, len |-> 0]
Match(d, n) == [byte |-> 0, dist |-> d, len |-> n]
IsMatch(t) == t.dist > 0
------------------------------------------------------------------------------
(* encode_dist() and encode_len() compute the symbol a distance or length  *)
(* is counted under; the tables give the base and the extra bits of every  *)
(* symbol, and to_sym() finds the symbol again when the block is written.  *)
EncodeDist(d) ==
    IF d <= 15 THEN [symbol |-> d - 1, extra |-> 0]
    ELSE IF d <= 255 THEN [symbol |-> (d - 16) \div 16 + 15, extra |-> (d - 16) % 16]
    ELSE IF d <= 4095 THEN [symbol |-> (d - 256) \div 256 + 30, extra |-> (d - 256) % 256]
    ELSE [symbol |-> (d - 4096) \div 4096 + 45, extra |-> (d - 4096) % 4096]

EncodeLen(n) ==
    CASE n <= 10 -> n - 3
      [] n \in 11..26 -> (n - 11) \div 2 + 8
      [] n \in 27..90 -> (n - 27) \div 8 + 16
      [] n \in 91..154 -> 24
      [] n \in 155..666 -> 25
      [] n \in 667..2714 -> 26
      [] OTHER -> 27

DistBase(s) == IF s < 15 THEN s + 1 ELSE ((s % 15) + 1) * 16^(s \div 15)
DistBits(s) == 4 * (s \div 15)
LenBase(s) ==
    IF s < 8 THEN s + 3 ELSE IF s < 16 THEN 11 + 2 * (s - 8) ELSE IF s < 24 THEN 27 + 8 * (s - 16)
    ELSE <<91, 155, 667, 2715>>[s - 23]
LenBits(s) == IF s < 8 THEN 0 ELSE IF s < 16 THEN 1 ELSE IF s < 24 THEN 3 ELSE <<6, 9, 11, 15>>[s - 23]

DistSym(d) == Greatest({s \in Symbols(NumDistSym) : d >= DistBase(s)})
LenSym(n) == Greatest({s \in Symbols(NumLenSym) : n >= LenBase(s)})
------------------------------------------------------------------------------
(* flush_block(): the symbols counted while matching give the trees, except*)
(* in a short first block, which takes the default tree.                   *)
Entries(t) == IF ~IsMatch(t) THEN 1 ELSE IF t.dist <= 15 THEN 2 ELSE 3

BlockLengths(tokens, first) ==
    LET count(P(_)) == Cardinality({i \in DOMAIN tokens : P(tokens[i])})
        dists(s) == count(LAMBDA t : IsMatch(t) /\ EncodeDist(t.dist).symbol = s)
        eob(s) == IF s = DistSym(EOB_MARK) THEN 1 ELSE 0
        lens(s) == count(LAMBDA t : IsMatch(t) /\ EncodeLen(t.len) = s)
        bd == TreeGen([s \in Symbols(NumByteSym + NumDistSym) |->
                  IF s < NumByteSym THEN count(LAMBDA t : ~IsMatch(t) /\ t.byte = s)
                  ELSE dists(s - NumByteSym) + eob(s - NumByteSym)], NumByteSym + NumDistSym, MaxCodeBits)
        l == TreeGen([s \in Symbols(NumLenSym) |-> lens(s) + (IF s = 0 THEN 1 ELSE 0)], NumLenSym, MaxCodeBits)
    IN  IF first /\ Total([i \in DOMAIN tokens |-> Entries(tokens[i])]) < 256 THEN DefaultLengths
        ELSE [s \in Symbols(NumSymbols) |->
                 IF s < NumByteSym + NumDistSym THEN bd[s] ELSE l[s - NumByteSym - NumDistSym]]

BdPart(lengths) == [s \in Symbols(NumByteSym + NumDistSym) |-> lengths[s]]
LenPart(lengths) == [s \in Symbols(NumLenSym) |-> lengths[s + NumByteSym + NumDistSym]]

\* The tokens of a block and its end, in the codes of its two trees.
Coding(tokens, bd, l) ==
    LET mark == DistSym(EOB_MARK)
        code(s, extra) == bd[NumByteSym + s] \o Bits(extra, DistBits(s))
        distance(e) == code(e.symbol, e.extra)
        length(s, n) == l[s] \o Bits(n - LenBase(s), LenBits(s))
        written(t) == IF IsMatch(t) THEN distance(EncodeDist(t.dist)) \o length(LenSym(t.len), t.len) ELSE bd[t.byte]
    IN  Concat([i \in DOMAIN tokens |-> written(tokens[i])]) \o code(mark, EOB_MARK - DistBase(mark)) \o l[0]
Block(tokens, lengths, previous) ==
    <<1>> \o TreeEnc(lengths, previous) \o Coding(tokens, CodeGen(BdPart(lengths)), CodeGen(LenPart(lengths)))

\* A stream: its blocks, each tree written against the one before it, and a zero bit.
StreamOf(blocks, lengths) ==
    Finish(Concat([i \in DOMAIN blocks |->
        Block(blocks[i], lengths[i], IF i = 1 THEN DefaultLengths ELSE lengths[i - 1])]) \o <<0>>)
Stream(blocks) == StreamOf(blocks, [i \in DOMAIN blocks |-> BlockLengths(blocks[i], i = 1)])
------------------------------------------------------------------------------
(* decompress_block(): tokens until the end-of-block distance.  A match    *)
(* must have a length, fit the window and stay within what was produced.   *)
Copy(out, dist, len) ==
    out \o [k \in 1..len |-> out[Len(out) - dist + 1 + ((k - 1) % dist)]]

BadMatch(dist, len, produced, pending) ==
    len = 0 \/ len > Window - pending - 1 \/ dist = 0 \/ dist > produced

Expect(bits, at, n, base) ==
    IF Has(bits, at, n) THEN [ok |-> TRUE, value |-> base + Peek(bits, at, n), at |-> at + n]
    ELSE [ok |-> FALSE, value |-> 0, at |-> at]

RECURSIVE ReadBlock(_, _, _, _, _)
ReadBlock(bits, at, bd, l, out) ==
    LET one == Huff(bd, bits, at)
        s == one.symbol - NumByteSym
        dist == Expect(bits, one.at, DistBits(s), DistBase(s))
        two == Huff(l, bits, dist.at)
        len == Expect(bits, two.at, LenBits(two.symbol), LenBase(two.symbol))
        stop(status, where) == [status |-> status, at |-> where, out |-> out]
    IN  IF ~one.ok THEN stop("Truncated", at)
        ELSE IF one.symbol < NumByteSym THEN ReadBlock(bits, one.at, bd, l, Append(out, one.symbol))
        ELSE IF ~dist.ok THEN stop("Truncated", one.at)
        ELSE IF ~two.ok THEN stop("Truncated", dist.at)
        ELSE IF dist.value = EOB_MARK THEN stop("End", two.at)
        ELSE IF ~len.ok THEN stop("Truncated", two.at)
        ELSE IF ~two.assigned \/ BadMatch(dist.value, len.value, Len(out), 0) THEN stop("Damaged", len.at)
        ELSE ReadBlock(bits, len.at, bd, l, Copy(out, dist.value, len.value))

(* decompressor_ultra(): blocks while their present bit is set.  A reader  *)
(* of archives (strict false) goes on after a block it could not finish,   *)
(* and its caller compares size and checksum; a raw reader stops.  Once a  *)
(* read has failed every later one does.                                   *)
RECURSIVE ReadStream(_, _, _, _, _), ReadTreed(_, _, _, _, _), AfterBlock(_, _, _, _)
ReadStream(bits, at, previous, out, strict) ==
    IF ~Has(bits, at, 1) THEN [status |-> "Truncated", at |-> at, out |-> out]
    ELSE IF bits[at + 1] = 0 THEN [status |-> "End", at |-> at + 1, out |-> out]
    ELSE ReadTreed(bits, at, HtDec(bits, at + 1, previous), out, strict)
ReadTreed(bits, at, tree, out, strict) ==
    LET bd == MkTree(BdPart(tree.lengths))
        l == MkTree(LenPart(tree.lengths))
    IN  IF ~tree.ok \/ bd.damaged \/ l.damaged THEN [status |-> "Damaged", at |-> at, out |-> out]
        ELSE AfterBlock(bits, ReadBlock(bits, tree.at, bd, l, out), tree.lengths, strict)
AfterBlock(bits, block, lengths, strict) ==
    IF block.status = "Truncated" \/ (block.status # "End" /\ strict) THEN block
    ELSE ReadStream(bits, block.at, lengths, block.out, strict)

\* Of what a decoder left behind the master, size bytes are wanted.
Wanted(out, size) ==
    IF Len(out) < size THEN [status |-> "Truncated", out |-> out] ELSE [status |-> "Done", out |-> SubSeq(out, 1, size)]

\* decompressor() then uc2_extract(): an error leaves too few bytes.
Extract(bits, master, size) ==
    LET read == ReadStream(bits, 0, DefaultLengths, master, FALSE)
    IN  Wanted(SubSeq(read.out, Len(master) + 1, Len(read.out)), size)

(* uc2_decompress_raw(): the stream is all there is; one zero word follows *)
(* it for the lookahead, none of whose bits may be consumed, and the       *)
(* stream must end in its last word.                                       *)
ReadAll(bits) == ReadStream(bits \o [i \in 1..16 |-> 0], 0, DefaultLengths, <<>>, TRUE)
Accepted(read, fits) ==
    IF read.status # "End" \/ ~fits THEN [status |-> "Failed", out |-> <<>>] ELSE [status |-> "Done", out |-> read.out]

EndsThere(bits, limit, read) ==
    /\ bits # <<>>
    /\ Len(read.out) <= limit
    /\ read.at <= Len(bits)
    /\ (read.at + 15) \div 16 = Len(bits) \div 16

Judge(bits, limit, read) == Accepted(read, EndsThere(bits, limit, read))
Raw(bits, limit) == Judge(bits, limit, ReadAll(bits))
=============================================================================
