------------------------------ MODULE RansBlocks ------------------------------
(***************************************************************************)
(* Method 10: blocks whose symbols are coded with a range asymmetric       *)
(* numeral system (lib/src/uc2_rans.c) and whose extra bits follow them    *)
(* (flush_block_rans() of compress.c, decompressor_rans() of decompress.c).*)
(* The numbers are the code's own: the state stays below 2^31.             *)
(***************************************************************************)
EXTENDS BlockStream

PROB_BITS == 12
PROB_SCALE == 2^PROB_BITS
RANS_L == 2^23
EobDist == NumByteSym + DistSym(EOB_MARK)
FirstLen == NumByteSym + NumDistSym

\* Faulty variant: the difference to the scale is not made up.
BuildUnadjusted(raw) ==
    LET total == Total(raw)
        freq == [s \in DOMAIN raw |-> (raw[s] * PROB_SCALE) \div total]
    IN  [freq |-> freq, cumfreq |-> [s \in DOMAIN raw |-> Total([k \in {x \in DOMAIN raw : x < s} |-> freq[k]])]]

(* uc2_rans_build_table(): every symbol that occurs gets its share of the  *)
(* scale, at least 1; the first of the largest takes up the difference, in *)
(* 16 bits.                                                                *)
BuildTable(raw) ==
    LET total == Total(raw)
        used == {s \in DOMAIN raw : raw[s] > 0}
        share(s) == (raw[s] * PROB_SCALE) \div total
        freq == [s \in DOMAIN raw |-> IF s \notin used THEN 0 ELSE IF share(s) = 0 THEN 1 ELSE share(s)]
        most == Greatest(Range(freq))
        largest == Least({s \in DOMAIN raw : freq[s] = most})
        adjusted == [freq EXCEPT ![largest] = (@ + PROB_SCALE - Total(freq)) % 2^16]
    IN  [freq |-> IF total = 0 THEN freq ELSE adjusted,
         cumfreq |-> [s \in DOMAIN raw |->
             IF total = 0 THEN 0 ELSE Total([k \in {x \in used : x < s} |-> adjusted[k]]) % 2^16]]

(* uc2_rans_encode(), the last symbol first: bytes leave the state until   *)
(* the symbol fits.  enc_finish() writes the state, and all of it in       *)
(* reverse.                                                                *)
RECURSIVE Renormalise(_, _, _)
Renormalise(state, freq, data) ==
    IF state \div 2^(31 - PROB_BITS) >= freq THEN Renormalise(state \div 256, freq, <<state % 256>> \o data)
    ELSE [state |-> state, data |-> data]

RECURSIVE Encode(_, _, _, _)
Encode(syms, tab, state, data) ==
    LET s == syms[Len(syms)]
        freq == tab.freq[s]
        room == Renormalise(state, freq, data)
    IN  IF syms = <<>>
        THEN <<state \div 2^24, (state \div 2^16) % 256, (state \div 2^8) % 256, state % 256>> \o data
        ELSE IF freq = 0 THEN Encode(SubSeq(syms, 1, Len(syms) - 1), tab, state, data)
        ELSE Encode(SubSeq(syms, 1, Len(syms) - 1), tab,
                    (room.state \div freq) * PROB_SCALE + tab.cumfreq[s] + (room.state % freq), room.data)

(* uc2_rans_decode(): the symbol whose interval holds the low bits of the  *)
(* state; bytes come in until the state is in range again.                 *)
DecodeInit(data) ==
    LET byte(i) == IF i <= Len(data) THEN data[i] ELSE 0
    IN  [state |-> ((byte(1) * 256 + byte(2)) * 256 + byte(3)) * 256 + byte(4), data |-> SubSeq(data, 5, Len(data))]

RECURSIVE Refill(_)
Refill(d) ==
    IF d.state < RANS_L /\ d.data # <<>>
    THEN Refill([state |-> d.state * 256 + Head(d.data), data |-> Tail(d.data)]) ELSE d

Decode(d, tab) ==
    LET slot == d.state % PROB_SCALE
        holds == {s \in DOMAIN tab.freq : tab.cumfreq[s] <= slot /\ slot < tab.cumfreq[s] + tab.freq[s]}
        s == IF holds = {} THEN 0 ELSE Greatest(holds)
    IN  [symbol |-> s,
         next |-> Refill([d EXCEPT !.state = tab.freq[s] * (d.state \div PROB_SCALE) + slot - tab.cumfreq[s]])]
------------------------------------------------------------------------------
(* flush_block_rans(): the symbols of the tokens and of the end-of-block   *)
(* mark, their number, the coded bytes, the table, and the extra bits.     *)
SymbolsOf(t) ==
    IF ~IsMatch(t) THEN <<t.byte>>
    ELSE <<NumByteSym + EncodeDist(t.dist).symbol, FirstLen + LenSym(t.len)>>
ExtrasOf(t) ==
    IF ~IsMatch(t) THEN <<>>
    ELSE LET e == EncodeDist(t.dist) s == LenSym(t.len)
         IN  Bits(e.extra, DistBits(e.symbol)) \o Bits(t.len - LenBase(s), LenBits(s))

RansBlock(tokens) ==
    LET syms == Concat([i \in DOMAIN tokens |-> SymbolsOf(tokens[i])]) \o <<EobDist, FirstLen>>
        eob == EobDist - NumByteSym
        extras == Concat([i \in DOMAIN tokens |-> ExtrasOf(tokens[i])]) \o Bits(EOB_MARK - DistBase(eob), DistBits(eob))
        tab == BuildTable([s \in Symbols(NumSymbols) |-> Cardinality({i \in DOMAIN syms : syms[i] = s})])
        data == Encode(syms, tab, RANS_L, <<>>)
    IN  <<1>> \o Bits(Len(syms), 16) \o Bits(Len(data), 16)
        \o Concat([i \in 1..NumSymbols |-> Bits(tab.freq[i - 1], PROB_BITS)])
        \o Concat([i \in DOMAIN data |-> Bits(data[i], 8)]) \o extras

RansStream(blocks) == Finish(Concat([i \in DOMAIN blocks |-> RansBlock(blocks[i])]) \o <<0>>)
------------------------------------------------------------------------------
(* decompressor_rans(): every symbol of a block is decoded, also past the  *)
(* size wanted, so that the next block begins where it should.             *)
\* Faulty variant: a block ends when the size wanted is reached.
RECURSIVE StopEarly(_, _, _, _, _, _, _)
StopEarly(bits, at, d, tab, left, out, size) ==
    LET one == Decode(d, tab)
    IN  IF left = 0 \/ Len(out) = size \/ one.symbol >= NumByteSym THEN [status |-> "End", at |-> at, out |-> out]
        ELSE StopEarly(bits, at, one.next, tab, left - 1, Append(out, one.symbol), size)

RECURSIVE RansTokens(_, _, _, _, _, _, _)
RansTokens(bits, at, d, tab, left, out, size) ==
    LET one == Decode(d, tab)
        s == one.symbol - NumByteSym
        dist == Expect(bits, at, DistBits(s), DistBase(s))
        two == Decode(one.next, tab)
        ls == Greatest({0, two.symbol - FirstLen})
        len == Expect(bits, dist.at, LenBits(ls), LenBase(ls))
        stop(status, where) == [status |-> status, at |-> where, out |-> out]
        clipped == Smaller(len.value, size - Len(out))
    IN  IF left = 0 THEN stop("End", at)
        ELSE IF one.symbol < NumByteSym
             THEN RansTokens(bits, at, one.next, tab, left - 1,
                             IF Len(out) < size THEN Append(out, one.symbol) ELSE out, size)
        ELSE IF one.symbol >= FirstLen THEN RansTokens(bits, at, one.next, tab, left - 1, out, size)
        ELSE IF ~dist.ok THEN stop("Truncated", at)
        ELSE IF dist.value = EOB_MARK \/ left = 1 THEN stop("End", dist.at)
        ELSE IF ~len.ok THEN stop("Truncated", dist.at)
        ELSE IF dist.value > Len(out) THEN stop("Damaged", len.at)
        ELSE RansTokens(bits, len.at, two.next, tab, left - 2, Copy(out, dist.value, clipped), size)

RECURSIVE ReadRans(_, _, _, _)
ReadRans(bits, at, out, size) ==
    LET nsyms == Peek(bits, at + 1, 16)
        rlen == Peek(bits, at + 17, 16)
        table == at + 33
        rdata == table + PROB_BITS * NumSymbols
        extras == rdata + 8 * rlen
        tab == BuildTable([s \in Symbols(NumSymbols) |-> Peek(bits, table + PROB_BITS * s, PROB_BITS)])
        data == [i \in 1..rlen |-> Peek(bits, rdata + 8 * (i - 1), 8)]
        block == RansTokens(bits, extras, DecodeInit(data), tab, nsyms, out, size)
    IN  IF ~Has(bits, at, 1) THEN [status |-> "Truncated", out |-> out]
        ELSE IF bits[at + 1] = 0 THEN [status |-> "End", out |-> out]
        ELSE IF ~Has(bits, at, rdata - at) \/ ~Has(bits, rdata, 8 * rlen) THEN [status |-> "Truncated", out |-> out]
        ELSE IF block.status # "End" THEN [status |-> block.status, out |-> out]
        ELSE ReadRans(bits, block.at, block.out, size)

\* uc2_extract() of a file of method 10.
RansWanted(read, behind, size) ==
    LET out == SubSeq(read.out, behind + 1, Len(read.out))
    IN  IF read.status # "End" THEN [status |-> read.status, out |-> out] ELSE Wanted(out, size)
RansExtract(bits, master, size) ==
    RansWanted(ReadRans(bits, 0, master, Len(master) + size), Len(master), size)
=============================================================================
