---------------------------- MODULE HuffmanTrees ----------------------------
(***************************************************************************)
(* The Huffman trees of a block and the way they travel in the stream      *)
(* (lib/src/compress.c, lib/src/uc2_tables.c), with the decoder's reading  *)
(* of them (lib/src/decompress.c).                                         *)
(*                                                                         *)
(* Symbols are numbered from 0; a tree is the function of code lengths, 0  *)
(* for a symbol without a code.  A stream is its sequence of bits, padded  *)
(* to 16-bit words as bitsout_finish() leaves it.                          *)
(***************************************************************************)
EXTENDS Integers, Sequences, FiniteSets, Functions

MaxCodeBits == 13
NumByteSym == 256
NumDistSym == 60
NumLenSym == 28
NumSymbols == NumByteSym + NumDistSym + NumLenSym
RepeatCode == MaxCodeBits + 1
NumLenCodes == MaxCodeBits + 2
MinRepeat == 6

Symbols(n) == 0..n - 1
Least(S) == CHOOSE x \in S : \A y \in S : x <= y
Greatest(S) == CHOOSE x \in S : \A y \in S : x >= y
Smaller(a, b) == IF a < b THEN a ELSE b
Ascending(S, n) == SelectSeq([i \in 1..n |-> i - 1], LAMBDA i : i \in S)
Total(f) == SumFunction([v \in Range(f) |-> v * Cardinality({x \in DOMAIN f : f[x] = v})])
Concat(seqs) ==
    LET flat[i \in 1..Len(seqs), j \in 0..Len(seqs)] ==
            IF j < i THEN <<>> ELSE IF i = j THEN seqs[i]
            ELSE LET half == (i + j) \div 2 IN flat[i, half] \o flat[half + 1, j]
    IN  IF seqs = <<>> THEN <<>> ELSE flat[1, Len(seqs)]
------------------------------------------------------------------------------
(* bitsout_put() and bits_get(): the n low bits of a value, first the      *)
(* highest; a word is filled before the next one starts.  A read fails     *)
(* when fewer bits are left than it asks for.                              *)
Bits(value, n) == [i \in 1..n |-> (value \div 2^(n - i)) % 2]
Finish(bits) == bits \o [i \in 1..(15 - ((Len(bits) + 15) % 16)) |-> 0]
Has(bits, at, n) == at + n <= Len(bits)
Peek(bits, at, n) == LET value[i \in 0..n] == IF i = 0 THEN 0 ELSE 2 * value[i - 1] + bits[at + i] IN value[n]
------------------------------------------------------------------------------
(* treegen(): a heap of the symbols that occur, ordered by frequency, the  *)
(* right child first among equals.                                         *)
RECURSIVE Reheap(_, _, _)
Reheap(at, heap, freq) ==
    LET child == IF 2 * at < Len(heap) /\ freq[heap[2 * at]] >= freq[heap[2 * at + 1]] THEN 2 * at + 1 ELSE 2 * at
    IN  IF at > Len(heap) \div 2 \/ freq[heap[at]] < freq[heap[child]] THEN heap
        ELSE Reheap(child, [heap EXCEPT ![at] = heap[child], ![child] = heap[at]], freq)

BuildHeap(freq, n) ==
    LET start == Ascending({s \in Symbols(n) : freq[s] > 0}, n)
        sifted[i \in 1..Len(start) + 1] == IF i > Len(start) THEN start ELSE Reheap(i, sifted[i + 1], freq)
    IN  sifted[1]

(* The two rarest nodes become one, numbered past the symbols, until one   *)
(* is left; every symbol below a joined node gets one bit longer.  below   *)
(* stands for the chain of fathers.                                        *)
RECURSIVE Join(_, _, _, _, _)
Join(heap, freq, below, depth, n) ==
    IF Len(heap) = 1 THEN depth
    ELSE LET taken == heap[1]
             rest == Reheap(1, [SubSeq(heap, 1, Len(heap) - 1) EXCEPT ![1] = heap[Len(heap)]], freq)
             node == Len(rest) + n - 1
             joined == below[taken] \cup below[rest[1]]
             sum == [freq EXCEPT ![node] = freq[taken] + freq[rest[1]]]
         IN  Join(Reheap(1, [rest EXCEPT ![1] = node], sum), sum, [below EXCEPT ![node] = joined],
                  [s \in DOMAIN depth |-> IF s \in joined THEN depth[s] + 1 ELSE depth[s]], n)

Depths(freq, n) ==
    LET all == [s \in 0..2 * n - 1 |-> IF s < n THEN freq[s] ELSE 0]
        heap == IF Cardinality({s \in Symbols(n) : freq[s] > 0}) < 2 THEN BuildHeap(freq, n)
                ELSE BuildHeap(all, n)
    IN  Join(heap, all, [s \in 0..2 * n - 1 |-> {s}], [s \in Symbols(n) |-> 0], n)

(* RepairLengths(): the symbols of each length, in ascending order (a set  *)
(* here).  While the code space is oversubscribed, its lowest set bit says *)
(* which length is wrong: the first symbol of the next shorter length is   *)
(* lengthened, and the space this frees is filled from the longer lengths. *)
Space(groups, max) == Total([l \in 1..max |-> Cardinality(groups[l]) * 2^(max - l)])
First(S, k) == {x \in S : Cardinality({y \in S : y < x}) < k}

RECURSIVE Fill(_, _, _)
Fill(groups, len, space) ==
    IF space = 0 THEN groups
    ELSE LET moved == First(groups[len], space)
         IN  Fill([groups EXCEPT ![len - 1] = @ \cup moved, ![len] = @ \ moved], len + 1,
                  2 * (space - Cardinality(moved)))

RECURSIVE Repair(_, _, _)
Repair(groups, max, from) ==
    LET bit == Least({b \in from..max : b = max \/ (Space(groups, max) \div 2^b) % 2 = 1})
        len == max - bit
        short == Greatest({l \in 1..len - 1 : groups[l] # {}})
        symbol == Least(groups[short])
        longer == [groups EXCEPT ![short] = @ \ {symbol}, ![short + 1] = @ \cup {symbol}]
    IN  IF bit = max THEN groups ELSE Repair(Fill(longer, len, 2^(len - short - 1) - 1), max, bit)

TreeGen(freq, n, max) ==
    LET used == {s \in Symbols(n) : freq[s] > 0}
        depth == Depths(freq, n)
        groups == [l \in 0..max + 1 |-> {s \in used : Smaller(depth[s], max) = l}]
        repaired == Repair(groups, max, 0)
        single == CHOOSE s \in used : TRUE
        pair == IF used = {} THEN {0, 1} ELSE {single, (single + 1) % n}
    IN  IF Cardinality(used) < 2 THEN [s \in Symbols(n) |-> IF s \in pair THEN 1 ELSE 0]
        ELSE [s \in Symbols(n) |-> IF s \in used THEN CHOOSE l \in 1..max : s \in repaired[l] ELSE 0]

(* codegen(): codes in the order of their length, then of their symbol.    *)
(* ht_mktree(): a code of l bits fills 2^(max-l) entries of the table, in  *)
(* that order; the entries left over are symbol 0 with one bit, and too    *)
(* many are damage.                                                        *)
Coded(lengths) == {s \in DOMAIN lengths : lengths[s] > 0}
Layout(lengths, max) ==
    LET n == Cardinality(DOMAIN lengths)
        group == [l \in 1..max |-> Ascending({s \in DOMAIN lengths : lengths[s] = l}, n)]
    IN  [group |-> group, base |-> [l \in 1..max + 1 |-> Total([k \in 1..l - 1 |-> Len(group[k]) * 2^(max - k)])]]
Rank(s, list) == CHOOSE i \in DOMAIN list : list[i] = s

CodeGen(lengths) ==
    LET tree == Layout(lengths, MaxCodeBits)
    IN  [s \in Coded(lengths) |-> LET l == lengths[s] IN
            Bits(tree.base[l] \div 2^(MaxCodeBits - l) + Rank(s, tree.group[l]) - 1, l)]

MkTree(lengths) ==
    LET tree == Layout(lengths, MaxCodeBits)
    IN  [group |-> tree.group, base |-> tree.base, damaged |-> tree.base[MaxCodeBits + 1] > 2^MaxCodeBits]

\* huff(): thirteen bits are looked at, the code's own are consumed.
Huff(tree, bits, at) ==
    LET window == Peek(bits, at, MaxCodeBits)
        l == CHOOSE k \in 1..MaxCodeBits : tree.base[k] <= window /\ window < tree.base[k + 1]
        entry == (window - tree.base[l]) \div 2^(MaxCodeBits - l)
    IN  IF ~Has(bits, at, MaxCodeBits) THEN [ok |-> FALSE, symbol |-> 0, at |-> at, assigned |-> FALSE]
        ELSE IF window >= tree.base[MaxCodeBits + 1] THEN [ok |-> TRUE, symbol |-> 0, at |-> at + 1, assigned |-> FALSE]
        ELSE [ok |-> TRUE, symbol |-> tree.group[l][entry + 1], at |-> at + l, assigned |-> TRUE]
------------------------------------------------------------------------------
(* uc2_tables.c: the code length a delta stands for after a previous       *)
(* length, the delta a length is written as, and the lengths of a default  *)
(* tree as pairs of a count and a length.                                  *)
vval == <<
    << 0,13,12,11,10, 9, 8, 7, 6, 5, 4, 3, 2, 1>>, << 1, 2, 3, 4, 5, 6, 7, 8, 9,10,11,12,13, 0>>,
    << 2, 1, 3, 4, 5, 6, 7, 8, 9,10,11,12,13, 0>>, << 3, 2, 4, 1, 5, 6, 7, 8, 9,10,11,12,13, 0>>,
    << 4, 3, 5, 2, 6, 1, 7, 8, 9,10,11,12,13, 0>>, << 5, 4, 6, 3, 7, 2, 8, 1, 9,10,11,12,13, 0>>,
    << 6, 5, 7, 4, 8, 3, 9, 2,10, 1,11,12,13, 0>>, << 7, 6, 8, 5, 9, 4,10, 3,11, 2,12, 1,13, 0>>,
    << 8, 7, 9, 6,10, 5,11, 4,12, 3,13, 2, 0, 1>>, << 9, 8,10, 7,11, 6,12, 5,13, 4, 0, 3, 2, 1>>,
    <<10, 9,11, 8,12, 7,13, 6, 0, 5, 4, 3, 2, 1>>, <<11,10,12, 9,13, 8, 0, 7, 6, 5, 4, 3, 2, 1>>,
    <<12,11,13,10, 0, 9, 8, 7, 6, 5, 4, 3, 2, 1>>, <<13,12, 0,11,10, 9, 8, 7, 6, 5, 4, 3, 2, 1>> >>
ivval == <<
    << 0,13,12,11,10, 9, 8, 7, 6, 5, 4, 3, 2, 1>>, <<13, 0, 1, 2, 3, 4, 5, 6, 7, 8, 9,10,11,12>>,
    <<13, 1, 0, 2, 3, 4, 5, 6, 7, 8, 9,10,11,12>>, <<13, 3, 1, 0, 2, 4, 5, 6, 7, 8, 9,10,11,12>>,
    <<13, 5, 3, 1, 0, 2, 4, 6, 7, 8, 9,10,11,12>>, <<13, 7, 5, 3, 1, 0, 2, 4, 6, 8, 9,10,11,12>>,
    <<13, 9, 7, 5, 3, 1, 0, 2, 4, 6, 8,10,11,12>>, <<13,11, 9, 7, 5, 3, 1, 0, 2, 4, 6, 8,10,12>>,
    <<12,13,11, 9, 7, 5, 3, 1, 0, 2, 4, 6, 8,10>>, <<10,13,12,11, 9, 7, 5, 3, 1, 0, 2, 4, 6, 8>>,
    << 8,13,12,11,10, 9, 7, 5, 3, 1, 0, 2, 4, 6>>, << 6,13,12,11,10, 9, 8, 7, 5, 3, 1, 0, 2, 4>>,
    << 4,13,12,11,10, 9, 8, 7, 6, 5, 3, 1, 0, 2>>, << 2,13,12,11,10, 9, 8, 7, 6, 5, 4, 3, 1, 0>> >>
Absolute(previous, delta) == vval[previous + 1][delta + 1]
Delta(previous, length) == ivval[previous + 1][length + 1]

DefaultRuns == << <<10,9>>, <<1,7>>, <<1,9>>, <<1,7>>, <<19,9>>, <<1,7>>, <<13,8>>, <<1,7>>, <<11,8>>, <<1,7>>,
    <<33,8>>, <<1,7>>, <<35,8>>, <<128,10>>, <<16,6>>, <<12,7>>, <<6,8>>, <<10,9>>, <<16,10>>, <<9,4>>, <<9,5>>, <<10,6>> >>
DefaultLengths ==
    LET all == Concat([r \in DOMAIN DefaultRuns |-> [i \in 1..DefaultRuns[r][1] |-> DefaultRuns[r][2]]])
    IN  [s \in Symbols(NumSymbols) |-> all[s + 1]]
------------------------------------------------------------------------------
(* tree_enc(): one bit for the default tree; otherwise which parts of the  *)
(* alphabet follow, the tree of the deltas (15 lengths of 3 bits) and the  *)
(* deltas of the parts present, a run of more than six as a value, the     *)
(* repeat code and a count.                                                *)
Plain == {9, 10, 12, 13}
Present(t) ==
    (IF t % 2 = 1 THEN 0..31 ELSE Plain) \cup 32..127 \cup (IF t >= 2 THEN 128..255 ELSE {}) \cup 256..NumSymbols - 1

\* Faulty variant: the control characters are never written.
PartsHigh(lengths) == IF \E s \in 128..255 : lengths[s] > 0 THEN 2 ELSE 0

Parts(lengths) ==
    (IF \E s \in (0..31) \ Plain : lengths[s] > 0 THEN 1 ELSE 0)
    + (IF \E s \in 128..255 : lengths[s] > 0 THEN 2 ELSE 0)

RECURSIVE RunCode(_, _)
RunCode(delta, run) ==
    LET chunk == Smaller(run, RepeatCode + MinRepeat)
    IN  IF run <= MinRepeat THEN [i \in 1..run |-> delta]
        ELSE <<delta, RepeatCode, chunk - MinRepeat>> \o RunCode(delta, run - chunk)

Repeats(deltas) ==
    LET starts == Ascending({i \in DOMAIN deltas : i = 1 \/ deltas[i] # deltas[i - 1]}, Len(deltas) + 1)
        after(k) == IF k = Len(starts) THEN Len(deltas) + 1 ELSE starts[k + 1]
    IN  Concat([k \in DOMAIN starts |-> RunCode(deltas[starts[k]], after(k) - starts[k])])

Deltas(lengths, previous, t) ==
    LET present == Ascending(Present(t), NumSymbols)
    IN  [i \in DOMAIN present |-> Delta(previous[present[i]], lengths[present[i]])]

TreeEnc(lengths, previous) ==
    LET t == Parts(lengths)
        written == Repeats(Deltas(lengths, previous, t))
        freq == [c \in Symbols(NumLenCodes) |-> Cardinality({i \in DOMAIN written : written[i] = c})]
        tree == TreeGen(freq, NumLenCodes, 7)
        codes == CodeGen(tree)
    IN  IF lengths = DefaultLengths THEN <<0>>
        ELSE <<1>> \o Bits(t, 2) \o Concat([i \in 1..NumLenCodes |-> Bits(tree[i - 1], 3)])
             \o Concat([i \in DOMAIN written |-> codes[written[i]]])

(* ht_dec(): the deltas are read until every part announced is there; a    *)
(* repeat that overruns them is damage.                                    *)
Failed == [ok |-> FALSE]

RECURSIVE ReadDeltas(_, _, _, _, _, _)
ReadDeltas(tree, bits, at, wanted, read, last) ==
    LET one == Huff(tree, bits, at)
        two == Huff(tree, bits, one.at)
        copies == two.symbol + MinRepeat - 1
    IN  IF Len(read) >= wanted THEN [ok |-> TRUE, at |-> at, deltas |-> read]
        ELSE IF ~one.ok THEN Failed
        ELSE IF one.symbol # RepeatCode
             THEN ReadDeltas(tree, bits, one.at, wanted, Append(read, one.symbol), one.symbol)
        ELSE IF ~two.ok \/ copies > wanted - Len(read) THEN Failed
        ELSE ReadDeltas(tree, bits, two.at, wanted, read \o [i \in 1..copies |-> last], last)

HtDec(bits, at, previous) ==
    LET t == Peek(bits, at + 1, 2)
        tree == MkTree([s \in Symbols(NumLenCodes) |-> Peek(bits, at + 3 + 3 * s, 3)])
        present == Ascending(Present(t), NumSymbols)
        read == ReadDeltas(tree, bits, at + 3 + 3 * NumLenCodes, Len(present), <<>>, 0)
        place == [s \in Present(t) |-> CHOOSE i \in DOMAIN present : present[i] = s]
    IN  IF ~Has(bits, at, 1) THEN Failed
        ELSE IF bits[at + 1] = 0 THEN [ok |-> TRUE, at |-> at + 1, lengths |-> DefaultLengths]
        ELSE IF ~Has(bits, at, 3 + 3 * NumLenCodes) \/ tree.damaged \/ ~read.ok THEN Failed
        ELSE [ok |-> TRUE, at |-> read.at,
              lengths |-> [s \in Symbols(NumSymbols) |->
                  IF s \in Present(t) THEN Absolute(previous[s], read.deltas[place[s]]) ELSE 0]]
=============================================================================
