---------------------------- MODULE OriginalTrees ----------------------------
(***************************************************************************)
(* The trees of UltraCompressor II as its own source makes them            *)
(* (original/UC2_source/src/TREEGEN.CPP, TREEENC.CPP), the code that       *)
(* lib/src/compress.c says it ports without a difference.                  *)
(***************************************************************************)
EXTENDS HuffmanTrees

\* basevval: the lengths the first block is written against.
BasePrev ==
    [s \in Symbols(NumSymbols) |->
        CASE s \in {10, 12, 32, 46, 58, 92} -> 7
          [] s \in (0..31) \ {10, 12} -> 9
          [] s \in (33..127) \ {46, 58, 92} -> 8
          [] s \in 128..255 -> 10
          [] s \in 256..271 -> 6
          [] s \in 272..283 -> 7
          [] s \in 284..289 -> 8
          [] s \in 290..299 -> 9
          [] s \in 300..315 -> 10
          [] s \in 316..324 -> 4
          [] s \in 325..333 -> 5
          [] OTHER -> 6]

(* InitTables(): for a previous length the assignments <<length, delta>>   *)
(* in their order; a later one overwrites an earlier one in either table.  *)
Assignments(previous) ==
    LET codes == MaxCodeBits + 1
        x == IF previous < 9 THEN previous - 1 ELSE codes - previous + 1
        j == Greatest({1, x})
        prob == 2 * (j - 1)
        alternating == Concat([k \in 1..j - 1 |-> << <<previous + k - 1, 2 * k - 2>>, <<previous - k, 2 * k - 1>> >>])
        count == codes - (2 * previous - 1)
    IN  IF previous = 0 THEN [k \in 1..codes |-> IF k = 1 THEN <<0, 0>> ELSE <<k - 1, codes - k + 1>>]
        ELSE alternating \o << <<previous - j, prob + 1>> >> \o
             IF previous < 8
             THEN << <<0, codes - 1>>, <<previous + j - 1, prob>> >> \o [k \in 1..count |-> <<codes - k, codes - k - 1>>]
             ELSE << <<0, prob>> >> \o [k \in 1..2 * previous - 15 |-> <<k, codes - k>>]
LastWrite(writes, of, key) == writes[Greatest({i \in DOMAIN writes : writes[i][of] = key})][3 - of]
table == [p \in 0..MaxCodeBits |-> [l \in 0..MaxCodeBits |-> LastWrite(Assignments(p), 1, l)]]
vvals == [p \in 0..MaxCodeBits |-> [d \in 0..MaxCodeBits |-> LastWrite(Assignments(p), 2, d)]]
------------------------------------------------------------------------------
(* BuildCodeTree() and GenCodeLengths(): every node but the root knows its *)
(* father, and the length of a symbol is the length of its chain.          *)
RECURSIVE BuildCodeTree(_, _, _, _)
BuildCodeTree(heap, freq, father, n) ==
    IF Len(heap) = 1 THEN father
    ELSE LET value == heap[1]
             rest == Reheap(1, [SubSeq(heap, 1, Len(heap) - 1) EXCEPT ![1] = heap[Len(heap)]], freq)
             node == Len(rest) + n - 1
             sum == [freq EXCEPT ![node] = freq[rest[1]] + freq[value]]
         IN  BuildCodeTree(Reheap(1, [rest EXCEPT ![1] = node], sum), sum,
                           [father EXCEPT ![value] = node, ![rest[1]] = node], n)

GenCodeLengths(father, n) ==
    LET length[k \in 0..2 * n] == IF father[k] = 0 THEN 0 ELSE 1 + length[father[k]]
    IN  [s \in Symbols(n) |-> length[s]]

(* RepairLengths(): one list of symbols per length.  A lengthened symbol   *)
(* goes where it belongs in the next list; the symbols that fill the space *)
(* go together, in front of the first symbol beyond the last of them.      *)
InsertOne(s, list) ==
    LET beyond == {i \in DOMAIN list : list[i] > s /\ \A k \in 2..i - 1 : list[k] < s}
        at == IF beyond = {} THEN Len(list) + 1 ELSE Least(beyond)
    IN  SubSeq(list, 1, at - 1) \o <<s>> \o SubSeq(list, at, Len(list))
InsertBlock(block, list) ==
    LET beyond == {i \in DOMAIN list : list[i] > block[Len(block)]}
        at == IF beyond = {} THEN Len(list) + 1 ELSE Least(beyond)
    IN  IF block = <<>> THEN list ELSE SubSeq(list, 1, at - 1) \o block \o SubSeq(list, at, Len(list))

DCode(scl, max) == Total([l \in 1..max |-> Len(scl[l]) * 2^(max - l)])

RECURSIVE FillSpace(_, _, _)
FillSpace(scl, len, space) ==
    IF space <= 0 THEN scl
    ELSE LET count == Smaller(Len(scl[len]), space)
         IN  FillSpace([scl EXCEPT ![len - 1] = InsertBlock(SubSeq(scl[len], 1, count), @),
                                   ![len] = SubSeq(@, count + 1, Len(@))], len + 1, 2 * (space - count))

RECURSIVE RepairLengths(_, _, _)
RepairLengths(scl, max, from) ==
    LET i == Least({b \in from..max : b = max \/ (DCode(scl, max) \div 2^b) % 2 = 1})
        len == max - i
        j == Greatest({l \in 1..len - 1 : scl[l] # <<>>})
        longer == [scl EXCEPT ![j] = Tail(@), ![j + 1] = InsertOne(scl[j][1], @)]
    IN  IF i = max THEN scl
        ELSE RepairLengths(IF len - j > 1 THEN FillSpace(longer, len, 2^(len - j - 1) - 1) ELSE longer, max, i)

OldTreeGen(freq, n, max) ==
    LET all == [s \in 0..2 * n |-> IF s < n THEN freq[s] ELSE 0]
        heap == BuildHeap(freq, n)
        lengths == GenCodeLengths(BuildCodeTree(BuildHeap(all, n), all, [k \in 0..2 * n |-> 0], n), n)
        used == {s \in Symbols(n) : freq[s] > 0}
        scl == [l \in 0..max + 1 |-> Ascending({s \in used : Smaller(lengths[s], max) = l}, n)]
        repaired == RepairLengths(scl, max, 0)
        member(s, list) == \E i \in DOMAIN list : list[i] = s
        pair == IF heap = <<>> THEN {0, 1} ELSE {heap[1], (heap[1] + 1) % n}
    IN  IF Len(heap) > 1
        THEN [s \in Symbols(n) |-> IF s \in used THEN CHOOSE l \in 1..max : member(s, repaired[l]) ELSE 0]
        ELSE [s \in Symbols(n) |-> IF s \in pair THEN 1 ELSE 0]

(* CodeGen(): codes are cut from a left-aligned code of 15 bits.           *)
(* DCodeGen(): the table of 2^13 entries as the first entry of each code;  *)
(* a valid tree fills all of it.                                           *)
OldCodeGen(lengths) ==
    LET tree == Layout(lengths, 15)
    IN  [s \in Coded(lengths) |-> LET l == lengths[s] IN
            Bits((tree.base[l] + (Rank(s, tree.group[l]) - 1) * 2^(15 - l)) \div 2^(15 - l), l)]

DCodeGen(lengths) ==
    LET tree == Layout(lengths, MaxCodeBits)
    IN  Concat([l \in 1..MaxCodeBits |-> [i \in DOMAIN tree.group[l] |->
            [symbol |-> tree.group[l][i], length |-> l, first |-> tree.base[l] + (i - 1) * 2^(MaxCodeBits - l)]]])

Snoop13(entries, bits, at) ==
    LET window == Peek(bits, at, MaxCodeBits)
    IN  entries[Greatest({i \in DOMAIN entries : entries[i].first <= window})]
------------------------------------------------------------------------------
(* InsertExtraCode() and TreeEnc(): the caller says whether the tree is    *)
(* the default one; the lengths are then replaced by the default's.        *)
InsertExtraCode(p) ==
    LET ends(i) == CHOOSE k \in i + 1..Len(p) + 1 : /\ k = Len(p) + 1 \/ p[k] # p[i]
                                                   /\ \A j \in i + 1..k - 1 : p[j] = p[i]
        run(i) == ends(i) - i
        code[i \in 1..Len(p) + 1] ==
            LET len == Smaller(run(i), RepeatCode + MinRepeat)
            IN  IF i > Len(p) THEN <<>>
                ELSE IF run(i) > MinRepeat THEN <<p[i], RepeatCode, len - MinRepeat>> \o code[i + len]
                ELSE <<p[i]>> \o code[i + 1]
    IN  code[1]

OldTreeEnc(lengths, flag, previous) ==
    LET low == \E i \in 0..31 : i \notin {9, 10, 12, 13} /\ lengths[i] > 0
        high == \E i \in 128..255 : lengths[i] > 0
        first == IF low THEN [i \in 1..32 |-> i - 1] ELSE <<9, 10, 12, 13>>
        parts == first \o [i \in 1..96 |-> i + 31] \o (IF high THEN [i \in 1..128 |-> i + 127] ELSE <<>>)
                 \o [i \in 1..88 |-> i + 255]
        stream == InsertExtraCode([i \in DOMAIN parts |-> table[previous[parts[i]]][lengths[parts[i]]]])
        count == [c \in Symbols(NumLenCodes) |-> Cardinality({i \in DOMAIN stream : stream[i] = c})]
        tree == OldTreeGen(count, NumLenCodes, 7)
        codes == OldCodeGen(tree)
    IN  IF flag THEN <<0>>
        ELSE <<1>> \o Bits((IF high THEN 2 ELSE 0) + (IF low THEN 1 ELSE 0), 2)
             \o Concat([i \in 1..NumLenCodes |-> Bits(tree[i - 1], 3)])
             \o Concat([i \in DOMAIN stream |-> codes[stream[i]]])

(* TreeDec(): the reverse, for a stream that TreeEnc wrote; a repeat is    *)
(* not checked against the room for it.                                    *)
RECURSIVE OldReadDeltas(_, _, _, _, _, _)
OldReadDeltas(tree, bits, at, wanted, read, last) ==
    LET one == Snoop13(tree, bits, at)
        next == at + one.length
        two == Snoop13(tree, bits, next)
    IN  IF Len(read) >= wanted THEN [at |-> at, deltas |-> read]
        ELSE IF one.symbol = RepeatCode
             THEN OldReadDeltas(tree, bits, next + two.length, wanted,
                                read \o [i \in 1..two.symbol + MinRepeat - 1 |-> last], last)
        ELSE OldReadDeltas(tree, bits, next, wanted, Append(read, one.symbol), one.symbol)

TreeDec(bits, at, previous) ==
    LET t == Peek(bits, at + 1, 2)
        low == t % 2 = 1
        high == t >= 2
        max == NumSymbols - (IF low THEN 0 ELSE 28) - (IF high THEN 0 ELSE 128)
        tree == DCodeGen([s \in Symbols(NumLenCodes) |-> Peek(bits, at + 3 + 3 * s, 3)])
        read == OldReadDeltas(tree, bits, at + 3 + 3 * NumLenCodes, max, <<>>, 0)
        place(i) == CASE i < 32 -> IF low THEN i + 1
                                   ELSE CASE i = 9 -> 1 [] i = 10 -> 2 [] i = 12 -> 3 [] i = 13 -> 4 [] OTHER -> 0
                      [] i \in 32..127 -> i + 1 - (IF low THEN 0 ELSE 28)
                      [] i \in 128..255 -> IF high THEN i + 1 - (IF low THEN 0 ELSE 28) ELSE 0
                      [] OTHER -> max - (NumSymbols - 1 - i)
    IN  IF bits[at + 1] = 0 THEN [at |-> at + 1, lengths |-> BasePrev]
        ELSE [at |-> read.at,
              lengths |-> [i \in Symbols(NumSymbols) |->
                  IF place(i) = 0 THEN 0 ELSE vvals[previous[i]][read.deltas[place(i)]]]]
=============================================================================
