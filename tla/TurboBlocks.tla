------------------------------ MODULE TurboBlocks ------------------------------
(***************************************************************************)
(* Method 80, Danny Bezemer's order-2 predictor: TurboCompressor() and     *)
(* TurboDecompressor() of original/UC2_source/src/COMP_TT.CPP, and         *)
(* decompressor_turbo() of lib/src/decompress.c, which is to read what the *)
(* first wrote and to check what the second took on trust.                 *)
(*                                                                         *)
(* A predictor is its table (absent entries are 0) and the last two bytes. *)
(* A stream is a sequence of bytes: blocks behind their 16-bit length, and *)
(* a length of 0.                                                          *)
(***************************************************************************)
EXTENDS Integers, Sequences, TLC

CONSTANTS BLOCK_SIZE,   \* bytes of a block (25000)
          TAIL          \* bytes at the end of a master that prime nothing (10)

TurboAssumption == BLOCK_SIZE \in Nat \ {0} /\ TAIL \in Nat \ {0, 1}

Min2(a, b) == IF a < b THEN a ELSE b
INPUT_SIZE == BLOCK_SIZE + (BLOCK_SIZE + 7) \div 8

\* Hash(c1, c2): c1 shifted by seven, its lowest bit meets the highest of c2.
Hash(a, b) ==
    IF b < 128 THEN 128 * a + b
    ELSE 128 * (IF a % 2 = 0 THEN a + 1 ELSE a - 1) + (b - 128)

Guess(m) == LET h == Hash(m.prevprev, m.prev) IN IF h \in DOMAIN m.table THEN m.table[h] ELSE 0
Learn(m, b) == [table |-> (Hash(m.prevprev, m.prev) :> b) @@ m.table, prevprev |-> m.prev, prev |-> b]

\* The table a master primes; the two bytes before the first are zeros.
Primed(master) ==
    LET table[i \in 0..Len(master)] ==
            IF i = 0 THEN [h \in {} |-> 0]
            ELSE (Hash(master[i], master[i + 1]) :> master[i + 2]) @@ table[i - 1]
    IN  [table |-> IF Len(master) > TAIL THEN table[Len(master) - TAIL] ELSE table[0], prevprev |-> 0, prev |-> 0]
------------------------------------------------------------------------------
(* TurboCompressor(): for every eight bytes a control byte, a bit set where*)
(* the guess was right, and the bytes that were not guessed.               *)
TurboBlock(data, m) ==
    LET model[i \in 0..Len(data)] == IF i = 0 THEN m ELSE Learn(model[i - 1], data[i])
        hit(i) == Guess(model[i - 1]) = data[i]
        bits(first) == {j \in 0..7 : first + j <= Len(data) /\ hit(first + j)}
        control(first) ==
            LET sum[j \in 0..8] == IF j = 8 THEN 0 ELSE (IF j \in bits(first) THEN 2^(7 - j) ELSE 0) + sum[j + 1]
            IN  sum[0]
        missed(first) == SelectSeq([j \in 1..Min2(8, Len(data) - first + 1) |-> first + j - 1], LAMBDA i : ~hit(i))
        group[i \in Nat] ==
            IF i > Len(data) THEN <<>>
            ELSE <<control(i)>> \o [k \in DOMAIN missed(i) |-> data[missed(i)[k]]] \o group[i + 8]
    IN  [bytes |-> group[1], model |-> model[Len(data)]]

RECURSIVE TurboStream(_, _)
TurboStream(data, m) ==
    LET block == TurboBlock(SubSeq(data, 1, Min2(BLOCK_SIZE, Len(data))), m)
        count == Len(block.bytes)
    IN  IF data = <<>> THEN <<0, 0>>
        ELSE <<count % 256, count \div 256>> \o block.bytes
             \o TurboStream(SubSeq(data, BLOCK_SIZE + 1, Len(data)), block.model)

TurboCompressor(data, master) == TurboStream(data, Primed(master))
------------------------------------------------------------------------------
(* The symbols of one block: while bytes are left, or set control bits.    *)
(* checked tells the reader that verifies each one from the one that reads *)
(* on into what follows in its buffer (zeros here).                        *)
RECURSIVE TurboSymbols(_, _, _, _, _, _, _, _)
TurboSymbols(input, pos, control, bit, m, out, room, checked) ==
    LET literal == control < 128
        over == pos > Len(input)
        byte == IF ~literal THEN Guess(m) ELSE IF over THEN 0 ELSE input[pos]
    IN  IF bit = 8 \/ (over /\ control = 0)
        THEN IF over THEN [ok |-> TRUE, out |-> out, model |-> m]
             ELSE TurboSymbols(input, pos + 1, input[pos], 0, m, out, room, checked)
        ELSE IF checked /\ ((literal /\ over) \/ Len(out) = room) THEN [ok |-> FALSE, out |-> <<>>, model |-> m]
        ELSE TurboSymbols(input, IF literal THEN pos + 1 ELSE pos, (2 * control) % 256, bit + 1,
                          Learn(m, byte), Append(out, byte), room, checked)

\* Faulty variant: the model of one block is not carried to the next.
RECURSIVE TurboForgets(_, _, _, _)
TurboForgets(stream, m, out, limit) ==
    LET count == stream[1] + 256 * stream[2]
        block == TurboSymbols(SubSeq(stream, 3, count + 2), 1, 0, 8, m, <<>>, Min2(BLOCK_SIZE, limit), TRUE)
    IN  IF count = 0 THEN [status |-> "Done", out |-> out]
        ELSE TurboForgets(SubSeq(stream, count + 3, Len(stream)), [m EXCEPT !.prev = 0, !.prevprev = 0],
                          out \o block.out, limit - Len(block.out))

\* decompressor_turbo(): every block is there, fits and yields something.
RECURSIVE TurboRead(_, _, _, _)
TurboRead(stream, m, out, limit) ==
    LET count == stream[1] + 256 * stream[2]
        block == TurboSymbols(SubSeq(stream, 3, count + 2), 1, 0, 8, m, <<>>, Min2(BLOCK_SIZE, limit), TRUE)
        stop(status) == [status |-> status, out |-> out]
    IN  IF Len(stream) < 2 THEN stop("Truncated")
        ELSE IF count = 0 THEN stop("Done")
        ELSE IF count > INPUT_SIZE THEN stop("Damaged")
        ELSE IF Len(stream) < count + 2 THEN stop("Truncated")
        ELSE IF ~block.ok \/ block.out = <<>> THEN stop("Damaged")
        ELSE TurboRead(SubSeq(stream, count + 3, Len(stream)), block.model, out \o block.out, limit - Len(block.out))

\* TurboDecompressor(): the original takes the stream as it comes.
RECURSIVE OldTurboRead(_, _, _)
OldTurboRead(stream, m, out) ==
    LET count == stream[1] + 256 * stream[2]
        block == TurboSymbols(SubSeq(stream, 3, count + 2), 1, 0, 8, m, <<>>, BLOCK_SIZE, FALSE)
    IN  IF count = 0 THEN out
        ELSE OldTurboRead(SubSeq(stream, count + 3, Len(stream)), block.model, out \o block.out)

TurboDecompressor(stream, master) == OldTurboRead(stream, Primed(master), <<>>)
TurboExtract(stream, master, size) ==
    LET read == TurboRead(stream, Primed(master), <<>>, size)
    IN  IF read.status = "Done" /\ Len(read.out) < size THEN [read EXCEPT !.status = "Truncated"] ELSE read
=============================================================================
