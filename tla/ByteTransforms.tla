--------------------------- MODULE ByteTransforms ---------------------------
(***************************************************************************)
(* What lib/ does to bytes before or instead of coding them: the reversible*)
(* filters of uc2_preprocess.c (branch targets made absolute, the Burrows- *)
(* Wheeler transform, differences), and the delta of one version of a file *)
(* against another (uc2_delta.c).                                          *)
(*                                                                         *)
(* Data is a sequence of bytes; a C index i is element i + 1.  A delta is  *)
(* the length it announces and its instructions; the bytes of an           *)
(* instruction are abstracted to a record.                                 *)
(***************************************************************************)
EXTENDS Integers, Sequences, FiniteSets

CONSTANTS WINDOW,       \* bytes that are hashed for a delta (4)
          MIN_MATCH,    \* shortest run copied by a delta (8)
          DeltaSlot(_)  \* the slot of a window: its first two bytes in the code

DeltaAssumption == WINDOW \in Nat \ {0} /\ MIN_MATCH >= WINDOW
------------------------------------------------------------------------------
(* uc2_preprocess.c.                                                       *)

\* A little-endian word of four bytes and n more (or fewer), modulo 2^32.
Shifted(word, n) ==
    LET sum[k \in 0..4] == IF k = 0 THEN n ELSE word[k] + (sum[k - 1] \div IF k = 1 THEN 1 ELSE 256)
    IN  [k \in 1..4 |-> sum[k] % 256]

(* uc2_bcj_apply() and uc2_bcj_revert(): after a call or jump opcode the   *)
(* displacement is counted from the start, and its bytes are not searched. *)
RECURSIVE BcjFrom(_, _, _)
BcjFrom(data, p, sign) ==
    LET word == Shifted(SubSeq(data, p + 1, p + 4), sign * (p + 4))
    IN  IF p + 4 > Len(data) THEN data
        ELSE IF data[p] \notin {232, 233} THEN BcjFrom(data, p + 1, sign)
        ELSE BcjFrom([k \in DOMAIN data |-> IF k \in p + 1..p + 4 THEN word[k - p] ELSE data[k]], p + 5, sign)

\* Faulty variant: the bytes of an address are searched for opcodes.
RECURSIVE BcjSearch(_, _)
BcjSearch(data, p) ==
    LET word == Shifted(SubSeq(data, p + 1, p + 4), p + 4)
    IN  IF p + 4 > Len(data) THEN data
        ELSE IF data[p] \notin {232, 233} THEN BcjSearch(data, p + 1)
        ELSE BcjSearch([k \in DOMAIN data |-> IF k \in p + 1..p + 4 THEN word[k - p] ELSE data[k]], p + 1)
BcjUnguarded(data) == BcjSearch(data, 1)

BcjApply(data) == BcjFrom(data, 1, 1)
BcjRevert(data) == BcjFrom(data, 1, -1)

(* uc2_bwt_apply(): the rotations in their order, of which qsort() leaves  *)
(* equal ones in any; the index of rotation 0 is one of primaries.         *)
Rotation(data, i) == [k \in 1..Len(data) |-> data[((i + k - 1) % Len(data)) + 1]]
Before(a, b) == \E k \in DOMAIN a : a[k] < b[k] /\ \A j \in 1..k - 1 : a[j] = b[j]

BwtApply(data) ==
    LET all == 0..Len(data) - 1
        below(i) == Cardinality({j \in all : Before(Rotation(data, j), Rotation(data, i))})
        equal(i) == Cardinality({j \in all : Rotation(data, j) = Rotation(data, i)})
        row(r) == CHOOSE i \in all : below(i) <= r /\ r < below(i) + equal(i)
    IN  [out |-> [r \in 1..Len(data) |-> data[((row(r - 1) + Len(data) - 1) % Len(data)) + 1]],
         primaries |-> IF data = <<>> THEN {0} ELSE below(0)..below(0) + equal(0) - 1]

(* uc2_bwt_revert(): T takes a row to the row its last byte begins, and the*)
(* bytes come out last first; an index outside the rows is refused.        *)
BwtRevert(data, primary) ==
    LET smaller(c) == Cardinality({k \in DOMAIN data : data[k] < c})
        T(idx) == smaller(data[idx + 1]) + Cardinality({k \in 1..idx : data[k] = data[idx + 1]})
        at[i \in 1..Len(data)] == IF i = Len(data) THEN primary ELSE T(at[i + 1])
    IN  IF data = <<>> THEN [ok |-> TRUE, out |-> <<>>]
        ELSE IF primary >= Len(data) THEN [ok |-> FALSE, out |-> <<>>]
        ELSE [ok |-> TRUE, out |-> [i \in DOMAIN data |-> data[at[i] + 1]]]

\* uc2_delta_filter_apply(), from the end, and uc2_delta_filter_revert(), from the start.
Stride(stride) == IF stride < 1 THEN 1 ELSE stride
DeltaFilterApply(data, stride) ==
    [i \in DOMAIN data |-> IF i <= Stride(stride) THEN data[i] ELSE (data[i] - data[i - Stride(stride)]) % 256]
DeltaFilterRevert(data, stride) ==
    LET out[i \in DOMAIN data] ==
            IF i <= Stride(stride) THEN data[i] ELSE (data[i] + out[i - Stride(stride)]) % 256
    IN  [i \in DOMAIN data |-> out[i]]
------------------------------------------------------------------------------
(* uc2_delta.c.                                                            *)

CopyOf(offset, n) == [op |-> "COPY", offset |-> offset, length |-> n, data |-> <<>>]
InsertOf(data) == [op |-> "INSERT", offset |-> 0, length |-> Len(data), data |-> data]
EndMark == [op |-> "END", offset |-> 0, length |-> 0, data |-> <<>>]
At(s, i, n) == SubSeq(s, i + 1, i + n)
Pending(tgt, from, to) == IF to > from THEN <<InsertOf(At(tgt, from, to - from))>> ELSE <<>>

\* The slots hold the last place of each window of the source.
Slots(src) ==
    LET places(h) == {i \in 0..Len(src) - WINDOW : DeltaSlot(At(src, i, WINDOW)) = h}
    IN  [h \in {DeltaSlot(At(src, i, WINDOW)) : i \in 0..Len(src) - WINDOW} |->
            CHOOSE i \in places(h) : \A j \in places(h) : j <= i]
Matching(src, tgt, spos, tpos) ==
    LET room == IF Len(src) - spos < Len(tgt) - tpos THEN Len(src) - spos ELSE Len(tgt) - tpos
        same == {n \in 0..room : At(src, spos, n) = At(tgt, tpos, n)}
    IN  CHOOSE n \in same : \A k \in same : k <= n

(* uc2_delta_encode(): a window that is found and goes on for long enough  *)
(* is copied, after what was pending; the rest is inserted.                *)
RECURSIVE EncodeFrom(_, _, _, _, _)
EncodeFrom(src, tgt, slots, tpos, pending) ==
    LET h == DeltaSlot(At(tgt, tpos, WINDOW))
        n == Matching(src, tgt, slots[h], tpos)
    IN  IF Len(tgt) - tpos < WINDOW THEN Pending(tgt, pending, Len(tgt)) \o <<EndMark>>
        ELSE IF h \in DOMAIN slots /\ n >= MIN_MATCH
             THEN Pending(tgt, pending, tpos) \o <<CopyOf(slots[h], n)>>
                  \o EncodeFrom(src, tgt, slots, tpos + n, tpos + n)
        ELSE EncodeFrom(src, tgt, slots, tpos + 1, pending)
DeltaEncode(src, tgt) == [length |-> Len(tgt), instructions |-> EncodeFrom(src, tgt, Slots(src), 0, 0)]

InRoom(instruction, src, done, wanted) ==
    /\ instruction.length <= wanted - Len(done)
    /\ instruction.op = "COPY" => instruction.offset + instruction.length <= Len(src)

(* uc2_delta_apply(): every instruction stays inside the source and the    *)
(* target; the target is complete when the delta ends, and not before.     *)
RECURSIVE ApplyFrom(_, _, _, _)
ApplyFrom(src, instructions, done, wanted) ==
    LET one == Head(instructions)
        bytes == IF one.op = "COPY" THEN At(src, one.offset, one.length) ELSE one.data
    IN  IF instructions = <<>> THEN [ok |-> FALSE, out |-> <<>>]
        ELSE IF one.op = "END"
             THEN IF Len(done) # wanted \/ Len(instructions) > 1 THEN [ok |-> FALSE, out |-> <<>>]
                  ELSE [ok |-> TRUE, out |-> done]
        ELSE IF ~InRoom(one, src, done, wanted) THEN [ok |-> FALSE, out |-> <<>>]
        ELSE ApplyFrom(src, Tail(instructions), done \o bytes, wanted)
DeltaApply(src, delta) == ApplyFrom(src, delta.instructions, <<>>, delta.length)
=============================================================================
