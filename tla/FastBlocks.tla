------------------------------ MODULE FastBlocks ------------------------------
(***************************************************************************)
(* The LZ4 block coder of lib/src/uc2_lz4.c, which writes the containers   *)
(* of the fast profile.  A C offset i is element i + 1; a result of        *)
(* <<>> is the failure the functions report as 0 bytes.                    *)
(***************************************************************************)
EXTENDS Integers, Sequences, TLC

CONSTANTS Lz4Hash(_),   \* the slot of four bytes: any function
          FAR           \* the largest offset two bytes hold (65535)

Lower(a, b) == IF a < b THEN a ELSE b
LastLiterals == 5
MatchLimit == 12
Four(src, i) == SubSeq(src, i + 1, i + 4)

\* write_len(), for what is left of a length after the four bits of the token.
RECURSIVE WriteLen(_)
WriteLen(n) == IF n >= 255 THEN <<255>> \o WriteLen(n - 255) ELSE <<n>>
Excess(n) == IF n >= 15 THEN WriteLen(n - 15) ELSE <<>>

\* Space a run of literals takes beyond its bytes and its token.
Overhead(n) == IF n > 14 THEN n \div 255 + 1 ELSE 0
Fits(lits, more, used, cap) == lits + more <= cap - used

LastRun(src, anchor, out, cap) ==
    LET lits == Len(src) - anchor
    IN  IF ~Fits(lits, 1 + Overhead(lits), Len(out), cap) THEN <<>>
        ELSE out \o <<16 * Lower(lits, 15)>> \o Excess(lits) \o SubSeq(src, anchor + 1, Len(src))

MatchLen(src, ref, ip) ==
    LET room == Len(src) - ip - LastLiterals
    IN  CHOOSE n \in 4..room : /\ \A k \in 4..n - 1 : src[ref + k + 1] = src[ip + k + 1]
                               /\ n = room \/ src[ref + n + 1] # src[ip + n + 1]

(* The search goes on until a slot leads to four equal bytes not too far   *)
(* back; every position it passes enters the table, as does the last but   *)
(* one of a match.                                                         *)
RECURSIVE Lz4From(_, _, _, _, _, _)
Lz4From(src, ip, anchor, htab, out, cap) ==
    LET h == Lz4Hash(Four(src, ip))
        ref == IF h \in DOMAIN htab THEN htab[h] ELSE 0
        entered == (h :> ip) @@ htab
        found == ip - ref <= FAR /\ ip > ref /\ Four(src, ref) = Four(src, ip)
        n == MatchLen(src, ref, ip)
        lits == ip - anchor
        next == ip + n
        emitted == out \o <<16 * Lower(lits, 15) + Lower(n - 4, 15)>> \o Excess(lits)
                   \o SubSeq(src, anchor + 1, ip) \o <<(ip - ref) % 256, (ip - ref) \div 256>> \o Excess(n - 4)
    IN  IF ip > Len(src) - MatchLimit THEN LastRun(src, anchor, out, cap)
        ELSE IF ~found THEN Lz4From(src, ip + 1, anchor, entered, out, cap)
        ELSE IF ~Fits(lits, 3 + Overhead(lits) + Overhead(n - 4), Len(out), cap) THEN <<>>
        ELSE IF next > Len(src) - MatchLimit THEN LastRun(src, next, emitted, cap)
        ELSE Lz4From(src, next, next, (Lz4Hash(Four(src, next - 2)) :> next - 2) @@ entered, emitted, cap)

Lz4Compress(src, cap) ==
    IF cap < 1 THEN <<>>
    ELSE IF src = <<>> THEN <<0>>
    ELSE IF Len(src) < 13 THEN LastRun(src, 0, <<>>, cap)
    ELSE Lz4From(src, 1, 0, [h \in {} |-> 0], <<>>, cap)
------------------------------------------------------------------------------
RECURSIVE ReadLen(_, _, _)
ReadLen(src, i, n) ==
    IF i > Len(src) THEN [ok |-> FALSE]
    ELSE IF src[i] = 255 THEN ReadLen(src, i + 1, n + 255) ELSE [ok |-> TRUE, at |-> i + 1, len |-> n + src[i]]
LengthField(src, i, nibble) == IF nibble = 15 THEN ReadLen(src, i, 15) ELSE [ok |-> TRUE, at |-> i, len |-> nibble]

OffsetOk(offset, out) == offset # 0 /\ offset <= Len(out)

(* uc2_lz4_decompress(): sequences until the source ends after a run of    *)
(* literals; also when it ends right after a match.                        *)
RECURSIVE Lz4Read(_, _, _, _)
Lz4Read(src, i, out, cap) ==
    LET lits == LengthField(src, i + 1, src[i] \div 16)
        grown == out \o SubSeq(src, lits.at, lits.at + lits.len - 1)
        at == lits.at + lits.len
        offset == src[at] + 256 * src[at + 1]
        match == LengthField(src, at + 2, src[i] % 16)
        n == match.len + 4
        copied == [k \in 1..n |-> grown[Len(grown) - offset + 1 + ((k - 1) % offset)]]
    IN  IF i > Len(src) THEN out
        ELSE IF ~lits.ok THEN <<>>
        ELSE IF lits.len > Len(src) - lits.at + 1 \/ lits.len > cap - Len(out) THEN <<>>
        ELSE IF at > Len(src) THEN grown
        ELSE IF at = Len(src) THEN <<>>
        ELSE IF ~OffsetOk(offset, grown) THEN <<>>
        ELSE IF ~match.ok THEN <<>>
        ELSE IF n > cap - Len(grown) THEN <<>>
        ELSE Lz4Read(src, match.at, grown \o copied, cap)
Lz4Decompress(src, cap) == IF src = <<>> THEN <<>> ELSE Lz4Read(src, 1, <<>>, cap)
=============================================================================
