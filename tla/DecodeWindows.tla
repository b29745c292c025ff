---------------------------- MODULE DecodeWindows ----------------------------
(***************************************************************************)
(* Where decoded data leaves the decoder: the window of the library         *)
(* (decompressor_ultra() and cbuf of lib/src/decompress.c) and that of the  *)
(* original (UltraDecompressor(), FlushIt() and FlushAll() of ULTRACMP.CPP, *)
(* nuke1() of NUKE.CPP), which writes one half while it fills the other.    *)
(* Both start with the master in the window and must not write it, and both *)
(* may undo a delta on the way (DELTA.CPP, COMPINT.CPP).                    *)
(***************************************************************************)
EXTENDS Integers, Sequences

CONSTANTS Members,  \* [method, master, super, tokens, size]
          WINDOW,   \* bytes of the window (65536)
          MARGIN    \* room the library asks for before a token (35482)

HALF == WINDOW \div 2
Byte == 0..255
StreamToken == [byte : Byte, dist : Nat, len : Nat]
\* With all their extra bits a length is 2715 + 32767 at most and a distance
\* 61440 + 4095; the methods are those Compressor() is asked for.
WindowAssumption ==
    /\ WINDOW \in Nat \ {0} /\ WINDOW % 2 = 0
    /\ MARGIN \in Nat \ {0} /\ MARGIN < WINDOW
    /\ \A m \in Members :
          /\ m.method \in (1..9) \cup (21..49)
          /\ m.master \in Seq(Byte) /\ Len(m.master) < WINDOW
          /\ m.tokens \in Seq(StreamToken) /\ \A i \in DOMAIN m.tokens : m.tokens[i].len <= MARGIN /\ m.tokens[i].dist <= WINDOW
          /\ m.size \in Nat
ASSUME WindowAssumption

VARIABLES member,
          program,   \* "library", "raw" (uc2_decompress_raw) or "original"
          window, tail,   \* the ring and where the next byte goes (wTOE)
          flushed, produced, \* the library: first byte not written (head), bytes of history
          skip, comp,     \* the original: bytes of the master to skip, the half to come
          limit,     \* bytes that may still be written
          tokens,    \* tokens not decoded yet
          delta,     \* the channel of the delta, between two writes
          out, status
windows == <<member, program, window, tail, flushed, produced, skip, comp, limit, tokens, delta, out, status>>
------------------------------------------------------------------------------
(* InitDelta(), Delta() and UnDelta(), delta_init(), delta_apply() and     *)
(* delta_revert(): each byte against the one a stride before it, across    *)
(* the calls.                                                              *)
Wrapped(n) == n % 256
InitDelta(stride) == [stride |-> stride, ctr |-> 0, arra |-> [i \in 0..9 |-> 0]]
Earlier(db, p, i) == IF i > db.stride THEN p[i - db.stride] ELSE db.arra[(db.ctr + i - 1) % db.stride]
\* The channel after bytes p (as they are in the data) have passed.
Passed(db, p) ==
    [db EXCEPT !.ctr = (@ + Len(p)) % db.stride,
               !.arra = [c \in DOMAIN @ |->
                   LET at == {i \in DOMAIN p : (db.ctr + i - 1) % db.stride = c}
                   IN  IF at = {} THEN @[c] ELSE p[CHOOSE i \in at : \A j \in at : j <= i]]]

DeltaOf(db, p) == [db |-> Passed(db, p), out |-> [i \in DOMAIN p |-> Wrapped(p[i] - Earlier(db, p, i))]]

\* Faulty variant: every call begins the strides anew.
UnDeltaAnew(db, p) ==
    LET fresh == [db EXCEPT !.ctr = 0]
        plain[i \in DOMAIN p] == Wrapped(p[i] + Earlier(fresh, plain, i))
    IN  [db |-> Passed(fresh, plain), out |-> [i \in DOMAIN p |-> plain[i]]]

UnDelta(db, p) ==
    LET plain[i \in DOMAIN p] == Wrapped(p[i] + Earlier(db, plain, i))
    IN  [db |-> Passed(db, plain), out |-> [i \in DOMAIN p |-> plain[i]]]

\* The method of Compressor(): how deep it searches, and the stride of the delta.
Compressor(method) ==
    IF method \in 21..29 THEN [depth |-> method - 20, stride |-> 1]
    ELSE IF method \in 30..39 THEN [depth |-> 4, stride |-> method - 29]
    ELSE IF method \in 40..49 THEN [depth |-> 5, stride |-> method - 39]
    ELSE IF method \in 50..59 THEN [depth |-> 1, stride |-> method - 49]
    ELSE IF method \in 60..69 THEN [depth |-> 2, stride |-> method - 59]
    ELSE [depth |-> method, stride |-> 0]

\* Decompressor() of COMPINT.CPP and decompressor() of decompress.c.
Decompressor(method) ==
    IF method \in 1..9 THEN 0
    ELSE IF method \in 30..39 THEN method - 29
    ELSE IF method \in 40..49 THEN method - 39
    ELSE 1
decompressor(method) ==
    IF method \in 1..9 THEN 0
    ELSE IF method \in 30..39 THEN method - 29
    ELSE IF method \in 40..49 THEN method - 39
    ELSE 1
Stride == IF program = "original" THEN Decompressor(member.method) ELSE decompressor(member.method)

(* Analyze(): the stride whose differences of a sample cost at least five  *)
(* hundredths of a bit less than the best before it, unless a trial        *)
(* compresses worse.  costs[0] is that of the plain sample; the difference *)
(* is taken in 32 bits without sign.                                       *)
Analyze(level, size, costs, worse) ==
    LET below(cost, best) == best < 5 \/ cost < best - 5
        best[n \in 0..4] ==
            LET last == IF n = 0 THEN [value |-> 1000, stride |-> 0] ELSE best[n - 1]
            IN  IF below(costs[n], last.value) THEN [value |-> costs[n], stride |-> n] ELSE last
        stride == best[4].stride
    IN  IF level \notin {4, 5} \/ size <= 1500 \/ stride = 0 \/ worse THEN level
        ELSE IF level = 4 THEN 29 + stride ELSE 39 + stride
------------------------------------------------------------------------------
\* The master as it lies in the window: its differences, unless it is the built-in one.
Loaded(m, stride) == IF stride = 0 \/ m.super THEN m.master ELSE DeltaOf(InitDelta(stride), m.master).out
WindowOf(m, stride) ==
    [i \in 0..WINDOW - 1 |-> IF i < Len(m.master) THEN Loaded(m, stride)[i + 1] ELSE 0]

\* What a token adds to the data before it, without any window; whether it
\* refers to data there are.
Brought(data, t) ==
    IF t.dist = 0 THEN <<t.byte>> ELSE [k \in 1..t.len |-> data[Len(data) - t.dist + 1 + ((k - 1) % t.dist)]]
Sensible(data, t) == t.dist > 0 => t.len > 0 /\ t.dist <= Len(data)
\* The data of tokens, up to the first that refers to none.
Further(u, t) ==
    IF u.good /\ Sensible(u.data, t) THEN [data |-> u.data \o Brought(u.data, t), good |-> TRUE] ELSE [u EXCEPT !.good = FALSE]
Unpack(data, ts) ==
    LET after[n \in 0..Len(ts)] == IF n = 0 THEN [data |-> data, good |-> TRUE] ELSE Further(after[n - 1], ts[n])
    IN  after[Len(ts)]
\* What the compressor of the original wrote, whose decoder takes it as it is.
Trusted(m, stride) == Unpack(Loaded(m, stride), m.tokens).good /\ \A i \in DOMAIN m.tokens : m.tokens[i].len <= HALF

\* decompressor_ultra() up to its loop, UltraDecompressor() up to its.
WindowsInit ==
    /\ member \in Members
    /\ program \in {"library", "raw", "original"}
    /\ program = "original" => Trusted(member, Stride)
    /\ window = WindowOf(member, Stride)
    /\ tail = Len(member.master)
    /\ flushed = Len(member.master)
    /\ produced = Len(member.master)
    /\ skip = IF Len(member.master) >= HALF THEN Len(member.master) - HALF ELSE Len(member.master)
    /\ comp = IF Len(member.master) >= HALF THEN 0 ELSE HALF
    /\ limit = member.size
    /\ tokens = member.tokens
    /\ delta = InitDelta(IF Stride = 0 THEN 1 ELSE Stride)
    /\ out = <<>>
    /\ status = "Decode"

IsLibrary == program # "original"
Have == (tail - flushed) % WINDOW
Room == WINDOW - Have - 1

Write(from, n) ==
    LET p == [i \in 1..n |-> window[from + i - 1]]
        reverted == UnDelta(delta, p)
    IN  /\ out' = out \o (IF Stride = 0 THEN p ELSE reverted.out)
        /\ delta' = IF Stride = 0 THEN delta ELSE reverted.db
        /\ limit' = limit - n

\* A literal or a match comes into the window, byte by byte and round its end.
Spread(t) ==
    LET n == IF t.dist = 0 THEN 1 ELSE t.len
        byte[i \in 0..n - 1] ==
            IF t.dist = 0 THEN t.byte
            ELSE IF i >= t.dist THEN byte[i - t.dist]
            ELSE window[(tail + i - t.dist) % WINDOW]
    IN  /\ window' = [p \in DOMAIN window |->
                         LET i == (p - tail) % WINDOW IN IF i < n THEN byte[i] ELSE window[p]]
        /\ tail' = (tail + n) % WINDOW
        /\ produced' = IF produced + n < WINDOW THEN produced + n ELSE WINDOW

Refused(t) == t.dist > 0 /\ (t.len = 0 \/ t.len > Room \/ t.dist > produced)

\* decompress_block(): one token, and on to the writing when the room may not do for another.
DecodeToken ==
    /\ status = "Decode"
    /\ IsLibrary
    /\ tokens # <<>>
    /\ ~Refused(Head(tokens))
    /\ Spread(Head(tokens))
    /\ tokens' = Tail(tokens)
    /\ status' = IF WINDOW - ((tail' - flushed) % WINDOW) - 1 < MARGIN THEN "Flush" ELSE "Decode"
    /\ UNCHANGED <<member, program, flushed, skip, comp, limit, delta, out>>

\* A refused token ends the block; only a raw stream is then refused as a whole.
RefuseToken ==
    /\ status = "Decode"
    /\ IsLibrary
    /\ tokens # <<>>
    /\ Refused(Head(tokens))
    /\ tokens' = <<>>
    /\ status' = IF program = "raw" THEN "Damaged" ELSE "Flush"
    /\ UNCHANGED <<member, program, window, tail, flushed, produced, skip, comp, limit, delta, out>>

EndOfBlock ==
    /\ status = "Decode"
    /\ IsLibrary
    /\ tokens = <<>>
    /\ status' = "Flush"
    /\ UNCHANGED <<member, program, window, tail, flushed, produced, skip, comp, limit, tokens, delta, out>>

(* cbuf_flush(): up to the end of the ring, then from its start.  What     *)
(* exceeds the limit is cut, or refused when the limit is strict.          *)
cbuf_flush ==
    /\ status = "Flush"
    /\ IsLibrary
    /\ LET n == IF Have > WINDOW - flushed THEN WINDOW - flushed ELSE Have
           cut == IF limit < n THEN limit ELSE n
           goesOn == IF tokens = <<>> THEN "Done" ELSE "Decode"
       IN  \/ /\ Have = 0
              /\ status' = goesOn
              /\ UNCHANGED <<flushed, limit, delta, out>>
           \/ /\ Have > 0 /\ program = "raw" /\ limit < Have
              /\ status' = "Damaged"
              /\ UNCHANGED <<flushed, limit, delta, out>>
           \/ /\ Have > 0 /\ ~(program = "raw" /\ limit < Have)
              /\ Write(flushed, cut)
              /\ flushed' = (flushed + cut) % WINDOW
              /\ status' = IF limit' = 0 THEN goesOn ELSE "Flush"
    /\ UNCHANGED <<member, program, window, tail, produced, skip, comp, tokens>>
------------------------------------------------------------------------------
InHalf(p) == IF p >= HALF THEN HALF ELSE 0

\* nuke1(): a token; when it ends in the half to come, the other one is written.
nuke1 ==
    /\ status = "Decode"
    /\ program = "original"
    /\ tokens # <<>>
    /\ Spread(Head(tokens))
    /\ tokens' = Tail(tokens)
    /\ status' = IF InHalf(tail') = comp THEN "Flush" ELSE "Decode"
    /\ UNCHANGED <<member, program, flushed, skip, comp, limit, delta, out>>

\* FlushIt(): the half that is full, without the rest of the master in it.
FlushIt ==
    /\ status = "Flush"
    /\ program = "original"
    /\ comp' = HALF - comp
    /\ IF skip >= HALF
       THEN /\ skip' = skip - HALF
            /\ status' = "Decode"
            /\ UNCHANGED <<limit, delta, out>>
       ELSE LET tot == HALF - skip
                n == IF tot > limit THEN limit ELSE tot
            IN  /\ Write(comp' + skip, n)
                /\ skip' = 0
                /\ status' = IF tot > limit THEN "Done" ELSE "Decode"
    /\ UNCHANGED <<member, program, window, tail, flushed, produced, tokens>>

\* FlushAll(): what the half being filled holds.
FlushAll ==
    /\ status = "Decode"
    /\ program = "original"
    /\ tokens = <<>>
    /\ LET tot == tail - InHalf(tail) - skip
       IN  Write(InHalf(tail) + skip, IF tot > limit THEN limit ELSE tot)
    /\ status' = "Done"
    /\ UNCHANGED <<member, program, window, tail, flushed, produced, skip, comp, tokens>>

WindowsNext == \/ DecodeToken \/ RefuseToken \/ EndOfBlock \/ cbuf_flush
               \/ nuke1 \/ FlushIt \/ FlushAll
WindowsSpec == WindowsInit /\ [][WindowsNext]_windows
------------------------------------------------------------------------------
Promised(m, stride) ==
    LET all == Unpack(Loaded(m, stride), m.tokens).data
        data == SubSeq(all, Len(m.master) + 1, Len(all))
    IN  IF stride = 0 THEN data ELSE UnDelta(InitDelta(stride), data).out

(* What leaves the decoding window is what the tokens stand for and        *)
(* nothing of the master before it, however the window is cut into writes; *)
(* a raw stream that is damaged or too long is noticed, and before         *)
(* anything wrong is written (cbuf_flush(), decompressor_ultra();          *)
(* FlushIt(), FlushAll()).                                                 *)
WindowsDeliver ==
    LET stride == Compressor(member.method).stride
        all == Promised(member, stride)
        want == SubSeq(all, 1, IF Len(all) < member.size THEN Len(all) ELSE member.size)
        good == Unpack(Loaded(member, stride), member.tokens).good
    IN  /\ Len(out) <= Len(want)
        /\ out = SubSeq(want, 1, Len(out))
        /\ status = "Done" => out = want /\ (program = "raw" => good)
        /\ status = "Damaged" => program = "raw" /\ (~good \/ Len(all) > member.size)
=============================================================================
