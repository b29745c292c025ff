---------------------------- MODULE OriginalMatcher ----------------------------
(***************************************************************************)
(* UltraCompressor() of original/UC2_source/src/ULTRACMP.CPP: a session    *)
(* compresses files one after the other, each against its master, in one   *)
(* ring whose first READ_SIZE bytes are repeated behind its end.  What one *)
(* file leaves in the ring and in the hash chains is used for the next one *)
(* with the same master (InitANA1(), Store(), ReStore(), InvHashC()).      *)
(*                                                                         *)
(* m holds the registers of the source without their w: the ring, the      *)
(* chains (head, prev) and their lengths (cnt), LH where the chains begin, *)
(* LR and LP the last byte read and the last to process now, TOE the next  *)
(* byte to encode.                                                         *)
(***************************************************************************)
EXTENDS Integers, Sequences

CONSTANTS Sessions,   \* sequences of files: a master's index and bytes, the data
          READ_SIZE,  \* bytes of a block read, and of the repetition (512)
          MAX_DIST,   \* farthest match (64000), whole blocks
          MAX_LEN,    \* longest match found at once (200)
          MAX_XLEN,   \* longest match (32760)
          LOW,        \* ring positions taken for its start (2000)
          TAIL,       \* last bytes of a master entered with the data (9)
          HIBUFS,     \* words of a buffer (490)
          BNo,        \* buffers of a block (28)
          Depth, LazyDepth, LazyLimit, GiveUp,  \* TuneComp()
          HASH(_, _, _)

RING == MAX_DIST + READ_SIZE
OriginalAssumption ==
    /\ MAX_DIST % READ_SIZE = 0
    /\ MAX_LEN + 2 < READ_SIZE
    /\ 2 * READ_SIZE <= LOW /\ LOW < RING

VARIABLES session,  \* files still to come, the first of them being compressed
          m,        \* the registers
          match,    \* what lazy evaluation found for the next byte, or NoMatch
          tokens,   \* tokens of the file
          words,    \* words in the current buffer, and full buffers: the intermediate block
          blocks,   \* tokens already flushed in each block
          store,    \* the copy Store() made, valid for the master lasMas
          LM, lasMas,
          stage     \* "Open", "Compress" or "Done"
original == <<session, m, match, tokens, words, blocks, store, LM, lasMas, stage>>

Nobody == -1
NoMatch == [len |-> 0, pos |-> 0]
Lit(b) == [byte |-> b, dist |-> 0, len |-> 0]
Mat(d, n) == [byte |-> 0, dist |-> d, len |-> n]
Small(a, b) == IF a < b THEN a ELSE b
Byte(r, p) == IF p \in DOMAIN r.ring THEN r.ring[p] ELSE 0
------------------------------------------------------------------------------
\* Enter() and EnterMuch(), Remove() and RemoveMuch().
Key(r, p) == HASH(Byte(r, p), Byte(r, p + 1), Byte(r, p + 2))
Enter(r, p) ==
    LET h == Key(r, p)
    IN  [r EXCEPT !.prev[p] = r.head[h], !.head[h] = p, !.cnt[h] = @ + 1]
RECURSIVE EnterMuch(_, _, _)
EnterMuch(r, from, onto) == IF from > onto THEN r ELSE EnterMuch(Enter(r, from), from + 1, onto)
RECURSIVE RemoveMuch(_, _, _)
RemoveMuch(r, from, onto) ==
    IF from > onto THEN r ELSE RemoveMuch([r EXCEPT !.cnt[Key(r, from)] = @ - 1], from + 1, onto)

\* ReadBlock(): the block at the start of the ring is repeated behind its end.
ReadBlock(r) ==
    LET at == IF r.LR + 1 = RING THEN 0 ELSE r.LR + 1
        n == Small(READ_SIZE, Len(r.left))
        filled == [i \in DOMAIN r.ring |-> IF i - at \in 0..n - 1 THEN r.left[i - at + 1] ELSE r.ring[i]]
    IN  [r EXCEPT !.ring = IF at # 0 THEN filled ELSE [i \in DOMAIN filled |-> filled[i % RING]],
                  !.LR = IF n = 0 THEN r.LR ELSE at + n - 1,
                  !.left = SubSeq(r.left, n + 1, Len(r.left)), !.got = n]

(* ReadMore(): the chains give up the block about to be overwritten, which *)
(* may be the master's.  After a short block the last position may lie     *)
(* behind the end of the ring, where its start is repeated.                *)
Collision(r) == (r.LR + 1) % RING = r.LH
ReadMore(r) ==
    LET freed == IF Collision(r)
                 THEN [RemoveMuch(r, r.LH, r.LH + READ_SIZE - 1) EXCEPT !.LH = (r.LH + READ_SIZE) % RING]
                 ELSE r
        read == ReadBlock([freed EXCEPT !.LP = r.LR])
        LR == IF read.LR < READ_SIZE THEN read.LR + RING ELSE read.LR
        TOE == IF r.TOE < READ_SIZE THEN r.TOE + RING ELSE r.TOE
    IN  IF read.got = READ_SIZE THEN read
        ELSE [read EXCEPT !.LR = LR, !.LP = LR, !.TOE = IF LR < LOW /\ TOE > LOW THEN TOE - RING ELSE TOE]

\* The wrap after ReadMore(), unless the end of the data was reached.
More(r) ==
    LET read == ReadMore(r)
    IN  IF read.LP # read.LR THEN [read EXCEPT !.TOE = @ % RING] ELSE read
Invalidates(r) == r.TOE > r.LP /\ r.LP # r.LR /\ Collision(r)
------------------------------------------------------------------------------
\* MatchLen(): equal bytes, as many as MAX_LEN.
MatchLen(r, p, q) ==
    CHOOSE n \in 0..MAX_LEN : /\ \A k \in 0..n - 1 : Byte(r, p + k) = Byte(r, q + k)
                              /\ n = MAX_LEN \/ Byte(r, p + n) # Byte(r, q + n)

(* FindMaxLen(): as many candidates as the chain has, or as the depth      *)
(* allows; only those that agree in the byte after the best so far (first  *)
(* in byte min) are compared.  The position enters its chain.              *)
RECURSIVE Along(_, _, _, _, _, _)
Along(r, p, candidate, left, at, best) ==
    LET n == MatchLen(r, p, candidate)
        agrees == Byte(r, candidate + at) = Byte(r, p + at)
        next == r.prev[candidate]
        found == [len |-> n, pos |-> candidate]
    IN  IF left = 0 THEN best
        ELSE IF ~agrees \/ n <= best.len THEN Along(r, p, next, left - 1, at, best)
        ELSE IF n > GiveUp THEN found
        ELSE Along(r, p, next, left - 1, n, found)
FindMaxLen(r, p, depth, min) == Along(r, p, r.head[Key(r, p)], Small(r.cnt[Key(r, p)], depth), min, NoMatch)

(* Lazy evaluation: a short match is compared with the one at the next     *)
(* byte.  Otherwise the match is extended beyond what the ring held when   *)
(* it was found, and cut at the end of the data.                           *)
Distance(r, pos) == IF r.TOE > pos THEN r.TOE - pos ELSE r.TOE - pos + RING

Continued(r, dist, len) ==
    Small(MatchLen(r, r.TOE, IF r.TOE < dist THEN r.TOE + RING - dist ELSE r.TOE - dist), MAX_XLEN - len)

RECURSIVE Extend(_, _, _), Grow(_, _, _, _, _)
Extend(r, len, dist) ==
    IF r.TOE > r.LP /\ r.LP = r.LR
    THEN [r |-> [r EXCEPT !.TOE = r.LP + 1], len |-> len - (r.TOE - r.LP - 1), done |-> TRUE, lost |-> FALSE]
    ELSE Grow(Invalidates(r), IF r.TOE > r.LP THEN More(r) ELSE r, len, dist, -1)
Grow(lost, r, len, dist, again) ==
    IF again < 0 THEN Grow(lost, r, len, dist, Continued(r, dist, len))
    ELSE IF len >= MAX_LEN /\ dist < MAX_DIST - READ_SIZE /\ len < MAX_XLEN /\ again > 0
         THEN [Extend([EnterMuch(r, r.TOE, r.TOE + again - 1) EXCEPT !.TOE = @ + again], len + again, dist)
               EXCEPT !.lost = @ \/ lost]
    ELSE [r |-> r, len |-> len, done |-> FALSE, lost |-> lost]

Wide(t) == IF t.dist = 0 THEN 1 ELSE 2
Put(state, t) ==
    LET used == state.words + Wide(t)
    IN  IF used <= HIBUFS THEN [state EXCEPT !.words = used, !.tokens = Append(@, t)]
        ELSE IF state.full = BNo - 1
             THEN [words |-> 0, full |-> 0, blocks |-> Append(state.blocks, Len(state.tokens) + 1),
                   tokens |-> Append(state.tokens, t)]
        ELSE [state EXCEPT !.words = 0, !.full = @ + 1, !.tokens = Append(@, t)]
RECURSIVE PutAll(_, _)
PutAll(state, ts) == IF ts = <<>> THEN state ELSE PutAll(Put(state, Head(ts)), Tail(ts))
Emit(ts) ==
    LET after == PutAll([words |-> words.used, full |-> words.full, blocks |-> blocks, tokens |-> tokens], ts)
    IN  /\ words' = [used |-> after.words, full |-> after.full]
        /\ blocks' = after.blocks
        /\ tokens' = after.tokens
------------------------------------------------------------------------------
File == Head(session)
Keys == {HASH(a, b, c) : a, b, c \in 0..9}
Clean == [ring |-> [i \in 0..RING + READ_SIZE - 1 |-> 0], head |-> [h \in Keys |-> Nobody],
          prev |-> [i \in 0..RING + READ_SIZE - 1 |-> Nobody], cnt |-> [h \in Keys |-> 0],
          LH |-> 0, LR |-> 0, LP |-> 0, TOE |-> 0, left |-> <<>>, got |-> 0]

OriginalInit ==
    /\ session \in Sessions
    /\ m = Clean
    /\ match = NoMatch
    /\ tokens = <<>>
    /\ words = [used |-> 0, full |-> 0]
    /\ blocks = <<>>
    /\ store = Clean
    /\ LM = Nobody
    /\ lasMas = Nobody
    /\ stage = "Open"

(* InitANA1() and InitANA2(): the master stays where it is, or is loaded;  *)
(* its chains are those of the last file, the stored ones, or made anew.   *)
Open ==
    /\ stage = "Open"
    /\ session # <<>>
    /\ LET LH == RING - Len(File.master)
           rel == LM = File.index /\ LM = lasMas
           placed == IF rel THEN m
                     ELSE [m EXCEPT !.ring = [i \in DOMAIN m.ring |->
                              IF i \in LH..RING - 1 THEN File.master[i - LH + 1] ELSE m.ring[i]]]
           fresh == EnterMuch([placed EXCEPT !.cnt = [h \in Keys |-> 0]], LH, RING - TAIL - 1)
           chains == IF lasMas # File.index THEN fresh
                     ELSE IF rel THEN [placed EXCEPT !.cnt = store.cnt, !.head = store.head]
                     ELSE [placed EXCEPT !.cnt = store.cnt, !.head = store.head, !.prev = store.prev]
           one == ReadBlock([chains EXCEPT !.LH = LH, !.LR = RING - 1, !.left = File.data])
           two == IF one.got = READ_SIZE THEN ReadBlock(one) ELSE [one EXCEPT !.got = 0]
           plenty == one.got = READ_SIZE /\ two.got = READ_SIZE
           last == IF plenty THEN 2 * READ_SIZE - 1 ELSE one.got + two.got - 1
           ready == EnterMuch([two EXCEPT !.LR = last, !.LP = IF plenty THEN READ_SIZE - 1 ELSE last, !.TOE = 0],
                              RING - TAIL, RING - 1)
       IN  /\ store' = IF lasMas # File.index THEN fresh ELSE store
           /\ m' = IF File.data = <<>> THEN two ELSE ready
           /\ stage' = IF File.data = <<>> THEN "Flush" ELSE "Compress"
    /\ LM' = File.index
    /\ lasMas' = File.index
    /\ tokens' = <<>>
    /\ blocks' = <<>>
    /\ words' = [used |-> 0, full |-> 0]
    /\ match' = NoMatch
    /\ UNCHANGED session

\* A literal, also in front of a match that begins a byte later.
Literally(r, later) ==
    LET next == [r EXCEPT !.TOE = @ + 1]
        last == next.TOE > r.LP /\ r.LP = r.LR
    IN  /\ Emit(<<Lit(Byte(r, r.TOE))>>)
        /\ m' = IF next.TOE > r.LP /\ ~last THEN More(next) ELSE next
        /\ LM' = IF Invalidates(next) THEN Nobody ELSE LM
        /\ match' = IF last THEN NoMatch ELSE later
        /\ stage' = IF last THEN "Flush" ELSE stage

\* A match is put out: what it covers enters the chains, and it is extended.
Matched(dist, ended) ==
    LET rest == [i \in 1..ended.len |-> Lit(Byte(ended.r, ended.r.TOE - ended.len + i - 1))]
    IN  /\ Emit(IF ended.done /\ ended.len < 3 THEN rest ELSE <<Mat(dist, ended.len)>>)
        /\ m' = ended.r
        /\ LM' = IF ended.lost THEN Nobody ELSE LM
        /\ match' = NoMatch
        /\ stage' = IF ended.done THEN "Flush" ELSE stage
Covered(r, at, len) == IF len > 3 THEN EnterMuch(r, at + 2, at + Small(len - 1, MAX_LEN)) ELSE Enter(r, at + 2)
Weigh(best, dist, next, then) ==
    IF best.len < LazyLimit /\ then.len > best.len THEN Literally(next, then)
    ELSE Matched(dist, Extend([Covered(next, m.TOE, best.len) EXCEPT !.TOE = @ + best.len], best.len, dist))
Choose(here, best, dist) ==
    IF best.len < 3 \/ dist > MAX_DIST THEN Literally(here, NoMatch)
    ELSE Weigh(best, dist, Enter(here, m.TOE + 1), FindMaxLen(here, m.TOE + 1, LazyDepth, best.len))
Best(here, best) == Choose(here, best, Distance(here, best.pos))
Compress ==
    /\ stage = "Compress"
    /\ IF match # NoMatch THEN Best(m, match) ELSE Best(Enter(m, m.TOE), FindMaxLen(m, m.TOE, Depth, 2))
    /\ UNCHANGED <<session, store, lasMas>>

\* FlushPut(): a block is written unless nothing is buffered, and the session goes on.
Flush ==
    /\ stage = "Flush"
    /\ blocks' = IF words = [used |-> 0, full |-> 0] THEN blocks ELSE Append(blocks, Len(tokens))
    /\ stage' = "Written"
    /\ UNCHANGED <<session, m, match, tokens, words, store, LM, lasMas>>

NextFile ==
    /\ stage = "Written"
    /\ session' = Tail(session)
    /\ stage' = IF Tail(session) = <<>> THEN "Done" ELSE "Open"
    /\ UNCHANGED <<m, match, tokens, words, blocks, store, LM, lasMas>>

\* NoSpec(): the ring and the chains are given back between two files.
NoSpec ==
    /\ stage = "Open"
    /\ LM # Nobody
    /\ LM' = Nobody
    /\ m' = Clean
    /\ UNCHANGED <<session, match, tokens, words, blocks, store, lasMas, stage>>

OriginalNext == Open \/ Compress \/ Flush \/ NextFile \/ NoSpec
------------------------------------------------------------------------------
RECURSIVE ExpandAll(_, _)
ExpandAll(out, ts) ==
    LET t == Head(ts)
        more == IF t.dist = 0 THEN <<t.byte>> ELSE [k \in 1..t.len |-> out[Len(out) - t.dist + 1 + ((k - 1) % t.dist)]]
    IN  IF ts = <<>> THEN out ELSE ExpandAll(out \o more, Tail(ts))
=============================================================================
