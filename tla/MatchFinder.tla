------------------------------ MODULE MatchFinder ------------------------------
(***************************************************************************)
(* The matcher of lib/src/compress.c: uc2_compress_ex() reads the input in *)
(* pieces into a ring, finds matches along hash chains, and hands blocks   *)
(* of tokens on to be coded (BlockStream, RansBlocks).                     *)
(*                                                                         *)
(* Positions are absolute; a ring of BUF_SIZE bytes holds the latest.  The *)
(* numbers are scaled down, in the code they are those of the comments.    *)
(***************************************************************************)
EXTENDS Integers, Sequences, FiniteSets

CONSTANTS Inputs,      \* records of a master, the data and the parameters of a level
          BUF_SIZE,    \* bytes of the ring (65536)
          READ_SIZE,   \* most bytes of one read (512)
          FARTHEST,    \* farthest match (64000)
          NEAR,        \* farthest match of three bytes (255)
          PLAIN,       \* farthest distance without extra bits (15)
          MAX_LEN,     \* longest match searched for (200)
          IBUF_SIZE,   \* room for the entries of a block (32768)
          FLUSH,       \* entries after which a block is flushed (27000)
          HashAt(_, _, _)  \* the chain of three bytes

MIN_MATCH == 3
MatchAssumption ==
    /\ {BUF_SIZE, READ_SIZE, FARTHEST, NEAR, PLAIN, MAX_LEN, IBUF_SIZE, FLUSH} \subseteq Nat \ {0}
    /\ FARTHEST + READ_SIZE + MIN_MATCH <= BUF_SIZE
    /\ FLUSH + 6 <= IBUF_SIZE
    /\ \A x \in Inputs : x.master \in Seq(Nat) /\ x.data \in Seq(Nat) /\ {x.search, x.lazyDepth} \subseteq Nat
ASSUME MatchAssumption

VARIABLES input,      \* the member of Inputs being compressed
          ring,       \* the latest bytes
          head, prev, \* hash chains: the latest position of a hash, the one before a position
          pos, end,   \* next position to compress, end of what was read
          remaining,  \* bytes of the input not read
          ibuf,       \* tokens of the current block
          blocks,     \* blocks flushed
          stage       \* "Running", "Done" or "Failed"
matcher == <<input, ring, head, prev, pos, end, remaining, ibuf, blocks, stage>>

NIL == -1
Lit(b) == [byte |-> b, dist |-> 0, len |-> 0]
Mat(d, n) == [byte |-> 0, dist |-> d, len |-> n]
Small(a, b) == IF a < b THEN a ELSE b
Whole == input.master \o input.data
ByteAt(p) == ring[p % BUF_SIZE]

\* Entries of the intermediate buffer: a byte, or distance, extra bits if any, and length.
Copies(tokens) == {i \in DOMAIN tokens : tokens[i].dist # 0}
Far(tokens) == {i \in Copies(tokens) : tokens[i].dist > PLAIN}
Used(tokens) == Len(tokens) + Cardinality(Copies(tokens)) + Cardinality(Far(tokens))
------------------------------------------------------------------------------
\* hash_at(), and hash_enter() of all positions from p to the last: a chain
\* begins at its latest position, and each leads to the one before it.
ChainOf(p) == HashAt(ByteAt(p), ByteAt(p + 1), ByteAt(p + 2))
Newest(S) == IF S = {} THEN NIL ELSE CHOOSE p \in S : \A q \in S : q <= p
Latest(h, heads) == IF h \in DOMAIN heads THEN heads[h] ELSE NIL
Leading(h, chains, p, last) ==
    LET entered == {q \in p..last : ChainOf(q) = h} IN IF entered = {} THEN Latest(h, chains.head) ELSE Newest(entered)
EnterAll(chains, p, last) ==
    [prev |-> [i \in DOMAIN chains.prev |->
                  LET q == Newest({q \in p..last : q % BUF_SIZE = i})
                  IN  IF q = NIL THEN chains.prev[i] ELSE Leading(ChainOf(q), chains, p, q - 1)],
     head |-> [h \in DOMAIN chains.head \cup {ChainOf(q) : q \in p..last} |-> Leading(h, chains, p, last)]]
Enter(chains, p) == EnterAll(chains, p, p)

\* Faulty variant: a chain may lead farther back than the ring remembers.
TooFar(chain, p) == chain = NIL \/ chain >= p
OutOfReach(chain, p) == chain = NIL \/ chain >= p \/ p - chain > FARTHEST

(* find_match(): along the chain, the longest run of equal bytes, the      *)
(* nearest among equals; three bytes only from nearby.                     *)
Equal(chain, p, limit) ==
    CHOOSE n \in 0..limit : /\ \A k \in 0..n - 1 : ByteAt(chain + k) = ByteAt(p + k)
                            /\ n = limit \/ ByteAt(chain + n) # ByteAt(p + n)
\* One place of a chain: better than the best so far, or the next.
Better(chain, p, best) ==
    LET n == Equal(chain, p, Small(MAX_LEN, end - p))
    IN  IF /\ ByteAt(chain + best.len) = ByteAt(p + best.len)
           /\ n > best.len
           /\ n > 3 \/ p - chain <= NEAR
        THEN [len |-> n, dist |-> p - chain] ELSE best
Unmatched == [len |-> MIN_MATCH - 1, dist |-> 0]
FindMatch(chains, p, depth) ==
    LET after[n \in 0..depth] ==
            IF n = 0 THEN [chain |-> Latest(ChainOf(p), chains.head), best |-> Unmatched]
            ELSE LET last == after[n - 1]
                 IN  IF OutOfReach(last.chain, p) \/ (last.best.dist > 0 /\ last.best.len >= input.giveUp) THEN last
                     ELSE [chain |-> chains.prev[last.chain % BUF_SIZE], best |-> Better(last.chain, p, last.best)]
        best == after[depth].best
    IN  IF best.len >= MIN_MATCH THEN best ELSE [len |-> 0, dist |-> 0]
------------------------------------------------------------------------------
\* A master that does not fit into the ring is refused.
MatcherInit ==
    /\ input \in Inputs
    /\ LET m == Len(input.master)
           hash(p) == HashAt(input.master[p + 1], input.master[p + 2], input.master[p + 3])
           first == IF m < BUF_SIZE THEN 0..m - 3 ELSE {}
       IN  /\ ring = [i \in 0..BUF_SIZE - 1 |-> IF i < m THEN input.master[i + 1] ELSE 0]
           /\ head = [h \in {hash(p) : p \in first} |-> Newest({p \in first : hash(p) = h})]
           /\ prev = [i \in 0..BUF_SIZE - 1 |->
                         IF i \in first THEN Newest({p \in first : p < i /\ hash(p) = hash(i)}) ELSE 0]
           /\ pos = m
           /\ end = m
           /\ stage = IF m < BUF_SIZE THEN "Running" ELSE "Failed"
    /\ remaining = Len(input.data)
    /\ ibuf = <<>>
    /\ blocks = <<>>

(* A read gives from one byte to all that was asked for, and never wraps   *)
(* round the ring; a reader that fails, or says it is at its end, is final.*)
Chunk == Small(Small(remaining, READ_SIZE), BUF_SIZE - (end % BUF_SIZE))
Load ==
    /\ stage = "Running"
    /\ end - pos < MIN_MATCH
    /\ remaining > 0
    /\ \E n \in 1..Chunk :
          /\ ring' = [i \in DOMAIN ring |->
                         LET k == i - (end % BUF_SIZE)
                         IN  IF k \in 0..n - 1 THEN Whole[end + k + 1] ELSE ring[i]]
          /\ end' = end + n
          /\ remaining' = remaining - n
    /\ UNCHANGED <<input, head, prev, pos, ibuf, blocks, stage>>

LoadFails ==
    /\ stage = "Running"
    /\ end - pos < MIN_MATCH
    /\ remaining > 0
    /\ stage' = "Failed"
    /\ UNCHANGED <<input, ring, head, prev, pos, end, remaining, ibuf, blocks>>

FlushWhenFull(tokens) ==
    IF Used(tokens) > FLUSH THEN /\ blocks' = Append(blocks, tokens) /\ ibuf' = <<>>
    ELSE /\ ibuf' = tokens /\ UNCHANGED blocks

(* One round of the loop: the search comes before the position is entered; *)
(* a short match gives way to a longer one at the next position, and every *)
(* position that is passed is entered while three bytes are there.         *)
Compress ==
    /\ stage = "Running"
    /\ end - pos >= MIN_MATCH
    /\ LET here == Enter([head |-> head, prev |-> prev], pos)
           one == FindMatch([head |-> head, prev |-> prev], pos, input.search)
           two == FindMatch(here, pos + 1, input.lazyDepth)
           lazy == one.len < input.lazyLimit /\ end - pos > one.len /\ two.len > one.len
           start == IF lazy THEN pos + 1 ELSE pos
           match == IF lazy THEN two ELSE one
           entered == EnterAll(here, pos + 1, Small(start + match.len - 1, end - 3))
       IN  IF one.len = 0
           THEN /\ FlushWhenFull(Append(ibuf, Lit(ByteAt(pos))))
                /\ head' = here.head
                /\ prev' = here.prev
                /\ pos' = pos + 1
           ELSE /\ FlushWhenFull(ibuf \o (IF lazy THEN <<Lit(ByteAt(pos))>> ELSE <<>>) \o <<Mat(match.dist, match.len)>>)
                /\ head' = entered.head
                /\ prev' = entered.prev
                /\ pos' = start + match.len
    /\ UNCHANGED <<input, ring, end, remaining, stage>>

\* What is too short for a match ends the last block, which is always written.
FinishStream ==
    /\ stage = "Running"
    /\ end - pos < MIN_MATCH
    /\ remaining = 0
    /\ blocks' = Append(blocks, ibuf \o [i \in 1..end - pos |-> Lit(ByteAt(pos + i - 1))])
    /\ pos' = end
    /\ ibuf' = <<>>
    /\ stage' = "Done"
    /\ UNCHANGED <<input, ring, head, prev, end, remaining>>

MatcherNext == Load \/ LoadFails \/ Compress \/ FinishStream
MatcherSpec == MatcherInit /\ [][MatcherNext]_matcher
------------------------------------------------------------------------------
\* What tokens add to the bytes before them, one after the other.
CopyOf(out, t) ==
    IF t.dist = 0 THEN <<t.byte>> ELSE [k \in 1..t.len |-> out[Len(out) - t.dist + 1 + ((k - 1) % t.dist)]]
Expanded(out, tokens) ==
    LET after[n \in 0..Len(tokens)] == IF n = 0 THEN out ELSE after[n - 1] \o CopyOf(after[n - 1], tokens[n])
    IN  after[Len(tokens)]
ExpandedBlocks(out, bs) ==
    LET after[n \in 0..Len(bs)] == IF n = 0 THEN out ELSE Expanded(after[n - 1], bs[n]) IN after[Len(bs)]

Within(tokens) ==
    /\ Used(tokens) <= IBUF_SIZE
    /\ \A i \in DOMAIN tokens : tokens[i].dist > 0 => tokens[i].dist <= FARTHEST /\ tokens[i].len \in MIN_MATCH..MAX_LEN

(* The tokens of a file, expanded after its master, are the file, at every *)
(* step: no match is longer than what it copies, points behind what the    *)
(* ring holds or before the data, and no block overruns its buffer         *)
(* (uc2_compress_ex()).                                                    *)
MatchesStandForData ==
    /\ Expanded(ExpandedBlocks(input.master, blocks), ibuf) = SubSeq(Whole, 1, pos)
    /\ Within(ibuf)
    /\ \A b \in DOMAIN blocks : Within(blocks[b])
    /\ stage = "Done" => pos = Len(Whole)
=============================================================================
