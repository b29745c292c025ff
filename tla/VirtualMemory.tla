--------------------------- MODULE VirtualMemory ----------------------------
(***************************************************************************)
(* The virtual memory of the original program (VMEM.CPP): blocks that live *)
(* in a few frames of conventional memory, in chunks of extended memory or *)
(* in a file, an allocator with a free list per size inside the blocks,    *)
(* counted accesses (Acc, UnAcc) and those that expire by themselves (V),  *)
(* and the pipes made of them.  Sizes are in units; a header takes one.    *)
(***************************************************************************)
EXTENDS Integers, Sequences, FiniteSets

CONSTANTS
    TOT_BLOCKS, BLOCK_SIZE,    \* blocks, and the units of one
    RAM_BLOCKS, MAX_RAM_BLOCKS,\* frames without the booster, and frames there is room to describe
    DEEP,                      \* how many results of V() stay valid
    CUT, MAX_CHUNKS,           \* blocks of a chunk of extended memory, and chunks
    LISTS, SPLIT,              \* the sizes with a list of their own; the least a split leaves
    Sizes, MaxLive, MaxSteps,  \* what is allocated, how much at once, and the length of a run
    PIPE_BUFFER, MaxSent       \* the buffer of a pipe, and what is written to one

VARIABLES work, steps, vm, live, held, pipe, sent, got
vars == <<work, steps, vm, live, held, pipe, sent, got>>

PRE == 1
ON_DISK == -1
BLOCK_EMPTY == -2
VNULL == <<65535, 65535>>
Blocks == 0..TOT_BLOCKS - 1
Cell(size, next, value) == [size |-> size, next |-> next, value |-> value]
Nothing == Cell(0, VNULL, 0)
EmptyBlock(b) ==
    [i \in 0..BLOCK_SIZE - 1 |->
        IF i = 0 THEN Cell(BLOCK_SIZE - PRE, IF b # TOT_BLOCKS - 1 THEN <<b + 1, 0>> ELSE VNULL, 0) ELSE Nothing]
NoData == [i \in 0..BLOCK_SIZE - 1 |-> Nothing]
Frame(b, clean, data) == [block |-> b, count |-> 0, clean |-> clean, data |-> data]

ClearVmem ==
    [stat |-> [b \in Blocks |-> IF b < RAM_BLOCKS THEN b ELSE BLOCK_EMPTY],
     frames |-> [f \in 0..RAM_BLOCKS - 1 |-> Frame(f, FALSE, EmptyBlock(f))],
     rotor |-> 0, queue |-> [i \in 0..DEEP - 1 |-> VNULL], at |-> 0, lastblock |-> 65000,
     chunks |-> 0, grow |-> TRUE, core |-> 1, extended |-> [b \in Blocks |-> NoData], file |-> [b \in Blocks |-> NoData],
     first |-> [l \in 1..LISTS + 1 |-> IF l = LISTS + 1 THEN <<0, 0>> ELSE VNULL], hint |-> LISTS + 1, panic |-> FALSE]
Frames(s) == DOMAIN s.frames
InRam(s, b) == s.stat[b] >= 0
At(s, a) == s.frames[s.stat[a[1]]].data[a[2]]
SetCell(s, a, cell) == [s EXCEPT !.frames[s.stat[a[1]]].data[a[2]] = cell]
------------------------------------------------------------------------------
(* DGet(), DPut(): a block belongs to a chunk; chunks are taken while      *)
(* there is extended memory, and never again after it once ran out.        *)
RECURSIVE Grow(_, _)
Grow(s, chunk) ==
    IF chunk < s.chunks \/ ~s.grow THEN s
    ELSE IF s.core = 0 THEN [s EXCEPT !.grow = FALSE]
    ELSE Grow([s EXCEPT !.chunks = @ + 1, !.core = @ - 1, !.grow = s.chunks + 1 # MAX_CHUNKS], chunk)

DGet(s, b) == IF b \div CUT < s.chunks THEN s.extended[b] ELSE s.file[b]
Put(s, data, b) == IF b \div CUT < s.chunks THEN [s EXCEPT !.extended[b] = data] ELSE [s EXCEPT !.file[b] = data]
DPut(s, data, b) == Put(Grow(s, b \div CUT), data, b)

ToDisk(s, f) ==
    LET b == s.frames[f].block
    IN  [DPut(s, s.frames[f].data, b) EXCEPT !.stat[b] = ON_DISK]

\* Flush(): the next frame nobody refers to, going round; when there is none the program stops.
Round(s) == Cardinality(Frames(s))
\* Faulty variant: a frame is taken while somebody refers to it.
TakeAny(s) == 1..Round(s)
Idle(s) == {k \in 1..Round(s) : s.frames[(s.rotor + k) % Round(s)].count = 0}
TurnTo(s, f) == ToDisk([s EXCEPT !.rotor = f], f)
Flush(s) ==
    IF Idle(s) = {} THEN [s EXCEPT !.panic = TRUE]
    ELSE TurnTo(s, (s.rotor + CHOOSE k \in Idle(s) : \A j \in Idle(s) : k <= j) % Round(s))

\* Acc() and UnAcc(): the block is brought into a frame, and stays there while
\* it is counted; an address that is none stops the program (SetStat()).
Counted(s, b) == [s EXCEPT !.frames[s.stat[b]].count = @ + 1, !.frames[s.stat[b]].clean = FALSE]
Filled(s, b) == IF s.stat[b] = ON_DISK THEN DGet(s, b) ELSE EmptyBlock(b)
Brought(s, b) == IF s.panic THEN s ELSE [s EXCEPT !.frames[s.rotor] = Frame(b, FALSE, Filled(s, b)), !.stat[b] = s.rotor]
Enter(s, b) == IF s.panic THEN s ELSE Counted(s, b)
Acc(s, b) ==
    IF s.panic \/ b \notin Blocks THEN [s EXCEPT !.panic = TRUE]
    ELSE IF InRam(s, b) THEN Counted(s, b) ELSE Enter(Brought(Flush(s), b), b)
UnAcc(s, b) == IF s.panic \/ ~InRam(s, b) THEN s ELSE [s EXCEPT !.frames[s.stat[b]].count = @ - 1]

(* V(): the access expires after DEEP more calls; a call for the block of  *)
(* the last one takes its frame as it is.                                  *)
Queued(s, b) == [s EXCEPT !.queue[s.at] = <<b, 0>>, !.at = (@ + 1) % DEEP, !.lastblock = b]
Expire(s) == IF s.queue[s.at] = VNULL THEN s ELSE UnAcc(s, s.queue[s.at][1])
V(s, b) == IF s.lastblock = b THEN s ELSE Queued(Acc(Expire(s), b), b)
------------------------------------------------------------------------------
(* LLVfree(): the piece goes to the front of the list of its size.         *)
ListOf(size) == IF size > LISTS THEN LISTS + 1 ELSE size
Listed(s, a, list) ==
    UnAcc([SetCell(s, a, [At(s, a) EXCEPT !.next = s.first[list]]) EXCEPT !.first[list] = a, !.hint = list], a[1])
Release(s, a) == IF s.panic THEN s ELSE Listed(s, a, ListOf(At(s, a).size))
LLVfree(s, address) == Release(Acc(s, address[1]), <<address[1], address[2] - PRE>>)

(* LLVmalloc(): the list of the size, else that of the last piece given    *)
(* back, else the next larger one that is not empty; the first piece of it *)
(* that is large enough leaves the list, and what it is too large by is    *)
(* given back.                                                             *)
Larger(s, list) == {l \in list + 1..LISTS : s.first[l] # VNULL}
Smallest(S) == CHOOSE l \in S : \A other \in S : l <= other
ListFor(s, size) ==
    IF size <= LISTS /\ s.first[size] # VNULL THEN size
    ELSE IF s.hint >= size /\ s.first[s.hint] # VNULL THEN s.hint
    ELSE IF Larger(s, size) # {} THEN Smallest(Larger(s, size)) ELSE LISTS + 1

RECURSIVE Fit(_, _, _, _)
Fit(s, prev, walk, size) ==
    IF s.panic \/ At(s, walk).size >= size THEN [s |-> s, prev |-> prev, walk |-> walk]
    ELSE LET next == At(s, walk).next IN Fit(Acc(UnAcc(s, walk[1]), next[1]), walk, next, size)

UnlinkFirst(s, walk, list) == [s EXCEPT !.first[list] = At(s, walk).next]

Relink(s, prev, walk) == UnAcc(SetCell(s, prev, [At(s, prev) EXCEPT !.next = At(s, walk).next]), prev[1])
Unlink(s, prev, walk, list) ==
    IF prev = VNULL THEN UnlinkFirst(s, walk, list) ELSE Relink(Acc(s, prev[1]), prev, walk)

Rest(walk, size) == <<walk[1], walk[2] + PRE + size>>
Cut(s, walk, size) ==
    SetCell(SetCell(s, Rest(walk, size), Cell(At(s, walk).size - PRE - size, VNULL, 0)),
            walk, [At(s, walk) EXCEPT !.size = size])
Split(s, walk, size) ==
    IF At(s, walk).size <= size + SPLIT THEN s
    ELSE LLVfree(Cut(s, walk, size), <<walk[1], walk[2] + 2 * PRE + size>>)

Written(s, a, size, value) ==
    [s EXCEPT !.frames[s.stat[a[1]]].data =
        [k \in DOMAIN @ |-> IF k - a[2] \in 0..size - 1 THEN Cell(0, VNULL, value) ELSE @[k]]]
Wipe(s, a, size) == UnAcc(Written(Acc(s, a[1]), a, size, 0), a[1])
Given(s, walk, size) == [s |-> Wipe(UnAcc(s, walk[1]), <<walk[1], walk[2] + PRE>>, size), address |-> <<walk[1], walk[2] + PRE>>]
Take(fit, list, size) ==
    IF fit.s.panic THEN [s |-> fit.s, address |-> VNULL]
    ELSE Given(Split(Unlink(fit.s, fit.prev, fit.walk, list), fit.walk, size), fit.walk, size)
FromList(s, list, size) == Take(Fit(Acc(s, s.first[list][1]), VNULL, s.first[list], size), list, size)
LLVmalloc(s, size) == FromList(s, ListFor(s, size), size)
------------------------------------------------------------------------------
(* BoosterOn(): frames for as much memory as there is, each with the first *)
(* block that has none, up to one more than the arrays describe: what is   *)
(* written behind them is taken to be kept.  BoosterOff(): those frames    *)
(* are emptied, and no result of V() is valid any more.                    *)
NotRam(s) == Smallest({b \in Blocks : ~InRam(s, b)})
Boosted(s, b) ==
    [s EXCEPT !.frames = [f \in 0..Round(s) |-> IF f = Round(s) THEN Frame(b, s.stat[b] # ON_DISK, Filled(s, b)) ELSE @[f]],
              !.stat[b] = Round(s)]
RECURSIVE Boost(_, _)
Boost(s, n) == IF n = 0 THEN s ELSE Boost(Boosted(s, NotRam(s)), n - 1)

RECURSIVE Emptied(_, _)
Emptied(s, f) ==
    IF f = Round(s) THEN s
    ELSE Emptied(IF s.frames[f].clean THEN [s EXCEPT !.stat[s.frames[f].block] = BLOCK_EMPTY] ELSE ToDisk(s, f), f + 1)

ForgetLast(s) == [s EXCEPT !.lastblock = 65000]
Unboosted(s) ==
    [ForgetLast(s) EXCEPT !.queue = [i \in DOMAIN @ |-> VNULL], !.rotor = 0,
                          !.frames = [f \in 0..RAM_BLOCKS - 1 |-> [@[f] EXCEPT !.count = 0]]]
------------------------------------------------------------------------------
MakePipe == [nodes |-> <<>>, current |-> 0, off |-> 0, buffer |-> <<>>]
FlushPipe(p) ==
    IF p.buffer = <<>> THEN p
    ELSE [p EXCEPT !.nodes = Append(@, p.buffer), !.buffer = <<>>, !.current = IF p.nodes = <<>> THEN 1 ELSE @]
RECURSIVE WritePipe(_, _)
WritePipe(p, data) ==
    LET m == PIPE_BUFFER - Len(p.buffer)
    IN  IF Len(data) < m THEN [p EXCEPT !.buffer = @ \o data]
        ELSE LET full == FlushPipe([p EXCEPT !.buffer = @ \o SubSeq(data, 1, m)])
             IN  IF Len(data) = m THEN full ELSE WritePipe(full, SubSeq(data, m + 1, Len(data)))

Advance(p, n) ==
    IF p.off + n < Len(p.nodes[p.current]) THEN [p EXCEPT !.off = @ + n]
    ELSE [p EXCEPT !.off = 0, !.current = IF p.current = Len(p.nodes) THEN 0 ELSE @ + 1]

RECURSIVE Reading(_, _, _)
Reading(p, n, read) ==
    IF p.current = 0 \/ n = 0 THEN [p |-> p, data |-> read]
    ELSE LET node == p.nodes[p.current]
             here == IF Len(node) - p.off >= n THEN n ELSE Len(node) - p.off
         IN  Reading(Advance(p, here), n - here, read \o SubSeq(node, p.off + 1, p.off + here))
ReadPipe(p, n) == Reading(FlushPipe(p), n, <<>>)
------------------------------------------------------------------------------
VirtualInit ==
    /\ work \in {"heap", "pipe"}
    /\ steps = 0
    /\ \E core \in {0, 1} : vm = [ClearVmem EXCEPT !.core = core]
    /\ live = {}
    /\ held = <<>>
    /\ pipe = MakePipe
    /\ sent = <<>>
    /\ got = <<>>

Heap ==
    /\ work = "heap"
    /\ ~vm.panic
    /\ steps < MaxSteps
    /\ steps' = steps + 1
    /\ UNCHANGED <<work, pipe, sent, got>>
Holds(address, s) == [address |-> address, frame |-> s.stat[address[1]]]
Recent(s) == IF Len(s) <= DEEP THEN s ELSE SubSeq(s, Len(s) - DEEP + 1, Len(s))

Vmalloc(size) ==
    /\ Heap
    /\ Cardinality(live) < MaxLive
    /\ vm.stat[TOT_BLOCKS - 1] = BLOCK_EMPTY   \* the end of the superlist is never reached
    /\ LET new == LLVmalloc(vm, size)
       IN  /\ vm' = new.s
           /\ live' = live \cup {[address |-> new.address, size |-> size, value |-> 0]}
    /\ UNCHANGED held
Vfree(p) ==
    /\ Heap
    /\ vm' = LLVfree(vm, p.address)
    /\ live' = live \ {p}
    /\ UNCHANGED held
\* What is written through a result of V().
WriteV(p, value) ==
    /\ Heap
    /\ LET s == V(vm, p.address[1])
       IN  /\ vm' = IF s.panic \/ ~InRam(s, p.address[1]) THEN [s EXCEPT !.panic = TRUE] ELSE Written(s, p.address, p.size, value)
           /\ held' = Recent(Append(held, Holds(p.address, s)))
    /\ live' = (live \ {p}) \cup {[p EXCEPT !.value = value]}
BoosterOn(n) ==
    /\ Heap
    /\ Round(vm) = RAM_BLOCKS
    /\ RAM_BLOCKS + n <= MAX_RAM_BLOCKS + 1
    /\ vm' = [ForgetLast(Boost(vm, n)) EXCEPT !.rotor = 0]
    /\ UNCHANGED <<live, held>>
BoosterOff ==
    /\ Heap
    /\ Round(vm) > RAM_BLOCKS
    /\ vm' = Unboosted(Emptied(vm, RAM_BLOCKS))
    /\ held' = <<>>
    /\ UNCHANGED live
\* The caches take and give back extended memory.
Elsewhere ==
    /\ Heap
    /\ vm' = [vm EXCEPT !.core = 1 - @]
    /\ UNCHANGED <<live, held>>

\* A pipe is written to before anything is read.
Send(data) ==
    /\ work = "pipe"
    /\ got = <<>>
    /\ Len(sent) + Len(data) <= MaxSent
    /\ pipe' = WritePipe(pipe, data)
    /\ sent' = sent \o data
    /\ UNCHANGED <<work, steps, vm, live, held, got>>
Receive(n) ==
    /\ work = "pipe"
    /\ Len(got) < Len(sent)
    /\ LET read == ReadPipe(pipe, n)
       IN  /\ pipe' = read.p
           /\ got' = got \o read.data
    /\ UNCHANGED <<work, steps, vm, live, held, sent>>
ClosePipe ==
    /\ work = "pipe"
    /\ got # <<>>
    /\ pipe' = MakePipe
    /\ sent' = <<>>
    /\ got' = <<>>
    /\ UNCHANGED <<work, steps, vm, live, held>>

VirtualNext ==
    \/ \E size \in Sizes : Vmalloc(size)
    \/ \E p \in live : Vfree(p)
    \/ \E p \in live : WriteV(p, IF p.value = 1 THEN 2 ELSE 1)
    \/ \E n \in 1..MAX_RAM_BLOCKS - RAM_BLOCKS + 1 : BoosterOn(n)
    \/ BoosterOff
    \/ Elsewhere
    \/ \E n \in 1..3 : Send([i \in 1..n |-> Len(sent) + i])
    \/ \E n \in 1..4 : Receive(n)
    \/ ClosePipe
------------------------------------------------------------------------------
\* What the units of an allocation hold, wherever its block is.
Stored(b) == IF InRam(vm, b) THEN vm.frames[vm.stat[b]].data ELSE IF vm.stat[b] = ON_DISK THEN DGet(vm, b) ELSE EmptyBlock(b)

(* Every allocation holds what was last written to it, whatever was        *)
(* allocated, freed, moved between memory and disk or boosted since; no    *)
(* two overlap, and the program never stops because every frame is in use  *)
(* (Acc(), V(), LLVmalloc(), LLVfree(), BoosterOff()).                     *)
HoldsLastWrite ==
    /\ ~vm.panic
    /\ \A p \in live :
          LET data == Stored(p.address[1])
          IN  /\ DOMAIN data = 0..BLOCK_SIZE - 1
              /\ \A k \in p.address[2]..p.address[2] + p.size - 1 : data[k] = Cell(0, VNULL, p.value)

\* The last DEEP results of V() still point to where their block is (VMEM.H, V()).
HeldStaysPut == \A i \in DOMAIN held : vm.panic \/ vm.stat[held[i].address[1]] = held[i].frame

\* What was written to a pipe comes out of it in order (WritePipe(), ReadPipe()).
PipeInOrder == got = SubSeq(sent, 1, Len(got))
=============================================================================
