-------------------------------- MODULE CodersProofs --------------------------------
(***************************************************************************)
(* The cache of an open archive is right, the memory counted is the memory *)
(* held, and what a call says is true of the archive, for any masters and  *)
(* needs, cyclic and incomplete ones included, any limit and any failures. *)
(*                                                                         *)
(* The tokens that the compressor codes stand for the file, for any master *)
(* and data, any level's parameters, any hash and any reads.               *)
(*                                                                         *)
(* What the library and the original write of those tokens is the file, for*)
(* any window, margin, batch and limit.                                    *)
(***************************************************************************)
EXTENDS ArchiveReader, MatchFinder, DecodeWindows, FiniteSetTheorems, SequenceTheorems,
        NaturalsInduction, WellFoundedInduction, TLAPS

-----------------------------------------------------------------------------
(***************************************************************************)
(* What a master stands on.                                                *)
(***************************************************************************)
Needed == needs \in [Master -> Identifier]

\* Below(m) is the least set that holds m and the needs of its masters.
LEMMA BelowClosed ==
  ASSUME Needed, NEW m \in Identifier
  PROVE  m \in Below(m) /\ Below(m) \subseteq Identifier /\ Closed(Below(m))
<1>1. m \in Below(m) /\ Below(m) \subseteq Identifier
  BY DEF Below
<1>2. ASSUME NEW x \in Below(m) \cap Master PROVE needs[x] \in Below(m)
  <2>1. needs[x] \in Identifier
    BY DEF Needed
  <2>2. ASSUME NEW S \in SUBSET Identifier, m \in S, Closed(S) PROVE needs[x] \in S
    BY <2>2 DEF Below, Closed
  <2> QED BY <2>1, <2>2 DEF Below
<1> QED BY <1>1, <1>2 DEF Closed

LEMMA BelowLeast ==
  ASSUME NEW S \in SUBSET Identifier, NEW m \in S, Closed(S)
  PROVE  Below(m) \subseteq S
BY DEF Below

LEMMA BelowBelow ==
  ASSUME Needed, NEW m \in Identifier, NEW x \in Below(m)
  PROVE  x \in Identifier /\ Below(x) \subseteq Below(m)
<1>1. Below(m) \in SUBSET Identifier /\ Closed(Below(m))
  BY BelowClosed
<1> QED BY <1>1, BelowLeast

LEMMA BelowMaster ==
  ASSUME Needed, NEW m \in Master
  PROVE  needs[m] \in Identifier /\ Below(m) = {m} \cup Below(needs[m])
<1>1. m \in Identifier /\ needs[m] \in Identifier
  BY DEF Needed, Identifier
<1>2. needs[m] \in Below(m) /\ m \in Below(m)
  BY <1>1, BelowClosed DEF Closed
<1>3. Below(needs[m]) \subseteq Below(m)
  BY <1>1, <1>2, BelowBelow
<1>4. Below(m) \subseteq {m} \cup Below(needs[m])
  <2> DEFINE S == {m} \cup Below(needs[m])
  <2>1. S \in SUBSET Identifier /\ m \in S
    BY <1>1, BelowClosed
  <2>2. Closed(S)
    <3>1. needs[m] \in Below(needs[m]) /\ Closed(Below(needs[m]))
      BY <1>1, BelowClosed
    <3> QED BY <3>1 DEF Closed
  <2> HIDE DEF S
  <2>3. Below(m) \subseteq S
    BY <2>1, <2>2, BelowLeast
  <2> QED BY <2>3 DEF S
<1> QED BY <1>1, <1>2, <1>3, <1>4

LEMMA BelowEnd ==
  ASSUME Needed, NEW m \in {Super, Absent}
  PROVE  Below(m) = {m}
<1>1. m \in Identifier /\ m \notin Master
  BY ReaderAssumption DEF Identifier
<1>2. Closed({m}) /\ {m} \in SUBSET Identifier
  BY <1>1 DEF Closed
<1>3. Below(m) \subseteq {m}
  BY <1>2, BelowLeast
<1> QED BY <1>1, <1>3, BelowClosed

\* A master is grounded if what it needs is, and then all below it are.
LEMMA GroundedNeeds ==
  ASSUME Needed, NEW m \in Master
  PROVE  Grounded(m) <=> Grounded(needs[m])
<1>1. m # Super
  BY ReaderAssumption
<1> QED BY <1>1, BelowMaster DEF Grounded

LEMMA GroundedBelow ==
  ASSUME Needed, NEW m \in Identifier, Grounded(m), NEW x \in Below(m)
  PROVE  Grounded(x)
<1> DEFINE S == {y \in Below(m) : Grounded(y)}
<1>1. m \in Below(m) /\ Below(m) \subseteq Identifier /\ Closed(Below(m))
  BY BelowClosed
<1>2. S \in SUBSET Identifier /\ m \in S
  BY <1>1
<1>3. Closed(S)
  <2> SUFFICES ASSUME NEW y \in S \cap Master PROVE needs[y] \in S
    BY DEF Closed
  <2>1. needs[y] \in Below(m)
    BY <1>1 DEF Closed
  <2>2. Grounded(needs[y])
    BY GroundedNeeds
  <2> QED BY <2>1, <2>2
<1>4. Below(m) \subseteq S
  <2> HIDE DEF S
  <2> QED BY <1>2, <1>3, BelowLeast
<1> QED BY <1>4

\* Masters that need each other are not grounded.
LEMMA LoopNotGrounded ==
  ASSUME NEW S \in SUBSET Master, \A m \in S : needs[m] \in S, NEW x \in S
  PROVE  ~Grounded(x)
<1>1. S \in SUBSET Identifier /\ Closed(S) /\ Super \notin S
  BY ReaderAssumption DEF Identifier, Closed
<1> QED BY <1>1, BelowLeast DEF Grounded

LEMMA NotBelowItself ==
  ASSUME Needed, NEW m \in Master, Grounded(m)
  PROVE  m \notin Below(needs[m])
<1> DEFINE C == Below(needs[m])
           S == {y \in C : m \in Below(y)}
<1>1. needs[m] \in C /\ C \in SUBSET Identifier /\ Closed(C)
  BY BelowMaster, BelowClosed
<1>2. Super \in C
  BY GroundedNeeds DEF Grounded
<1>3. m # Super /\ m \notin Below(Super)
  BY BelowEnd, ReaderAssumption
<1> SUFFICES ASSUME m \in C PROVE FALSE
  OBVIOUS
<1>4. Closed(S)
  <2> SUFFICES ASSUME NEW y \in S \cap Master PROVE needs[y] \in S
    BY DEF Closed
  <2>1. needs[y] \in C
    BY <1>1 DEF Closed
  <2>2. m = y \/ m \in Below(needs[y])
    BY BelowMaster
  <2> QED BY <2>1, <2>2
<1>5. S \in SUBSET Identifier /\ needs[m] \in S
  BY <1>1
<1>6. C \subseteq S
  <2> HIDE DEF S
  <2> QED BY <1>4, <1>5, BelowLeast
<1> QED BY <1>2, <1>3, <1>6

\* On the way down from a grounded master only one needs each.
LEMMA OneNeeds ==
  ASSUME Needed, NEW m \in Identifier, Grounded(m),
         NEW p \in Below(m) \cap Master, NEW q \in Below(m) \cap Master, needs[p] = needs[q]
  PROVE  p = q
<1>1. ASSUME NEW a \in Below(m) \cap Master, NEW b \in Below(m) \cap Master,
             needs[a] = needs[b], b \in Below(a)
      PROVE  a = b
  <2>1. b \in {a} \cup Below(needs[a])
    BY <1>1, BelowMaster
  <2>2. b \notin Below(needs[b])
    BY GroundedBelow, NotBelowItself
  <2> QED BY <1>1, <2>1, <2>2
<1> DEFINE S == {y \in Below(m) : p \in Below(y) \/ y \in Below(p)}
<1>2. m \in Below(m) /\ Below(m) \subseteq Identifier /\ Closed(Below(m))
  BY BelowClosed
<1>3. p \in Identifier /\ p \in Below(p) /\ Closed(Below(p))
  BY <1>2, BelowClosed
<1>4. S \in SUBSET Identifier /\ m \in S
  BY <1>2
<1>5. Closed(S)
  <2> SUFFICES ASSUME NEW y \in S \cap Master PROVE needs[y] \in S
    BY DEF Closed
  <2>1. needs[y] \in Below(m)
    BY <1>2 DEF Closed
  <2>2. CASE p \in Below(y)
    <3>1. p = y \/ p \in Below(needs[y])
      BY <2>2, BelowMaster
    <3>2. p = y => needs[y] \in Below(p)
      BY <1>3 DEF Closed
    <3> QED BY <2>1, <3>1, <3>2
  <2>3. CASE y \in Below(p)
    <3>1. needs[y] \in Below(p)
      BY <1>3, <2>3 DEF Closed
    <3> QED BY <2>1, <3>1
  <2> QED BY <2>2, <2>3
<1>6. q \in S
  <2> HIDE DEF S
  <2>1. Below(m) \subseteq S
    BY <1>4, <1>5, BelowLeast
  <2> QED BY <2>1
<1>7. p \in Below(q) \/ q \in Below(p)
  BY <1>6
<1> QED BY <1>1, <1>7

LEMMA SameArchive ==
  ASSUME UNCHANGED archive, NEW m
  PROVE  Below(m)' = Below(m) /\ (Grounded(m)' <=> Grounded(m)) /\ (Intact(m)' <=> Intact(m))
<1>1. needs' = needs /\ damaged' = damaged
  BY DEF archive
<1> QED BY <1>1 DEF Below, Closed, Grounded, Intact

-----------------------------------------------------------------------------
(***************************************************************************)
(* The memory.                                                             *)
(***************************************************************************)

LEMMA AddBytes ==
  ASSUME NEW S \in SUBSET Master, NEW m \in Master \ S, IsFiniteSet(Bytes(S))
  PROVE  /\ IsFiniteSet(Bytes(S \cup {m}))
         /\ Cardinality(Bytes(S \cup {m})) = Cardinality(Bytes(S)) + Length[m]
<1> DEFINE own == {m} \X (1..Length[m])
           others == Bytes(S)
           f == [k \in 1..Length[m] |-> <<m, k>>]
<1>1. Length[m] \in Nat
  BY ReaderAssumption
<1>2. IsFiniteSet(1..Length[m]) /\ Cardinality(1..Length[m]) = Length[m]
  BY <1>1, FS_Interval
<1>3. f \in Bijection(1..Length[m], own)
  BY DEF Bijection, Injection, Surjection, IsInjective
<1>4. ExistsBijection(1..Length[m], own)
  BY <1>3 DEF ExistsBijection
<1>5. IsFiniteSet(own) /\ Cardinality(own) = Length[m]
  BY <1>2, <1>4, FS_Bijection
<1>6. Bytes(S \cup {m}) = others \cup own
  BY DEF Bytes
<1>7. others \cap own = {}
  BY DEF Bytes
<1>8. IsFiniteSet(others)
  OBVIOUS
<1> HIDE DEF own, others
<1>9. /\ IsFiniteSet(others \cup own)
      /\ Cardinality(others \cup own)
             = Cardinality(others) + Cardinality(own) - Cardinality(others \cap own)
  BY <1>5, <1>8, FS_Union
<1>10. Cardinality(others) \in Nat /\ Cardinality(others \cap own) = 0
  BY <1>7, <1>8, FS_CardinalityType, FS_EmptySet
<1>11. Cardinality(others \cup own) = Cardinality(others) + Length[m]
  BY <1>1, <1>5, <1>9, <1>10
<1> QED BY <1>6, <1>9, <1>11 DEF others

-----------------------------------------------------------------------------
(***************************************************************************)
(* The inductive invariant.                                                *)
(***************************************************************************)

\* The masters with a link, and the dictionaries that can be decoded with.
Linked == {m \in Master : neededBy[m] # None}
Usable(m) == m \in Decoded \cup {Super}

\* A call runs on an open reader, and nothing of it has been refused so far; between
\* calls nothing is linked.
Calls ==
    /\ busy => phase = "ready" /\ ~refused /\ call.master # None
    /\ ~busy => call = Idle /\ Linked = {}

\* The directory is known while the reader is ready, and nothing is decoded before.
Opened ==
    /\ phase \in {"new", "context", "closed"} => records = {}
    /\ phase = "ready" => records = Master
    /\ phase # "ready" => ~super
    /\ ~super => Decoded = {}

\* A link leads from a master to one that needs it, neither of them decoded, and on
\* to the entry's own master.
Links ==
    \A m \in Linked :
        /\ m \notin Decoded /\ neededBy[m] \notin Decoded
        /\ needs[neededBy[m]] = m
        /\ neededBy[m] \in Linked \cup {call.master}
        /\ neededBy[m] \in Below(call.master)

\* The walk has come to the cursor, which is grounded if the entry's master is; what
\* a linked master needs is linked too, or is the cursor.
Walks ==
    call.at = "walk" =>
        /\ super
        /\ call.cursor \in Below(call.master) \ {Super}
        /\ Grounded(call.cursor) <=> Grounded(call.master)
        /\ IF call.last = None THEN call.cursor = call.master /\ Linked = {}
           ELSE needs[call.last] = call.cursor
        /\ \A m \in Linked : needs[m] \in Linked \cup {call.cursor}

\* The master linked last is decoded after what it needs and before what needs it,
\* and the entry after its own master.
Decodes ==
    /\ call.at \in {"walk", "decode"} /\ call.last # None =>
          /\ call.last \in Linked \cup {call.master}
          /\ call.last \in Below(call.master) \ Decoded
    /\ call.at = "decode" =>
          /\ super /\ Grounded(call.master)
          /\ IF call.last = None THEN call.master \in Decoded /\ Linked = {}
             ELSE Usable(needs[call.last])
          /\ \A m \in Linked \ {call.last} : needs[m] \in Linked
    /\ call.at = "extract" => super /\ Usable(call.master) /\ Linked = {}
    /\ call.at = "super" => call.last = None /\ call.cursor = call.master /\ Linked = {}

\* What is decoded stands on what is decoded, and is right unless it stands on
\* something damaged.
Standing ==
    \A m \in Decoded :
        /\ Grounded(m) /\ super
        /\ needs[m] \in Master => needs[m] \in Decoded
        /\ data[m] = "right" <=> damaged \cap Below(m) = {}

Counted ==
    /\ IsFiniteSet(Bytes(Decoded))
    /\ allocated = Held
    /\ allocated <= MemoryLimit

ReaderInv ==
    /\ TypeOK
    /\ Counted
    /\ Standing
    /\ AnswersTrue
    /\ Calls
    /\ Opened
    /\ Links
    /\ Walks
    /\ Decodes

LEMMA InvNeeded == TypeOK => Needed /\ \A m \in Decoded : m \in Master
BY DEF TypeOK, Needed, Identifier, Decoded

\* A step that leaves the archive, the cache and the memory as they are.
LEMMA SameCache ==
  ASSUME ReaderInv, UNCHANGED <<archive, phase, records, super, data, allocated>>
  PROVE  Counted' /\ Standing' /\ Opened' /\ Decoded' = Decoded
<1>1. Decoded' = Decoded
  BY DEF Decoded
<1>2. Counted'
  BY <1>1 DEF ReaderInv, Counted, Held, Bytes
<1>3. Standing'
  BY <1>1 DEF ReaderInv, Standing, Grounded, Below, Closed, archive
<1>4. Opened'
  BY <1>1 DEF ReaderInv, Opened
<1> QED BY <1>1, <1>2, <1>3, <1>4

LEMMA SameAnswer ==
  ASSUME ReaderInv, UNCHANGED <<archive, answer>>
  PROVE  AnswersTrue'
BY DEF ReaderInv, AnswersTrue, Grounded, Intact, Below, Closed, archive

LEMMA Unlinked ==
  ASSUME TypeOK
  PROVE  Linked = {} <=> neededBy = [m \in Master |-> None]
BY DEF TypeOK, Linked

\* A call ends with a true answer, and leaves no link.
LEMMA ReturnKeeps ==
  ASSUME ReaderInv, busy, UNCHANGED <<archive, phase, records, super, data, allocated>>,
         neededBy' = [m \in Master |-> None], refused' \in BOOLEAN,
         NEW says \in {"data", "damaged", "limit", "exception"}, NEW short \in BOOLEAN,
         Return(says, short),
         says = "data" => Grounded(call.master) /\ Intact(call.master),
         says = "damaged" => ~Grounded(call.master) \/ ~Intact(call.master),
         says = "limit" <=> short
  PROVE  ReaderInv'
<1>1. /\ call' = Idle
      /\ answer' = [says |-> says, master |-> call.master, short |-> short]
      /\ needs' = needs /\ damaged' = damaged
  BY DEF Return, archive
<1>2. Counted' /\ Standing' /\ Opened' /\ Decoded' = Decoded
  BY SameCache
<1>3. call.master \in Master \cup {Super, Absent, None}
  BY DEF ReaderInv, TypeOK
<1>4. TypeOK'
  BY <1>1, <1>3 DEF ReaderInv, TypeOK, Idle, archive
<1>5. Linked' = {}
  BY DEF Linked
<1>6. Calls' /\ Links' /\ Walks' /\ Decodes'
  BY <1>1, <1>5 DEF Calls, Links, Walks, Decodes, busy, Idle
<1>7. AnswersTrue'
  <2>1. answer'.says = says /\ answer'.master = call.master /\ answer'.short = short
    BY <1>1
  <2>2. says = "data" => Grounded(answer.master)' /\ Intact(answer.master)'
    BY <1>1, <2>1 DEF Grounded, Intact, Below, Closed
  <2>3. says = "damaged" => ~Grounded(answer.master)' \/ ~Intact(answer.master)'
    BY <1>1, <2>1 DEF Grounded, Intact, Below, Closed
  <2> QED BY <2>1, <2>2, <2>3 DEF AnswersTrue
<1> QED BY <1>2, <1>4, <1>6, <1>7 DEF ReaderInv

-----------------------------------------------------------------------------
(***************************************************************************)
(* Opening and closing.                                                    *)
(***************************************************************************)

\* The memory of a reader that has read the directory.
LEMMA HeldType ==
  ASSUME ReaderInv
  PROVE  /\ Cardinality(records) \in Nat /\ Cardinality(records) * Record \in Nat
         /\ Cardinality(Bytes(Decoded)) \in Nat /\ allocated \in Nat
         /\ IsFiniteSet(records)
<1>1. IsFiniteSet(records)
  BY FS_Subset, ReaderAssumption DEF ReaderInv, TypeOK
<1>2. Cardinality(records) \in Nat /\ Record \in Nat
  BY <1>1, FS_CardinalityType, ReaderAssumption
<1> QED BY <1>1, <1>2, FS_CardinalityType DEF ReaderInv, Counted, TypeOK

\* Before the first call nothing is decoded.
LEMMA NotReady ==
  ASSUME ReaderInv, phase # "ready"
  PROVE  /\ ~busy /\ call = Idle /\ Linked = {}
         /\ ~super /\ Decoded = {}
BY DEF ReaderInv, Calls, Opened

LEMMA IdleKeeps ==
  ASSUME ~busy, call = Idle, call' = call, Linked' = {}
  PROVE  Calls' /\ Links' /\ Walks' /\ Decodes'
BY DEF Calls, Links, Walks, Decodes, busy, Idle

LEMMA EmptyCache ==
  ASSUME ~super', Decoded' = {}
  PROVE  IsFiniteSet(Bytes(Decoded)') /\ Cardinality(Bytes(Decoded)') = 0 /\ Standing'
<1>1. Bytes(Decoded)' = {}
  BY DEF Bytes
<1> QED BY <1>1, FS_EmptySet DEF Standing

\* A step of reader_init() adds what it allocates.
LEMMA OpeningKeeps ==
  ASSUME ReaderInv,
         OpenContext \/ ReadDirectory \/ EndScan \/ \E m \in Master : ScanMaster(m)
  PROVE  ReaderInv'
<1>1. /\ phase \in {"new", "context", "scan"} /\ UNCHANGED <<archive, super, data, neededBy, refused, call, answer>>
  BY DEF OpenContext, ReadDirectory, EndScan, ScanMaster, cache
<1>2. ~busy /\ call = Idle /\ Linked = {} /\ ~super /\ Decoded = {}
  BY <1>1, NotReady
<1>3. Linked' = {} /\ Decoded' = {} /\ ~super'
  BY <1>1, <1>2 DEF Linked, Decoded
<1>4. Calls' /\ Links' /\ Walks' /\ Decodes' /\ AnswersTrue'
  BY <1>1, <1>2, <1>3, IdleKeeps, SameAnswer
<1>5. IsFiniteSet(Bytes(Decoded)') /\ Cardinality(Bytes(Decoded)') = 0 /\ Standing'
  BY <1>3, EmptyCache
<1>6. /\ IsFiniteSet(records) /\ Cardinality(records) * Record \in Nat /\ allocated \in Nat
      /\ {Context, Directory, Record, Work} \subseteq Nat /\ MemoryLimit \in Nat
      /\ Cardinality(Bytes(Decoded)) = 0
  <2>1. Bytes(Decoded) = {}
    BY <1>2 DEF Bytes
  <2> QED BY <2>1, HeldType, FS_EmptySet, ReaderAssumption
<1>7. Opened' /\ TypeOK' /\ allocated' = Held' /\ allocated' <= MemoryLimit
  <2>1. CASE OpenContext
    <3>1. /\ phase = "new" /\ phase' = "context" /\ records' = records
          /\ Context <= MemoryLimit - allocated /\ allocated' = allocated + Context
      BY <2>1 DEF OpenContext, Allocate, Fits, cache
    <3>2. Opened' /\ TypeOK'
      BY <1>1, <1>3, <1>6, <3>1 DEF ReaderInv, Opened, TypeOK, archive
    <3>3. allocated = Cardinality(records) * Record
      BY <1>2, <1>6, <3>1 DEF ReaderInv, Counted, Held
    <3>4. Held' = Context + Cardinality(records) * Record
      BY <1>3, <1>5, <1>6, <3>1 DEF Held
    <3> QED BY <1>6, <3>1, <3>2, <3>3, <3>4
  <2>2. CASE ReadDirectory
    <3>1. /\ phase = "context" /\ phase' = "scan" /\ records' = records
          /\ Directory <= MemoryLimit - allocated /\ allocated' = allocated + Directory
      BY <2>2 DEF ReadDirectory, Allocate, Fits, cache
    <3>2. Opened' /\ TypeOK'
      BY <1>1, <1>3, <1>6, <3>1 DEF ReaderInv, Opened, TypeOK, archive
    <3>3. allocated = Context + Cardinality(records) * Record
      BY <1>2, <1>6, <3>1 DEF ReaderInv, Counted, Held
    <3>4. Held' = Context + Directory + Cardinality(records) * Record
      BY <1>3, <1>5, <1>6, <3>1 DEF Held
    <3> QED BY <1>6, <3>1, <3>2, <3>3, <3>4
  <2>3. CASE EndScan
    <3>1. /\ phase = "scan" /\ phase' = "ready" /\ records' = records /\ records = Master
          /\ allocated' = allocated
      BY <2>3 DEF EndScan, cache
    <3>2. Opened' /\ TypeOK'
      BY <1>1, <1>3, <1>6, <3>1 DEF ReaderInv, Opened, TypeOK, archive
    <3>3. allocated = Context + Directory + Cardinality(records) * Record /\ allocated <= MemoryLimit
      BY <1>2, <1>6, <3>1 DEF ReaderInv, Counted, Held
    <3>4. Held' = Context + Directory + Cardinality(records) * Record
      BY <1>3, <1>5, <1>6, <3>1 DEF Held
    <3> QED BY <1>6, <3>1, <3>2, <3>3, <3>4
  <2>4. ASSUME NEW m \in Master, ScanMaster(m)
        PROVE  Opened' /\ TypeOK' /\ allocated' = Held' /\ allocated' <= MemoryLimit
    <3>1. /\ phase = "scan" /\ phase' = "scan" /\ m \notin records /\ records' = records \cup {m}
          /\ Record <= MemoryLimit - allocated /\ allocated' = allocated + Record
      BY <2>4 DEF ScanMaster, Allocate, Fits
    <3>2. Opened' /\ TypeOK'
      BY <1>1, <1>3, <1>6, <3>1 DEF ReaderInv, Opened, TypeOK, archive
    <3>3. Cardinality(records') = Cardinality(records) + 1 /\ Cardinality(records) \in Nat
      BY <1>6, <3>1, FS_AddElement, FS_CardinalityType
    <3>4. Cardinality(records') * Record = Cardinality(records) * Record + Record
      BY <1>6, <3>3
    <3>5. allocated = Context + Directory + Cardinality(records) * Record
      BY <1>2, <1>6, <3>1 DEF ReaderInv, Counted, Held
    <3>6. Held' = Context + Directory + Cardinality(records') * Record
      BY <1>3, <1>5, <1>6, <3>1, <3>4 DEF Held
    <3> QED BY <1>6, <3>1, <3>2, <3>4, <3>5, <3>6
  <2> QED BY <2>1, <2>2, <2>3, <2>4
<1> QED BY <1>4, <1>5, <1>7 DEF ReaderInv, Counted

\* dispose() frees everything.
LEMMA DisposeKeeps ==
  ASSUME ReaderInv, OpenFails \/ Close
  PROVE  ReaderInv'
<1>1. /\ ~busy /\ Dispose /\ UNCHANGED <<archive, refused, call, answer>>
  BY NotReady DEF OpenFails, Close
<1>2. /\ phase' = "closed" /\ allocated' = 0 /\ records' = {} /\ super' = FALSE
      /\ data' = [m \in Master |-> None] /\ neededBy' = [m \in Master |-> None]
  BY <1>1 DEF Dispose
<1>3. Linked' = {} /\ Decoded' = {} /\ call = Idle
  BY <1>1, <1>2 DEF Linked, Decoded, ReaderInv, Calls
<1>4. Calls' /\ Links' /\ Walks' /\ Decodes' /\ AnswersTrue'
  BY <1>1, <1>3, IdleKeeps, SameAnswer
<1>5. IsFiniteSet(Bytes(Decoded)') /\ Cardinality(Bytes(Decoded)') = 0 /\ Standing'
  BY <1>2, <1>3, EmptyCache
<1>6. Opened' /\ TypeOK'
  BY <1>1, <1>2, <1>3 DEF ReaderInv, Opened, TypeOK, archive
<1>7. Counted'
  <2>1. Cardinality(records') * Record = 0 /\ MemoryLimit \in Nat
    BY <1>2, FS_EmptySet, ReaderAssumption
  <2> QED BY <1>2, <1>5, <2>1 DEF Counted, Held
<1> QED BY <1>4, <1>5, <1>6, <1>7 DEF ReaderInv

-----------------------------------------------------------------------------
(***************************************************************************)
(* The steps of a call.                                                    *)
(***************************************************************************)

LEMMA BeginKeeps ==
  ASSUME ReaderInv, NEW m \in Master \cup {Super, Absent}, Begin(m)
  PROVE  ReaderInv'
<1>1. /\ phase = "ready" /\ ~busy /\ call' = [Idle EXCEPT !.at = "super", !.master = m, !.cursor = m]
      /\ refused' = FALSE /\ UNCHANGED <<archive, phase, records, super, data, neededBy, allocated, answer>>
  BY DEF Begin, cache
<1>2. /\ call'.at = "super" /\ call'.master = m /\ call'.cursor = m /\ call'.last = None
      /\ Linked = {} /\ m # None
  BY <1>1, ReaderAssumption DEF Idle, ReaderInv, Calls
<1>3. Counted' /\ Standing' /\ Opened' /\ Decoded' = Decoded /\ AnswersTrue'
  BY <1>1, SameCache, SameAnswer
<1>4. Linked' = {}
  BY <1>1, <1>2 DEF Linked
<1>5. TypeOK'
  BY <1>1 DEF ReaderInv, TypeOK, archive, Idle
<1>6. Calls' /\ Links' /\ Walks' /\ Decodes'
  BY <1>1, <1>2, <1>4 DEF Calls, Links, Walks, Decodes, busy
<1> QED BY <1>3, <1>5, <1>6 DEF ReaderInv

LEMMA LoadSuperKeeps ==
  ASSUME ReaderInv, LoadSuper
  PROVE  ReaderInv'
<1>1. /\ call.at = "super" /\ ~super /\ super' = TRUE
      /\ SuperLength + Work <= MemoryLimit - allocated /\ allocated' = allocated + SuperLength
      /\ UNCHANGED <<archive, phase, records, data, neededBy, refused, call, answer>>
  BY DEF LoadSuper, Allocate, Fits
<1>2. phase = "ready" /\ Linked' = Linked /\ Decoded' = Decoded /\ Decoded = {}
  BY <1>1 DEF ReaderInv, Calls, Opened, Linked, Decoded, busy
<1>3. Opened' /\ Calls' /\ AnswersTrue'
  BY <1>1, <1>2, SameAnswer DEF ReaderInv, Opened, Calls, busy
<1>4. Links' /\ Walks' /\ Decodes'
  BY <1>1, <1>2 DEF ReaderInv, Links, Walks, Decodes
<1>5. Standing'
  BY <1>2 DEF Standing
<1>6. /\ {Context, Directory, SuperLength, Work} \subseteq Nat /\ MemoryLimit \in Nat
      /\ Cardinality(records) * Record \in Nat /\ Cardinality(Bytes(Decoded)) \in Nat
      /\ allocated \in Nat
  BY HeldType, ReaderAssumption
<1>7. Bytes(Decoded)' = Bytes(Decoded)
  BY <1>2 DEF Bytes
<1>8. Counted'
  <2>1. Held' = Held + SuperLength
    BY <1>1, <1>2, <1>6, <1>7 DEF Held
  <2> QED BY <1>1, <1>6, <1>7, <2>1 DEF ReaderInv, Counted
<1>9. TypeOK'
  BY <1>1, <1>6 DEF ReaderInv, TypeOK, archive
<1> QED BY <1>3, <1>4, <1>5, <1>8, <1>9 DEF ReaderInv

\* The walk begins at the entry's master.
LEMMA ResolveKeeps ==
  ASSUME ReaderInv, Resolve
  PROVE  ReaderInv'
<1>1. /\ call.at = "super" /\ super
      /\ call' = [call EXCEPT !.at = IF call.master = Super THEN "extract" ELSE "walk"]
      /\ UNCHANGED <<archive, phase, records, super, data, neededBy, allocated, refused, answer>>
  BY DEF Resolve, cache
<1>2. /\ call.master \in Identifier /\ call.last = None /\ call.cursor = call.master /\ Linked = {}
      /\ phase = "ready" /\ ~refused
  BY <1>1 DEF ReaderInv, TypeOK, Calls, Decodes, busy, Identifier
<1>3. /\ call'.at = IF call.master = Super THEN "extract" ELSE "walk"
      /\ call'.master = call.master /\ call'.cursor = call.cursor /\ call'.last = call.last
  BY <1>1 DEF ReaderInv, TypeOK
<1>4. Counted' /\ Standing' /\ Opened' /\ Decoded' = Decoded /\ AnswersTrue'
  BY <1>1, SameCache, SameAnswer
<1>5. Linked' = {}
  BY <1>1, <1>2 DEF Linked
<1>6. TypeOK'
  BY <1>1, <1>3 DEF ReaderInv, TypeOK, archive
<1>7. Calls' /\ Links'
  BY <1>1, <1>2, <1>3, <1>5, ReaderAssumption DEF Calls, Links, busy, Identifier
<1>8. call.master \in Below(call.master)
  BY <1>2, BelowClosed, InvNeeded DEF ReaderInv
<1>9. Below(call.master)' = Below(call.master)
  BY <1>1, <1>3 DEF Below, Closed, archive
<1>10. Walks'
  BY <1>1, <1>2, <1>3, <1>5, <1>8, <1>9 DEF Walks, Grounded
<1>11. Decodes'
  BY <1>1, <1>2, <1>3, <1>5 DEF Decodes, Usable
<1> QED BY <1>4, <1>6, <1>7, <1>10, <1>11 DEF ReaderInv

\* The walk that can go on is at a master with a record, and without a link.
LEMMA AtMaster ==
  ASSUME ReaderInv, call.at = "walk", ~Stuck
  PROVE  /\ phase = "ready" /\ ~refused /\ super
         /\ call.master \in Identifier
         /\ call.cursor \in Master /\ call.cursor \notin Linked
         /\ call.cursor \in Below(call.master) \ {Super}
         /\ Needed
<1>1. phase = "ready" /\ records = Master /\ ~refused /\ super
  BY DEF ReaderInv, Calls, Opened, Walks, busy
<1>2. call.cursor \in Master /\ call.cursor \notin Linked
  BY <1>1 DEF Stuck, Linked
<1>3. call.master \in Identifier
  BY DEF ReaderInv, Calls, TypeOK, Identifier, busy
<1> QED BY <1>1, <1>2, <1>3, InvNeeded DEF ReaderInv, Walks

\* It ends at a dictionary that is there: only the last master linked needs it.
LEMMA WalkEndsKeeps ==
  ASSUME ReaderInv, WalkEnds
  PROVE  ReaderInv'
<1>1. /\ call.at = "walk" /\ ~Stuck /\ data[call.cursor] # None
      /\ call' = [call EXCEPT !.at = "decode"]
      /\ UNCHANGED <<archive, phase, records, super, data, neededBy, allocated, refused, answer>>
  BY DEF WalkEnds, cache
<1> DEFINE c == call.cursor
           l == call.last
           w == call.master
<1>2. /\ phase = "ready" /\ ~refused /\ super /\ w \in Identifier /\ c \in Master /\ c \notin Linked
      /\ c \in Below(w) \ {Super} /\ Needed
  BY <1>1, AtMaster
<1>3. /\ call'.at = "decode" /\ call'.master = w /\ call'.cursor = c /\ call'.last = l
  BY <1>1 DEF ReaderInv, TypeOK
<1>4. Counted' /\ Standing' /\ Opened' /\ Decoded' = Decoded /\ AnswersTrue'
  BY <1>1, SameCache, SameAnswer
<1>5. Linked' = Linked /\ c \in Decoded
  BY <1>1, <1>2 DEF Linked, Decoded
<1>6. TypeOK'
  BY <1>1, <1>3 DEF ReaderInv, TypeOK, archive
<1>7. Calls'
  BY <1>1, <1>2, <1>3 DEF ReaderInv, Calls, busy
<1>8. Below(call.master)' = Below(w)
  BY <1>1, <1>3 DEF Below, Closed, archive
<1>9. Links'
  BY <1>1, <1>3, <1>4, <1>5, <1>8 DEF ReaderInv, Links, archive
<1>10. Grounded(w)
  <2>1. Grounded(c)
    BY <1>5 DEF ReaderInv, Standing
  <2> QED BY <1>1, <2>1 DEF ReaderInv, Walks
<1>11. ASSUME NEW m \in Linked \ {l} PROVE needs[m] \in Linked
  <2>1. l # None
    BY <1>1, <1>11 DEF ReaderInv, Walks
  <2>2. needs[l] = c /\ needs[m] \in Linked \cup {c}
    BY <1>1, <1>11, <2>1 DEF ReaderInv, Walks
  <2>3. l \in Master /\ l \in Below(w)
    BY <1>1, <2>1 DEF ReaderInv, Decodes, TypeOK
  <2>4. m \in Master /\ m \in Below(w)
    <3>1. neededBy[m] \in Below(w) /\ needs[neededBy[m]] = m /\ neededBy[m] \in Master /\ m \in Master
      BY <1>11 DEF ReaderInv, Links, Linked, TypeOK
    <3> QED BY <1>2, <3>1, BelowClosed DEF Closed
  <2>5. needs[m] # needs[l]
    BY <1>2, <1>10, <1>11, <2>3, <2>4, OneNeeds
  <2> QED BY <2>2, <2>5
<1>12. Decodes'
  <2>1. l # None => l \in Linked \cup {w} /\ l \in Below(w) \ Decoded /\ needs[l] = c
    BY <1>1 DEF ReaderInv, Decodes, Walks
  <2>2. l = None => c = w /\ Linked = {}
    BY <1>1 DEF ReaderInv, Walks
  <2>3. Grounded(call.master)' /\ needs' = needs
    BY <1>1, <1>8, <1>10 DEF Grounded, archive
  <2> QED BY <1>1, <1>2, <1>3, <1>4, <1>5, <1>8, <1>11, <2>1, <2>2, <2>3 DEF Decodes, Usable
<1>13. Walks'
  BY <1>3 DEF Walks
<1> QED BY <1>4, <1>6, <1>7, <1>9, <1>12, <1>13 DEF ReaderInv

\* It leaves a link and goes on to what the cursor needs.
LEMMA WalkKeeps ==
  ASSUME ReaderInv, Walk
  PROVE  ReaderInv'
<1> DEFINE c == call.cursor
           l == call.last
           w == call.master
<1>1. /\ call.at = "walk" /\ ~Stuck /\ data[c] = None
      /\ neededBy' = [neededBy EXCEPT ![c] = IF l # None THEN l ELSE @]
      /\ call' = [call EXCEPT !.at = IF needs[c] = Super THEN "decode" ELSE "walk",
                              !.last = c, !.cursor = needs[c]]
      /\ UNCHANGED <<archive, phase, records, super, data, allocated, refused, answer>>
  BY DEF Walk
<1>2. /\ phase = "ready" /\ ~refused /\ super /\ w \in Identifier /\ c \in Master /\ c \notin Linked
      /\ c \in Below(w) \ {Super} /\ Needed
  BY <1>1, AtMaster
<1>3. /\ call'.at = (IF needs[c] = Super THEN "decode" ELSE "walk")
      /\ call'.master = w /\ call'.cursor = needs[c] /\ call'.last = c
  BY <1>1 DEF ReaderInv, TypeOK
<1>4. Counted' /\ Standing' /\ Opened' /\ Decoded' = Decoded /\ AnswersTrue'
  BY <1>1, SameCache, SameAnswer
<1>5. c \notin Decoded /\ c # None
  BY <1>1, <1>2, ReaderAssumption DEF Decoded
<1>6. neededBy \in [Master -> Master \cup {None}] /\ l \in Master \cup {None}
  BY DEF ReaderInv, TypeOK
<1>7. /\ neededBy' \in [Master -> Master \cup {None}]
      /\ \A m \in Master \ {c} : neededBy'[m] = neededBy[m]
      /\ l # None => neededBy'[c] = l
      /\ l = None => neededBy'[c] = neededBy[c]
  BY <1>1, <1>2, <1>6
<1>8. Linked' = IF l = None THEN Linked ELSE Linked \cup {c}
  BY <1>2, <1>6, <1>7 DEF Linked
<1>9. l = None => c = w /\ Linked = {}
  BY <1>1 DEF ReaderInv, Walks
<1>10. TypeOK'
  <2>1. needs[c] \in Master \cup {Super, Absent, None}
    BY <1>2 DEF Needed, Identifier
  <2> QED BY <1>1, <1>2, <1>3, <1>7, <2>1 DEF ReaderInv, TypeOK, archive
<1>11. Calls'
  BY <1>1, <1>2, <1>3 DEF ReaderInv, Calls, busy
<1>12. Below(call.master)' = Below(w) /\ needs' = needs
  BY <1>1, <1>3 DEF Below, Closed, archive
<1>13. l # None => l \in Linked \cup {w} /\ l \in Below(w) \ Decoded /\ needs[l] = c /\ l \in Master
  BY <1>1, <1>6 DEF ReaderInv, Decodes, Walks
<1>14. Links'
  <2> SUFFICES ASSUME NEW m \in Linked'
               PROVE  /\ m \notin Decoded' /\ neededBy'[m] \notin Decoded'
                      /\ needs'[neededBy'[m]] = m
                      /\ neededBy'[m] \in Linked' \cup {call.master'}
                      /\ neededBy'[m] \in Below(call.master)'
    BY DEF Links
  <2>1. CASE m = c
    <3>1. l # None
      BY <1>2, <1>8, <2>1
    <3> QED BY <1>3, <1>4, <1>5, <1>7, <1>8, <1>12, <1>13, <2>1, <3>1
  <2>2. CASE m # c
    <3>1. m \in Linked /\ m \in Master \ {c} /\ neededBy'[m] = neededBy[m]
      BY <1>7, <1>8, <2>2 DEF Linked
    <3>2. /\ m \notin Decoded /\ neededBy[m] \notin Decoded /\ needs[neededBy[m]] = m
          /\ neededBy[m] \in Linked \cup {w} /\ neededBy[m] \in Below(w)
      BY <3>1 DEF ReaderInv, Links
    <3>3. Linked \subseteq Linked'
      BY <1>8
    <3> QED BY <1>3, <1>4, <1>12, <3>1, <3>2, <3>3
  <2> QED BY <2>1, <2>2
<1>15. needs[c] \in Below(w)
  BY <1>2, BelowClosed DEF Closed
<1>16. \A m \in Linked' : needs[m] \in Linked' \cup {needs[c]}
  BY <1>1, <1>8, <1>9 DEF ReaderInv, Walks
<1>17. /\ Grounded(c) <=> Grounded(needs[c])
       /\ Grounded(c) <=> Grounded(w)
       /\ needs[c] = Super => Grounded(needs[c])
  <2>1. Super \in Identifier
    BY DEF Identifier
  <2>2. Super \in Below(Super)
    BY <1>2, <2>1, BelowClosed
  <2> QED BY <1>1, <1>2, <2>2, GroundedNeeds DEF ReaderInv, Walks, Grounded
<1>18. Walks'
  <2> SUFFICES ASSUME needs[c] # Super PROVE Walks'
    BY <1>3 DEF Walks
  <2>1. Grounded(call.cursor)' <=> Grounded(call.master)'
    BY <1>3, <1>12, <1>17 DEF Grounded, Below, Closed
  <2> QED BY <1>1, <1>2, <1>3, <1>5, <1>12, <1>15, <1>16, <2>1 DEF Walks
<1>19. Decodes'
  <2>1. c \in Linked' \cup {w}
    BY <1>8, <1>9
  <2>2. Grounded(w) => Grounded(call.master)'
    BY <1>12 DEF Grounded
  <2>3. CASE needs[c] = Super
    <3>1. \A m \in Linked' \ {c} : needs[m] \in Linked'
      <4> SUFFICES ASSUME NEW m \in Linked' \ {c} PROVE needs[m] \in Linked'
        OBVIOUS
      <4>1. m \in Linked /\ needs[m] \in Linked \cup {c}
        BY <1>1, <1>8 DEF ReaderInv, Walks
      <4> QED BY <1>8, <1>9, <4>1
    <3> QED BY <1>1, <1>2, <1>3, <1>4, <1>5, <1>12, <1>17, <2>1, <2>2, <2>3, <3>1 DEF Decodes, Usable
  <2>4. CASE needs[c] # Super
    BY <1>2, <1>3, <1>4, <1>5, <1>12, <2>1, <2>4 DEF Decodes
  <2> QED BY <2>3, <2>4
<1> QED BY <1>4, <1>10, <1>11, <1>14, <1>18, <1>19 DEF ReaderInv

\* What a decode goes by.
LEMMA AtDecode ==
  ASSUME ReaderInv, call.at = "decode", call.last # None
  PROVE  /\ phase = "ready" /\ ~refused /\ super /\ Needed
         /\ call.master \in Identifier /\ Grounded(call.master)
         /\ call.last \in Master /\ call.last \notin Decoded
         /\ call.last \in Below(call.master)
         /\ call.last \in Linked \cup {call.master}
         /\ Usable(needs[call.last]) /\ needs[call.last] # call.last
<1>1. phase = "ready" /\ ~refused /\ super
  BY DEF ReaderInv, Calls, Decodes, busy
<1>2. /\ call.master \in Identifier /\ Grounded(call.master)
      /\ call.last \in Master /\ call.last \notin Decoded
      /\ call.last \in Below(call.master)
      /\ call.last \in Linked \cup {call.master}
      /\ Usable(needs[call.last])
  BY DEF ReaderInv, Calls, Decodes, TypeOK, Identifier, busy
<1>3. needs[call.last] # call.last
  BY <1>2, ReaderAssumption DEF Usable
<1> QED BY <1>1, <1>2, <1>3, InvNeeded DEF ReaderInv

\* A dictionary stands on what its own master stands on, and is right with it.
LEMMA DecodedStands ==
  ASSUME ReaderInv, call.at = "decode", call.last # None
  PROVE  /\ Grounded(call.last)
         /\ needs[call.last] \in Master => needs[call.last] \in Decoded
         /\ (call.last \in damaged \/ Sources(call.last) = "wrong")
                <=> damaged \cap Below(call.last) # {}
<1> DEFINE l == call.last
           n == needs[l]
<1>1. Needed /\ l \in Master /\ Usable(n)
  BY AtDecode
<1>2. n \in Decoded \cup {Super} /\ Super \notin Master
  BY <1>1, ReaderAssumption DEF Usable
<1>3. Below(l) = {l} \cup Below(n) /\ (Grounded(l) <=> Grounded(n))
  BY <1>1, BelowMaster, GroundedNeeds
<1>4. CASE n = Super
  <2>1. Below(Super) = {Super} /\ Super \notin damaged
    BY <1>1, BelowEnd, ReaderAssumption DEF ReaderInv, TypeOK
  <2>2. Sources(l) = "right" /\ Grounded(n)
    BY <1>4, <2>1 DEF Sources, Grounded
  <2> QED BY <1>2, <1>3, <1>4, <2>1, <2>2
<1>5. CASE n \in Decoded
  <2>1. /\ Sources(l) = data[n] /\ Grounded(n) /\ data[n] \in {"right", "wrong"}
        /\ data[n] = "right" <=> damaged \cap Below(n) = {}
    BY <1>2, <1>5 DEF ReaderInv, TypeOK, Standing, Sources, Decoded
  <2> QED BY <1>2, <1>3, <1>5, <2>1
<1> QED BY <1>2, <1>4, <1>5

LEMMA DecodeKeeps ==
  ASSUME ReaderInv, NEW result \in {"right", "wrong"}, Decode(result)
  PROVE  ReaderInv'
<1> DEFINE l == call.last
           w == call.master
           n == neededBy[l]
<1>1. /\ call.at = "decode" /\ l # None
      /\ Length[l] + Work <= MemoryLimit - allocated /\ allocated' = allocated + Length[l]
      /\ result = (IF l \in damaged \/ Sources(l) = "wrong" THEN "wrong" ELSE "right")
      /\ data' = [data EXCEPT ![l] = result]
      /\ neededBy' = [neededBy EXCEPT ![l] = None]
      /\ call' = [call EXCEPT !.last = n]
      /\ UNCHANGED <<archive, phase, records, super, refused, answer>>
  BY DEF Decode, Allocate, Fits
<1>2. /\ phase = "ready" /\ ~refused /\ super /\ Needed /\ w \in Identifier /\ Grounded(w)
      /\ l \in Master /\ l \notin Decoded /\ l \in Below(w) /\ l \in Linked \cup {w}
      /\ Usable(needs[l]) /\ needs[l] # l
  BY <1>1, AtDecode
<1>3. /\ neededBy \in [Master -> Master \cup {None}] /\ data \in [Master -> {None, "right", "wrong"}]
      /\ n \in Master \cup {None} /\ None \notin Master /\ result # None
  BY <1>2, ReaderAssumption DEF ReaderInv, TypeOK
<1>4. /\ call'.at = "decode" /\ call'.master = w /\ call'.cursor = call.cursor /\ call'.last = n
  BY <1>1 DEF ReaderInv, TypeOK
<1>5. /\ neededBy' \in [Master -> Master \cup {None}] /\ neededBy'[l] = None
      /\ \A m \in Master \ {l} : neededBy'[m] = neededBy[m]
      /\ data' \in [Master -> {None, "right", "wrong"}] /\ data'[l] = result
      /\ \A m \in Master \ {l} : data'[m] = data[m]
  BY <1>1, <1>2, <1>3
<1>6. Linked' = Linked \ {l} /\ Decoded' = Decoded \cup {l}
  BY <1>2, <1>3, <1>5 DEF Linked, Decoded
<1>7. Below(call.master)' = Below(w) /\ needs' = needs /\ damaged' = damaged
      /\ \A m \in Master : Below(m)' = Below(m) /\ (Grounded(m)' <=> Grounded(m))
  BY <1>1, <1>4 DEF Below, Grounded, Closed, archive
<1>8. AnswersTrue'
  BY <1>1, SameAnswer
<1>9. TypeOK'
  <2>1. allocated \in Nat /\ Length[l] \in Nat
    BY <1>2, HeldType, ReaderAssumption
  <2> QED BY <1>1, <1>3, <1>4, <1>5, <2>1 DEF ReaderInv, TypeOK, archive
<1>10. Calls' /\ Opened'
  BY <1>1, <1>2, <1>4 DEF ReaderInv, Calls, Opened, busy
<1>11. Counted'
  <2>1. Decoded \in SUBSET Master /\ l \in Master \ Decoded /\ IsFiniteSet(Bytes(Decoded))
    BY <1>2 DEF ReaderInv, Counted, Decoded
  <2>2. /\ IsFiniteSet(Bytes(Decoded \cup {l}))
        /\ Cardinality(Bytes(Decoded \cup {l})) = Cardinality(Bytes(Decoded)) + Length[l]
    BY <2>1, AddBytes
  <2>3. Bytes(Decoded)' = Bytes(Decoded \cup {l})
    BY <1>6 DEF Bytes
  <2>4. /\ {Context, Directory, SuperLength, Work} \subseteq Nat /\ MemoryLimit \in Nat
        /\ Cardinality(records) * Record \in Nat /\ Cardinality(Bytes(Decoded)) \in Nat
        /\ allocated \in Nat /\ Length[l] \in Nat
    BY <1>2, HeldType, ReaderAssumption
  <2>5. Held' = Held + Length[l]
    BY <1>1, <1>2, <2>2, <2>3, <2>4 DEF Held
  <2> QED BY <1>1, <2>2, <2>3, <2>4, <2>5 DEF ReaderInv, Counted
<1>12. Standing'
  <2> SUFFICES ASSUME NEW m \in Decoded'
               PROVE  /\ Grounded(m)' /\ super'
                      /\ needs'[m] \in Master => needs'[m] \in Decoded'
                      /\ data'[m] = "right" <=> damaged' \cap Below(m)' = {}
    BY DEF Standing
  <2>1. m \in Master
    BY <1>2, <1>6 DEF Decoded
  <2>2. CASE m = l
    <3>1. /\ Grounded(l) /\ (needs[l] \in Master => needs[l] \in Decoded)
          /\ (l \in damaged \/ Sources(l) = "wrong") <=> damaged \cap Below(l) # {}
      BY <1>1, DecodedStands
    <3> QED BY <1>1, <1>2, <1>5, <1>6, <1>7, <2>1, <2>2, <3>1
  <2>3. CASE m # l
    <3>1. m \in Decoded /\ data'[m] = data[m]
      BY <1>5, <1>6, <2>1, <2>3
    <3> QED BY <1>1, <1>2, <1>6, <1>7, <2>1, <3>1 DEF ReaderInv, Standing
  <2> QED BY <2>2, <2>3
<1>13. ASSUME NEW m \in Linked', neededBy[m] = l PROVE FALSE
  <2>1. m \in Linked /\ m \in Master
    BY <1>6 DEF Linked
  <2>2. needs[l] = m /\ m \notin Decoded
    BY <1>13, <2>1 DEF ReaderInv, Links
  <2> QED BY <1>2, <2>1, <2>2, ReaderAssumption DEF Usable
<1>14. Links'
  <2> SUFFICES ASSUME NEW m \in Linked'
               PROVE  /\ m \notin Decoded' /\ neededBy'[m] \notin Decoded'
                      /\ needs'[neededBy'[m]] = m
                      /\ neededBy'[m] \in Linked' \cup {call.master'}
                      /\ neededBy'[m] \in Below(call.master)'
    BY DEF Links
  <2>1. m \in Linked /\ m # l /\ m \in Master /\ neededBy'[m] = neededBy[m] /\ neededBy[m] # l
    BY <1>5, <1>6, <1>13 DEF Linked
  <2>2. /\ m \notin Decoded /\ neededBy[m] \notin Decoded /\ needs[neededBy[m]] = m
        /\ neededBy[m] \in Linked \cup {w} /\ neededBy[m] \in Below(w)
    BY <2>1 DEF ReaderInv, Links
  <2> QED BY <1>4, <1>6, <1>7, <2>1, <2>2
<1>15. Walks'
  BY <1>4 DEF Walks
<1>16. ASSUME NEW m \in Linked PROVE m \in Below(w) /\ m \in Master
  <2>1. neededBy[m] \in Below(w) /\ needs[neededBy[m]] = m /\ neededBy[m] \in Master /\ m \in Master
    BY DEF ReaderInv, Links, Linked, TypeOK
  <2> QED BY <1>2, <2>1, BelowClosed DEF Closed
<1>17. \A m \in Linked \ {l} : needs[m] \in Linked
  BY <1>1 DEF ReaderInv, Decodes
\* The chain ends with the entry's own master, and then nothing is linked.
<1>18. n = None => w = l /\ Linked' = {}
  <2> SUFFICES ASSUME n = None PROVE w = l /\ Linked' = {}
    OBVIOUS
  <2>1. l \notin Linked
    BY DEF Linked
  <2>2. Linked \in SUBSET Master /\ \A m \in Linked : needs[m] \in Linked
    BY <1>17, <2>1 DEF Linked
  <2>3. ASSUME NEW m \in Linked PROVE FALSE
    <3>1. ~Grounded(m)
      BY <2>2, LoopNotGrounded
    <3> QED BY <1>2, <1>16, <3>1, GroundedBelow
  <2> QED BY <1>2, <1>6, <2>1, <2>3
<1>19. n # None => /\ l \in Linked /\ n \in Linked' \cup {w} /\ n \in Below(w) \ Decoded'
                   /\ needs[n] = l /\ n \in Master
  <2> SUFFICES ASSUME n # None
               PROVE  /\ l \in Linked /\ n \in Linked' \cup {w} /\ n \in Below(w) \ Decoded'
                      /\ needs[n] = l /\ n \in Master
    OBVIOUS
  <2>1. l \in Linked
    BY <1>2 DEF Linked
  <2>2. n \notin Decoded /\ needs[n] = l /\ n \in Linked \cup {w} /\ n \in Below(w)
    BY <2>1 DEF ReaderInv, Links
  <2> QED BY <1>2, <1>3, <1>6, <2>1, <2>2
<1>20. ASSUME NEW m \in Linked' \ {n} PROVE needs[m] \in Linked'
  <2>1. m \in Linked /\ needs[m] \in Linked
    BY <1>6, <1>17
  <2>2. n # None
    BY <1>18, <1>20
  <2>3. needs[m] # needs[n]
    BY <1>2, <1>16, <1>19, <1>20, <2>1, <2>2, OneNeeds
  <2> QED BY <1>6, <1>19, <2>1, <2>2, <2>3
<1>21. Decodes'
  <2>1. Grounded(call.master)'
    BY <1>2, <1>7 DEF Grounded
  <2>2. n = None => w \in Decoded' /\ Linked' = {}
    BY <1>6, <1>18
  <2>3. n # None => needs'[n] \in Decoded' \cup {Super}
    BY <1>6, <1>7, <1>19
  <2>4. n # None => n \in Linked' \cup {w} /\ n \in Below(call.master)' \ Decoded'
    BY <1>7, <1>19
  <2>5. \A m \in Linked' \ {n} : needs'[m] \in Linked'
    BY <1>7, <1>20
  <2> QED BY <1>1, <1>2, <1>4, <2>1, <2>2, <2>3, <2>4, <2>5 DEF Decodes, Usable
<1> QED BY <1>8, <1>9, <1>10, <1>11, <1>12, <1>14, <1>15, <1>21 DEF ReaderInv

LEMMA ResolvedKeeps ==
  ASSUME ReaderInv, Resolved
  PROVE  ReaderInv'
<1>1. /\ call.at = "decode" /\ call.last = None /\ call' = [call EXCEPT !.at = "extract"]
      /\ UNCHANGED <<archive, phase, records, super, data, neededBy, allocated, refused, answer>>
  BY DEF Resolved, cache
<1>2. call'.at = "extract" /\ call'.master = call.master
      /\ call'.cursor = call.cursor /\ call'.last = call.last
  BY <1>1 DEF ReaderInv, TypeOK
<1>3. Counted' /\ Standing' /\ Opened' /\ Decoded' = Decoded /\ AnswersTrue'
  BY <1>1, SameCache, SameAnswer
<1>4. super /\ call.master \in Decoded /\ Linked = {} /\ Linked' = {}
  BY <1>1 DEF ReaderInv, Decodes, Linked
<1>5. TypeOK'
  BY <1>1, <1>2 DEF ReaderInv, TypeOK, archive
<1>6. Calls' /\ Links' /\ Walks' /\ Decodes'
  BY <1>1, <1>2, <1>3, <1>4 DEF ReaderInv, Calls, Links, Walks, Decodes, Usable, busy
<1> QED BY <1>3, <1>5, <1>6 DEF ReaderInv

-----------------------------------------------------------------------------
(***************************************************************************)
(* The ends of a call.                                                     *)
(***************************************************************************)

\* The walk gives up at a gap or at a link: at a gap nothing is grounded, and what is
\* linked needs only what is linked.
LEMMA WalkFailsKeeps ==
  ASSUME ReaderInv, WalkFails
  PROVE  ReaderInv'
<1>1. /\ call.at = "walk" /\ Stuck /\ UNCHANGED <<archive, phase, records, super, data, allocated>>
      /\ refused' = refused /\ neededBy' = [m \in Master |-> None] /\ busy
      /\ ~refused /\ phase = "ready" /\ records = Master /\ call.master \in Identifier
      /\ refused \in BOOLEAN
  BY DEF WalkFails, GivesUp, ReaderInv, Calls, Opened, TypeOK, Identifier, busy
<1>2. Return("damaged", FALSE)
  <2>1. Says = "damaged"
    BY <1>1 DEF Says
  <2> QED BY <2>1 DEF WalkFails, GivesUp
<1>3. ~Grounded(call.cursor)
  <2>1. call.cursor \in Identifier \ {Super}
    BY <1>1, BelowBelow, InvNeeded DEF ReaderInv, Walks
  <2>2. CASE call.cursor \notin Master
    <3>1. Below(Absent) = {Absent} /\ call.cursor = Absent /\ Absent # Super
      BY <2>1, <2>2, BelowEnd, InvNeeded, ReaderAssumption DEF ReaderInv, Identifier
    <3> QED BY <3>1 DEF Grounded
  <2>3. CASE call.cursor \in Master
    <3>1. call.cursor \in Linked
      BY <1>1, <2>3 DEF Stuck, Linked
    <3>2. Linked \in SUBSET Master /\ \A m \in Linked : needs[m] \in Linked
      BY <1>1, <3>1 DEF ReaderInv, Walks, Linked
    <3> QED BY <3>1, <3>2, LoopNotGrounded
  <2> QED BY <2>2, <2>3
<1>4. ~Grounded(call.master)
  BY <1>1, <1>3 DEF ReaderInv, Walks
<1> QED BY <1>1, <1>2, <1>4, ReturnKeeps

\* A decode that fails is of something damaged, which the entry's master stands on.
LEMMA DecodeFailsKeeps ==
  ASSUME ReaderInv, DecodeFails
  PROVE  ReaderInv'
<1>1. /\ call.at = "decode" /\ call.last # None
      /\ call.last \in damaged \/ Sources(call.last) = "wrong"
      /\ UNCHANGED <<archive, phase, records, super, data, allocated>>
      /\ refused' = refused /\ neededBy' = [m \in Master |-> None]
  BY DEF DecodeFails, GivesUp
<1>2. busy /\ ~refused /\ refused \in BOOLEAN
  BY <1>1 DEF ReaderInv, Calls, TypeOK, busy
<1>3. Return("damaged", FALSE)
  <2>1. Says = "damaged"
    BY <1>1, <1>2 DEF Says
  <2> QED BY <2>1 DEF DecodeFails, GivesUp
<1>4. damaged \cap Below(call.last) # {}
  BY <1>1, DecodedStands
<1>5. Below(call.last) \subseteq Below(call.master)
  BY <1>1, AtDecode, BelowBelow
<1>6. ~Intact(call.master)
  BY <1>4, <1>5 DEF Intact
<1> QED BY <1>1, <1>2, <1>3, <1>6, ReturnKeeps

\* The entry is decoded with its own dictionary, and compared with its checksum.
LEMMA ExtractKeeps ==
  ASSUME ReaderInv, Extract
  PROVE  ReaderInv'
<1> DEFINE w == call.master
<1>1. /\ call.at = "extract" /\ UNCHANGED <<archive, phase, records, super, data, allocated>>
      /\ refused' = refused /\ neededBy' = neededBy /\ busy
      /\ ~refused /\ w \in Identifier /\ Usable(w) /\ Linked = {} /\ refused \in BOOLEAN
      /\ Needed
  BY InvNeeded DEF Extract, ReaderInv, Calls, Decodes, TypeOK, Identifier, busy, cache
<1>2. neededBy' = [m \in Master |-> None]
  BY <1>1, Unlinked DEF ReaderInv
<1>3. Grounded(w) /\ (Wrong <=> ~Intact(w))
  <2>1. damaged \subseteq Master \cup {Entry}
    BY DEF ReaderInv, TypeOK
  <2>2. CASE w = Super
    <3>1. Below(w) = {Super} /\ Super \notin Master \cup {Entry}
      BY <1>1, <2>2, BelowEnd, ReaderAssumption
    <3> QED BY <2>1, <2>2, <3>1 DEF Grounded, Intact, Wrong
  <2>3. CASE w \in Decoded
    <3>1. Grounded(w) /\ (data[w] = "right" <=> damaged \cap Below(w) = {})
          /\ data[w] \in {"right", "wrong"} /\ w # Super
      BY <2>3, ReaderAssumption DEF ReaderInv, Standing, Decoded, TypeOK
    <3> QED BY <3>1 DEF Intact, Wrong
  <2> QED BY <1>1, <2>2, <2>3 DEF Usable
<1>4. CASE Wrong
  <2>1. Return("damaged", FALSE)
    <3>1. Says = "damaged"
      BY <1>1 DEF Says
    <3> QED BY <1>4, <3>1 DEF Extract
  <2> QED BY <1>1, <1>2, <1>3, <1>4, <2>1, ReturnKeeps
<1>5. CASE ~Wrong
  <2>1. Return("data", FALSE)
    BY <1>5 DEF Extract
  <2> QED BY <1>1, <1>2, <1>3, <1>5, <2>1, ReturnKeeps
<1> QED BY <1>4, <1>5

\* A refused allocation is what a call says of itself, and of no later one.
LEMMA CutOffKeeps ==
  ASSUME ReaderInv, Refuse \/ Raise
  PROVE  ReaderInv'
<1>1. CASE Refuse
  <2>1. /\ busy /\ UNCHANGED <<archive, phase, records, super, data, allocated>>
        /\ refused' = TRUE /\ neededBy' = [m \in Master |-> None] /\ Return("limit", TRUE)
    BY <1>1 DEF Refuse, GivesUp, Says
  <2> QED BY <2>1, ReturnKeeps
<1>2. CASE Raise
  <2>1. /\ UNCHANGED <<archive, phase, records, super, data, allocated>>
        /\ refused' = refused /\ neededBy' = [m \in Master |-> None] /\ Return("exception", FALSE)
        /\ Asks > 0
    BY <1>2 DEF Raise, GivesUp
  <2>2. busy
    BY <2>1 DEF Asks, busy
  <2>3. refused \in BOOLEAN
    BY DEF ReaderInv, TypeOK
  <2> QED BY <2>1, <2>2, <2>3, ReturnKeeps
<1> QED BY <1>1, <1>2

-----------------------------------------------------------------------------
(***************************************************************************)
(* Every run.                                                              *)
(***************************************************************************)

LEMMA InitReader == Init => ReaderInv
<1> SUFFICES ASSUME Init PROVE ReaderInv
  OBVIOUS
<1>1. /\ phase = "new" /\ records = {} /\ super = FALSE /\ allocated = 0 /\ refused = FALSE
      /\ call = Idle /\ answer = Unasked /\ data = [m \in Master |-> None]
      /\ neededBy = [m \in Master |-> None]
  BY DEF Init
<1>2. Linked = {} /\ Decoded = {}
  BY <1>1 DEF Linked, Decoded
<1>3. TypeOK
  <2>1. call \in [at : {"idle", "super", "walk", "decode", "extract"},
                  master : Master \cup {Super, Absent, None},
                  cursor : Master \cup {Super, Absent, None}, last : Master \cup {None}]
    BY <1>1 DEF Idle
  <2>2. answer \in [says : {"nothing", "data", "damaged", "limit", "exception"},
                    master : Master \cup {Super, Absent, None}, short : BOOLEAN]
    BY <1>1 DEF Unasked
  <2>3. needs \in [Master -> Master \cup {Super, Absent}] /\ damaged \subseteq Master \cup {Entry}
    BY DEF Init
  <2> QED BY <1>1, <2>1, <2>2, <2>3 DEF TypeOK
<1>4. Counted
  <2>1. Bytes(Decoded) = {}
    BY <1>2 DEF Bytes
  <2>2. Cardinality(records) * Record = 0 /\ MemoryLimit \in Nat
    BY <1>1, FS_EmptySet, ReaderAssumption
  <2> QED BY <1>1, <2>1, <2>2, FS_EmptySet DEF Counted, Held
<1>5. Standing /\ AnswersTrue
  BY <1>1, <1>2 DEF Standing, AnswersTrue, Unasked
<1>6. Calls /\ Opened /\ Links /\ Walks /\ Decodes
  BY <1>1, <1>2 DEF Calls, Opened, Links, Walks, Decodes, Idle, busy
<1> QED BY <1>3, <1>4, <1>5, <1>6 DEF ReaderInv

LEMMA NextReader ==
  ASSUME ReaderInv, [Next]_vars
  PROVE  ReaderInv'
<1>1. CASE OpenContext \/ ReadDirectory \/ EndScan \/ \E m \in Master : ScanMaster(m)
  BY <1>1, OpeningKeeps
<1>2. CASE OpenFails \/ Close
  BY <1>2, DisposeKeeps
<1>3. CASE \E m \in Master \cup {Super, Absent} : Begin(m)
  BY <1>3, BeginKeeps
<1>4. CASE Step
  BY <1>4, LoadSuperKeeps, ResolveKeeps, WalkFailsKeeps, WalkEndsKeeps, WalkKeeps, DecodeKeeps,
     DecodeFailsKeeps, ResolvedKeeps, ExtractKeeps, CutOffKeeps DEF Step
<1>5. CASE UNCHANGED vars
  <2>1. /\ UNCHANGED <<archive, phase, records, super, data, neededBy, allocated, refused, call, answer>>
        /\ needs' = needs /\ damaged' = damaged
    BY <1>5 DEF vars, cache, archive
  <2>2. Counted' /\ Standing' /\ Opened' /\ Decoded' = Decoded /\ AnswersTrue'
    BY <2>1, SameCache, SameAnswer
  <2>3. Linked' = Linked
    BY <2>1 DEF Linked
  <2>4. TypeOK' /\ Calls'
    BY <2>1, <2>3 DEF ReaderInv, TypeOK, Calls, busy
  <2>5. Links' /\ Walks' /\ Decodes'
    BY <2>1, <2>2, <2>3 DEF ReaderInv, Links, Walks, Decodes, Usable, Below, Grounded, Closed
  <2> QED BY <2>2, <2>4, <2>5 DEF ReaderInv
<1> QED BY <1>1, <1>2, <1>3, <1>4, <1>5 DEF Next

LEMMA Reads == Spec => []ReaderInv
<1>1. Init => ReaderInv
  BY InitReader
<1>2. ReaderInv /\ [Next]_vars => ReaderInv'
  BY NextReader
<1> QED BY <1>1, <1>2, PTL DEF Spec

\* What is decoded stands on what is decoded and is right, and the memory counted is
\* the memory held, within the limit (resolve_master() of decompress.c over allocate()
\* of native.c).
THEOREM CacheStands == Spec => []CachedRight
<1>1. ReaderInv => CachedRight
  <2> SUFFICES ASSUME ReaderInv, NEW m \in Master, data[m] # None
               PROVE  /\ Grounded(m) /\ super
                      /\ needs[m] \in Master => data[needs[m]] # None
                      /\ data[m] = "right" <=> damaged \cap Below(m) = {}
    BY DEF ReaderInv, Counted, CachedRight
  <2> QED BY DEF ReaderInv, Standing, Decoded
<1> QED BY <1>1, Reads, PTL

\* Data is given only of intact entries, damage told only of damaged ones, a cycle or
\* a gap in the needs included, and the limit only by a call that was refused memory
\* (set_error() of native.c).
THEOREM SaysTrue == Spec => []AnswersTrue
<1>1. ReaderInv => AnswersTrue
  BY DEF ReaderInv
<1> QED BY <1>1, Reads, PTL

-----------------------------------------------------------------------------
(***************************************************************************)
(* The match finder.  Numbers: the least of a set, what is defined step by *)
(* step, and remainders.                                                   *)
(***************************************************************************)
LEMMA LeastNat ==
  ASSUME NEW S \in SUBSET Nat, S # {}
  PROVE  \E x \in S : \A y \in S : x <= y
<1> DEFINE R == OpToRel(<, Nat)
<1>1. IsWellFoundedOn(R, Nat)
  BY NatLessThanWellFounded
<1>2. \A x, y \in Nat : x < y => <<x, y>> \in R
  BY DEF OpToRel
<1> HIDE DEF R
<1>3. PICK x \in S : \A y \in S : ~(<<y, x>> \in R)
  BY <1>1, WFMin, Zenon
<1>4. ASSUME NEW y \in S PROVE x <= y
  <2>1. x \in Nat /\ y \in Nat /\ ~(y < x)
    BY <1>2, <1>3
  <2> QED BY <2>1
<1> QED BY <1>4

LEMMA GreatestNat ==
  ASSUME NEW n \in Nat, NEW S \in SUBSET (0..n), S # {}
  PROVE  \E x \in S : \A y \in S : y <= x
<1> DEFINE T == {k \in 0..n : n - k \in S}
<1>1. ASSUME NEW y \in S PROVE n - y \in T
  <2>1. n - y \in 0..n /\ n - (n - y) = y
    OBVIOUS
  <2> QED BY <2>1
<1>2. PICK y \in S : TRUE
  OBVIOUS
<1>3. T \in SUBSET Nat
  OBVIOUS
<1>7. n - y \in T
  BY <1>1, <1>2
<1> HIDE DEF T
<1>4. PICK x \in T : \A z \in T : x <= z
  BY <1>3, <1>7, LeastNat
<1>5. x \in 0..n /\ n - x \in S
  BY DEF T
<1>6. ASSUME NEW z \in S PROVE z <= n - x
  <2>1. x <= n - z /\ z \in 0..n
    BY <1>1, <1>4
  <2> QED BY <2>1, <1>5
<1> QED BY <1>5, <1>6

LEMMA CountUp ==
  ASSUME NEW L \in Nat, NEW S, 0 \in S, \A n \in 1..L : n - 1 \in S => n \in S
  PROVE  \A n \in 0..L : n \in S
<1> DEFINE B == {n \in 0..L : n \notin S}
<1>1. ASSUME B # {} PROVE FALSE
  <2>1. B \in SUBSET Nat
    OBVIOUS
  <2>2. PICK x \in B : \A y \in B : x <= y
    BY <1>1, <2>1, LeastNat
  <2>3. x \in 1..L /\ x \notin S
    <3>1. x \in 0..L /\ x \notin S
      OBVIOUS
    <3>2. x # 0
      BY <3>1
    <3> QED BY <3>1, <3>2
  <2>4. x - 1 \in 0..L /\ ~(x <= x - 1)
    BY <2>3
  <2>5. x - 1 \in S
    BY <2>2, <2>4
  <2> QED BY <2>3, <2>5
<1> QED BY <1>1

\* What a recursion along the numbers defines exists.
Defines(L, V, v0, F) == \E f \in [0..L -> V] : f[0] = v0 /\ \A n \in 1..L : f[n] = F[f[n - 1], n]

LEMMA Recursion ==
  ASSUME NEW L \in Nat, NEW V, NEW v0 \in V, NEW F \in [V \X (1..L) -> V]
  PROVE  Defines(L, V, v0, F)
<1> DEFINE Is(f, m) == f[0] = v0 /\ \A n \in 1..m : f[n] = F[f[n - 1], n]
           S == {m \in 0..L : \E f \in [0..m -> V] : Is(f, m)}
<1>1. 0 \in S
  <2> DEFINE g == [i \in 0..0 |-> v0]
  <2>1. g \in [0..0 -> V] /\ g[0] = v0
    OBVIOUS
  <2>2. Is(g, 0) /\ 0 \in 0..L
    BY <2>1
  <2> HIDE DEF g, Is
  <2> QED BY <2>1, <2>2
<1>2. ASSUME NEW m \in 1..L, m - 1 \in S PROVE m \in S
  <2>1. PICK f \in [0..m - 1 -> V] : Is(f, m - 1)
    BY <1>2
  <2> DEFINE g == [i \in 0..m |-> IF i = m THEN F[f[m - 1], m] ELSE f[i]]
  <2>2. f[m - 1] \in V
    <3>1. m - 1 \in 0..m - 1
      OBVIOUS
    <3> QED BY <3>1
  <2>3. F[f[m - 1], m] \in V
    BY <2>2
  <2>4. g \in [0..m -> V]
    <3>1. ASSUME NEW i \in 0..m, i # m PROVE f[i] \in V
      <4>1. i \in 0..m - 1
        BY <3>1
      <4> QED BY <4>1
    <3> QED BY <2>3, <3>1
  <2>5. Is(g, m)
    <3>1. g[0] = v0
      <4>1. 0 # m /\ 0 \in 0..m
        OBVIOUS
      <4> QED BY <2>1, <4>1
    <3>2. ASSUME NEW n \in 1..m PROVE g[n] = F[g[n - 1], n]
      <4>1. n \in 0..m /\ n - 1 \in 0..m /\ n - 1 # m
        OBVIOUS
      <4>2. g[n - 1] = f[n - 1]
        BY <4>1
      <4>3. CASE n = m
        BY <4>1, <4>2, <4>3
      <4>4. CASE n # m
        <5>1. n \in 1..m - 1
          BY <4>4
        <5>2. f[n] = F[f[n - 1], n]
          BY <2>1, <5>1
        <5> QED BY <4>1, <4>2, <4>4, <5>2
      <4> QED BY <4>3, <4>4
    <3> QED BY <3>1, <3>2
  <2>6. m \in 0..L
    OBVIOUS
  <2> HIDE DEF g, Is
  <2> QED BY <2>4, <2>5, <2>6
<1> HIDE DEF S
<1>3. \A n \in 0..L : n \in S
  BY <1>1, <1>2, CountUp
<1>4. L \in S
  BY <1>3
<1> QED BY <1>4 DEF S, Defines

LEMMA ModRange ==
  ASSUME NEW B \in Nat \ {0}, NEW a \in Int
  PROVE  a \div B \in Int /\ a % B \in 0..B - 1 /\ a = B * (a \div B) + (a % B)
OBVIOUS

LEMMA NextMultiple ==
  ASSUME NEW B \in Nat \ {0}, NEW q \in Int, NEW p \in Int, q > p
  PROVE  B * q >= B * p + B
OBVIOUS

LEMMA ModUnique ==
  ASSUME NEW B \in Nat \ {0}, NEW q \in Int, NEW r \in 0..B - 1, NEW a \in Int, a = B * q + r
  PROVE  a % B = r
<1>1. a \div B \in Int /\ a % B \in 0..B - 1 /\ a = B * (a \div B) + (a % B)
  BY ModRange
<1>2. ~(a \div B > q)
  BY <1>1, NextMultiple
<1>3. ~(a \div B < q)
  BY <1>1, NextMultiple
<1> QED
  BY <1>1, <1>2, <1>3

\* Two numbers less than B apart and equal modulo B are equal.
LEMMA ModSame ==
  ASSUME NEW B \in Nat \ {0}, NEW a \in Int, NEW b \in Int, a % B = b % B, a - b < B, b - a < B
  PROVE  a = b
<1> DEFINE p == a \div B
           q == b \div B
<1>1. p \in Int /\ q \in Int /\ a = B * p + (a % B) /\ b = B * q + (a % B) /\ a % B \in Int
  BY ModRange
<1> HIDE DEF p, q
<1>2. ~(p > q)
  <2>1. ASSUME p > q PROVE FALSE
    <3>1. B * p >= B * q + B
      BY <1>1, <2>1, NextMultiple
    <3> QED BY <1>1, <3>1
  <2> QED BY <2>1
<1>3. ~(q > p)
  <2>1. ASSUME q > p PROVE FALSE
    <3>1. B * q >= B * p + B
      BY <1>1, <2>1, NextMultiple
    <3> QED BY <1>1, <3>1
  <2> QED BY <2>1
<1>4. p = q
  BY <1>1, <1>2, <1>3
<1> QED BY <1>1, <1>4

LEMMA ModLess ==
  ASSUME NEW B \in Nat \ {0}, NEW a \in 0..B - 1
  PROVE  a % B = a
<1>1. a = B * 0 + a
  OBVIOUS
<1> QED BY <1>1, ModUnique

LEMMA ModBack ==
  ASSUME NEW B \in Nat \ {0}, NEW a \in Int
  PROVE  (a - B) % B = a % B
<1> DEFINE q == a \div B
           m == a % B
<1>1. m \in 0..B - 1 /\ q \in Int /\ a = B * q + m
  BY ModRange
<1> HIDE DEF q, m
<1>2. a - B = B * (q - 1) + m /\ q - 1 \in Int
  BY <1>1
<1>3. (a - B) % B = m
  BY <1>1, <1>2, ModUnique
<1> QED BY <1>3 DEF m

\* A run of equal bytes d behind repeats the d bytes before it.
LEMMA Periodic ==
  ASSUME NEW w, NEW p \in Nat, NEW d \in 1..p, NEW n \in Nat,
         \A j \in 0..n - 1 : w[p - d + j + 1] = w[p + j + 1]
  PROVE  \A j \in 0..n - 1 : w[p - d + 1 + (j % d)] = w[p + j + 1]
<1> DEFINE B == {j \in 0..n - 1 : w[p - d + 1 + (j % d)] # w[p + j + 1]}
<1>1. ASSUME B # {} PROVE FALSE
  <2>1. B \in SUBSET Nat
    OBVIOUS
  <2>2. PICK j \in B : \A i \in B : j <= i
    BY <1>1, <2>1, LeastNat
  <2>3. j \in 0..n - 1 /\ w[p - d + 1 + (j % d)] # w[p + j + 1]
    BY <2>2
  <2>4. CASE j < d
    <3>1. j % d = j
      BY <2>3, <2>4, ModLess
    <3>2. p - d + 1 + j = p - d + j + 1
      BY <2>3
    <3> QED BY <2>3, <3>1, <3>2
  <2>5. CASE j >= d
    <3>1. j - d \in 0..n - 1 /\ j - d < j
      BY <2>3, <2>5
    <3>2. j - d \notin B
      BY <2>2, <2>3, <3>1
    <3>3. w[p - d + 1 + ((j - d) % d)] = w[p + (j - d) + 1]
      BY <3>1, <3>2
    <3>4. (j - d) % d = j % d
      <4>1. d \in Nat \ {0} /\ j \in Int
        BY <2>3
      <4> HIDE DEF B
      <4> QED BY <4>1, ModBack
    <3>5. p + (j - d) + 1 = p - d + j + 1
      BY <2>3
    <3> QED BY <2>3, <3>3, <3>4, <3>5
  <2> QED BY <2>3, <2>4, <2>5
<1> QED BY <1>1

-----------------------------------------------------------------------------
(***************************************************************************)
(* What tokens stand for, token by token and block by block.               *)
(***************************************************************************)
After(f, sofar, toks, L) == f = [n \in 0..L |-> IF n = 0 THEN sofar ELSE f[n - 1] \o CopyOf(f[n - 1], toks[n])]
StepByStep(f, sofar, toks, L) == f[0] = sofar /\ \A n \in 1..L : f[n] = f[n - 1] \o CopyOf(f[n - 1], toks[n])

LEMMA AfterSteps ==
  ASSUME NEW f, NEW sofar, NEW toks, NEW L \in Nat, After(f, sofar, toks, L)
  PROVE  StepByStep(f, sofar, toks, L)
<1>1. \A n \in 0..L : f[n] = IF n = 0 THEN sofar ELSE f[n - 1] \o CopyOf(f[n - 1], toks[n])
  <2>1. ASSUME NEW n \in 0..L
        PROVE  [k \in 0..L |-> IF k = 0 THEN sofar ELSE f[k - 1] \o CopyOf(f[k - 1], toks[k])][n]
                  = IF n = 0 THEN sofar ELSE f[n - 1] \o CopyOf(f[n - 1], toks[n])
    OBVIOUS
  <2> QED BY <2>1, Zenon DEF After
<1>2. 0 \in 0..L /\ \A n \in 1..L : n \in 0..L /\ n # 0
  OBVIOUS
<1> QED BY <1>1, <1>2, Zenon DEF StepByStep

LEMMA AfterExists ==
  ASSUME NEW sofar, NEW toks, NEW L \in Nat
  PROVE  \E f : After(f, sofar, toks, L)
<1> DEFINE S == {m \in 0..L : \E f : After(f, sofar, toks, m)}
<1>1. 0 \in S
  <2> DEFINE g == [n \in 0..0 |-> sofar]
  <2>1. ASSUME NEW n \in 0..0 PROVE sofar = IF n = 0 THEN sofar ELSE g[n - 1] \o CopyOf(g[n - 1], toks[n])
    OBVIOUS
  <2>2. g = [n \in 0..0 |-> IF n = 0 THEN sofar ELSE g[n - 1] \o CopyOf(g[n - 1], toks[n])]
    BY <2>1, Zenon
  <2>3. After(g, sofar, toks, 0)
    BY <2>2, Zenon DEF After
  <2>4. 0 \in 0..L
    OBVIOUS
  <2> QED BY <2>3, <2>4, Zenon
<1>2. ASSUME NEW m \in 1..L, m - 1 \in S PROVE m \in S
  <2>1. PICK f : After(f, sofar, toks, m - 1)
    BY <1>2
  <2>2. f[0] = sofar /\ \A n \in 1..m - 1 : f[n] = f[n - 1] \o CopyOf(f[n - 1], toks[n])
    <3>1. m - 1 \in Nat
      OBVIOUS
    <3>2. StepByStep(f, sofar, toks, m - 1)
      BY <2>1, <3>1, AfterSteps
    <3> QED BY <3>2 DEF StepByStep
  <2> DEFINE g == [n \in 0..m |-> IF n = m THEN f[m - 1] \o CopyOf(f[m - 1], toks[m]) ELSE f[n]]
  <2>3. \A n \in 0..m : g[n] = IF n = m THEN f[m - 1] \o CopyOf(f[m - 1], toks[m]) ELSE f[n]
    OBVIOUS
  <2>4. DOMAIN g = 0..m /\ g = [n \in 0..m |-> g[n]]
    OBVIOUS
  <2> HIDE DEF g
  <2>5. ASSUME NEW n \in 0..m PROVE g[n] = IF n = 0 THEN sofar ELSE g[n - 1] \o CopyOf(g[n - 1], toks[n])
    <3>1. CASE n = 0
      <4>1. n # m
        BY <3>1
      <4> QED BY <2>2, <2>3, <3>1, <4>1, Zenon
    <3>2. CASE n # 0 /\ n = m
      <4>1. n - 1 \in 0..m /\ n - 1 # m
        BY <3>2
      <4>2. g[n - 1] = f[n - 1]
        BY <2>3, <4>1, Zenon
      <4> QED BY <2>3, <3>2, <4>2, Zenon
    <3>3. CASE n # 0 /\ n # m
      <4>1. n \in 1..m - 1 /\ n - 1 \in 0..m /\ n - 1 # m
        BY <3>3
      <4>2. g[n - 1] = f[n - 1] /\ g[n] = f[n]
        BY <2>3, <3>3, <4>1, Zenon
      <4> QED BY <2>2, <3>3, <4>1, <4>2, Zenon
    <3> QED BY <3>1, <3>2, <3>3
  <2>6. After(g, sofar, toks, m)
    BY <2>4, <2>5, Zenon DEF After
  <2>7. m \in 0..L
    OBVIOUS
  <2> QED BY <2>6, <2>7, Zenon
<1> HIDE DEF S
<1>3. L \in S
  <2>1. \A n \in 0..L : n \in S
    BY <1>1, <1>2, CountUp
  <2> QED BY <2>1
<1> QED BY <1>3 DEF S

LEMMA AfterSame ==
  ASSUME NEW sofar, NEW toks, NEW more, NEW L \in Nat, NEW M \in Nat, L <= M, NEW f, NEW g,
         After(f, sofar, toks, L), After(g, sofar, more, M), \A i \in 1..L : toks[i] = more[i]
  PROVE  f[L] = g[L]
<1> DEFINE S == {n \in 0..L : f[n] = g[n]}
<1>0. StepByStep(f, sofar, toks, L) /\ StepByStep(g, sofar, more, M)
  BY AfterSteps
<1>1. f[0] = sofar /\ \A n \in 1..L : f[n] = f[n - 1] \o CopyOf(f[n - 1], toks[n])
  BY <1>0 DEF StepByStep
<1>2. g[0] = sofar /\ \A n \in 1..M : g[n] = g[n - 1] \o CopyOf(g[n - 1], more[n])
  BY <1>0 DEF StepByStep
<1>3. 0 \in S
  BY <1>1, <1>2
<1>4. ASSUME NEW n \in 1..L, n - 1 \in S PROVE n \in S
  <2>1. n \in 1..M /\ n \in 0..L /\ f[n - 1] = g[n - 1] /\ toks[n] = more[n]
    BY <1>4
  <2>2. f[n] = f[n - 1] \o CopyOf(f[n - 1], toks[n]) /\ g[n] = g[n - 1] \o CopyOf(g[n - 1], more[n])
    BY <1>1, <1>2, <2>1, Zenon
  <2>3. f[n] = g[n]
    BY <2>1, <2>2, Zenon
  <2> QED BY <2>1, <2>3
<1>5. L \in S
  <2> HIDE DEF S
  <2>1. \A n \in 0..L : n \in S
    BY <1>3, <1>4, CountUp
  <2> QED BY <2>1
<1> QED BY <1>5

LEMMA ExpandedIs ==
  ASSUME NEW sofar, NEW toks, Len(toks) \in Nat
  PROVE  \E f : After(f, sofar, toks, Len(toks)) /\ Expanded(sofar, toks) = f[Len(toks)]
<1> DEFINE Is(f) == f = [n \in 0..Len(toks) |-> IF n = 0 THEN sofar ELSE f[n - 1] \o CopyOf(f[n - 1], toks[n])]
           after == CHOOSE f : Is(f)
<1>1. Expanded(sofar, toks) = after[Len(toks)]
  BY DEF Expanded
<1>2. \E f : Is(f)
  <2>1. PICK f : After(f, sofar, toks, Len(toks))
    BY AfterExists
  <2>2. Is(f)
    BY <2>1, Zenon DEF After
  <2> HIDE DEF Is
  <2> QED BY <2>2
<1> HIDE DEF Is
<1>3. Is(after)
  BY <1>2
<1>4. After(after, sofar, toks, Len(toks))
  BY <1>3 DEF Is, After
<1> QED BY <1>1, <1>4

LEMMA ExpandedNone ==
  ASSUME NEW sofar PROVE Expanded(sofar, <<>>) = sofar
<1>1. Len(<<>>) = 0
  OBVIOUS
<1>2. PICK f : After(f, sofar, <<>>, 0) /\ Expanded(sofar, <<>>) = f[0]
  BY <1>1, ExpandedIs
<1>3. StepByStep(f, sofar, <<>>, 0)
  BY <1>2, AfterSteps
<1> QED BY <1>2, <1>3 DEF StepByStep

LEMMA ExpandedOne ==
  ASSUME NEW S, NEW sofar, NEW toks \in Seq(S), NEW t \in S
  PROVE  Expanded(sofar, Append(toks, t)) = Expanded(sofar, toks) \o CopyOf(Expanded(sofar, toks), t)
<1> DEFINE more == Append(toks, t)
           L == Len(toks)
<1>1. L \in Nat /\ Len(more) = L + 1 /\ more[L + 1] = t /\ \A i \in 1..L : toks[i] = more[i]
  OBVIOUS
<1> HIDE DEF more
<1>2. PICK f : After(f, sofar, toks, L) /\ Expanded(sofar, toks) = f[L]
  BY <1>1, ExpandedIs
<1>3. PICK g : After(g, sofar, more, L + 1) /\ Expanded(sofar, more) = g[L + 1]
  BY <1>1, ExpandedIs
<1> HIDE DEF L
<1>4. f[L] = g[L]
  BY <1>1, <1>2, <1>3, AfterSame
<1>5. L + 1 \in Nat /\ L + 1 \in 1..L + 1 /\ L + 1 - 1 = L
  BY <1>1
<1>6. g[L + 1] = g[L] \o CopyOf(g[L], t)
  <2>1. StepByStep(g, sofar, more, L + 1)
    BY <1>3, <1>5, AfterSteps
  <2>2. \A n \in 1..L + 1 : g[n] = g[n - 1] \o CopyOf(g[n - 1], more[n])
    BY <2>1, Zenon DEF StepByStep
  <2> DEFINE k == L + 1
  <2>3. k \in 1..L + 1 /\ k = L + 1 /\ k - 1 = L
    BY <1>1
  <2> HIDE DEF k
  <2>4. g[k] = g[k - 1] \o CopyOf(g[k - 1], more[k])
    BY <2>2, <2>3, Zenon
  <2>5. g[k - 1] = g[L] /\ g[k] = g[L + 1] /\ more[k] = t
    BY <1>1, <2>3, Zenon
  <2> QED BY <2>4, <2>5, Zenon
<1> QED BY <1>2, <1>3, <1>4, <1>6 DEF more

AfterBlocks(f, sofar, bs, L) == f = [n \in 0..L |-> IF n = 0 THEN sofar ELSE Expanded(f[n - 1], bs[n])]
BlockByBlock(f, sofar, bs, L) == f[0] = sofar /\ \A n \in 1..L : f[n] = Expanded(f[n - 1], bs[n])

LEMMA BlockSteps ==
  ASSUME NEW f, NEW sofar, NEW bs, NEW L \in Nat, AfterBlocks(f, sofar, bs, L)
  PROVE  BlockByBlock(f, sofar, bs, L)
<1>1. \A n \in 0..L : f[n] = IF n = 0 THEN sofar ELSE Expanded(f[n - 1], bs[n])
  <2>1. ASSUME NEW n \in 0..L
        PROVE  [k \in 0..L |-> IF k = 0 THEN sofar ELSE Expanded(f[k - 1], bs[k])][n]
                  = IF n = 0 THEN sofar ELSE Expanded(f[n - 1], bs[n])
    OBVIOUS
  <2> QED BY <2>1, Zenon DEF AfterBlocks
<1>2. 0 \in 0..L /\ \A n \in 1..L : n \in 0..L /\ n # 0
  OBVIOUS
<1> QED BY <1>1, <1>2, Zenon DEF BlockByBlock

LEMMA BlocksExist ==
  ASSUME NEW sofar, NEW bs, NEW L \in Nat
  PROVE  \E f : AfterBlocks(f, sofar, bs, L)
<1> DEFINE S == {m \in 0..L : \E f : AfterBlocks(f, sofar, bs, m)}
<1>1. 0 \in S
  <2> DEFINE g == [n \in 0..0 |-> sofar]
  <2>1. ASSUME NEW n \in 0..0 PROVE sofar = IF n = 0 THEN sofar ELSE Expanded(g[n - 1], bs[n])
    OBVIOUS
  <2>2. g = [n \in 0..0 |-> IF n = 0 THEN sofar ELSE Expanded(g[n - 1], bs[n])]
    BY <2>1, Zenon
  <2>3. AfterBlocks(g, sofar, bs, 0)
    BY <2>2, Zenon DEF AfterBlocks
  <2>4. 0 \in 0..L
    OBVIOUS
  <2> QED BY <2>3, <2>4, Zenon
<1>2. ASSUME NEW m \in 1..L, m - 1 \in S PROVE m \in S
  <2>1. PICK f : AfterBlocks(f, sofar, bs, m - 1)
    BY <1>2
  <2>2. f[0] = sofar /\ \A n \in 1..m - 1 : f[n] = Expanded(f[n - 1], bs[n])
    <3>1. m - 1 \in Nat
      OBVIOUS
    <3>2. BlockByBlock(f, sofar, bs, m - 1)
      BY <2>1, <3>1, BlockSteps
    <3> QED BY <3>2 DEF BlockByBlock
  <2> DEFINE g == [n \in 0..m |-> IF n = m THEN Expanded(f[m - 1], bs[m]) ELSE f[n]]
  <2>3. \A n \in 0..m : g[n] = IF n = m THEN Expanded(f[m - 1], bs[m]) ELSE f[n]
    OBVIOUS
  <2>4. DOMAIN g = 0..m /\ g = [n \in 0..m |-> g[n]]
    OBVIOUS
  <2> HIDE DEF g
  <2>5. ASSUME NEW n \in 0..m PROVE g[n] = IF n = 0 THEN sofar ELSE Expanded(g[n - 1], bs[n])
    <3>1. CASE n = 0
      <4>1. n # m
        BY <3>1
      <4> QED BY <2>2, <2>3, <3>1, <4>1, Zenon
    <3>2. CASE n # 0 /\ n = m
      <4>1. n - 1 \in 0..m /\ n - 1 # m
        BY <3>2
      <4>2. g[n - 1] = f[n - 1]
        BY <2>3, <4>1, Zenon
      <4> QED BY <2>3, <3>2, <4>2, Zenon
    <3>3. CASE n # 0 /\ n # m
      <4>1. n \in 1..m - 1 /\ n - 1 \in 0..m /\ n - 1 # m
        BY <3>3
      <4>2. g[n - 1] = f[n - 1] /\ g[n] = f[n]
        BY <2>3, <3>3, <4>1, Zenon
      <4> QED BY <2>2, <3>3, <4>1, <4>2, Zenon
    <3> QED BY <3>1, <3>2, <3>3
  <2>6. AfterBlocks(g, sofar, bs, m)
    BY <2>4, <2>5, Zenon DEF AfterBlocks
  <2>7. m \in 0..L
    OBVIOUS
  <2> QED BY <2>6, <2>7, Zenon
<1> HIDE DEF S
<1>3. L \in S
  <2>1. \A n \in 0..L : n \in S
    BY <1>1, <1>2, CountUp
  <2> QED BY <2>1
<1> QED BY <1>3 DEF S

LEMMA BlocksSame ==
  ASSUME NEW sofar, NEW bs, NEW more, NEW L \in Nat, NEW M \in Nat, L <= M, NEW f, NEW g,
         AfterBlocks(f, sofar, bs, L), AfterBlocks(g, sofar, more, M), \A i \in 1..L : bs[i] = more[i]
  PROVE  f[L] = g[L]
<1> DEFINE S == {n \in 0..L : f[n] = g[n]}
<1>0. BlockByBlock(f, sofar, bs, L) /\ BlockByBlock(g, sofar, more, M)
  BY BlockSteps
<1>1. f[0] = sofar /\ \A n \in 1..L : f[n] = Expanded(f[n - 1], bs[n])
  BY <1>0 DEF BlockByBlock
<1>2. g[0] = sofar /\ \A n \in 1..M : g[n] = Expanded(g[n - 1], more[n])
  BY <1>0 DEF BlockByBlock
<1>3. 0 \in S
  BY <1>1, <1>2
<1>4. ASSUME NEW n \in 1..L, n - 1 \in S PROVE n \in S
  <2>1. n \in 1..M /\ n \in 0..L /\ f[n - 1] = g[n - 1] /\ bs[n] = more[n]
    BY <1>4
  <2>2. f[n] = Expanded(f[n - 1], bs[n]) /\ g[n] = Expanded(g[n - 1], more[n])
    BY <1>1, <1>2, <2>1, Zenon
  <2>3. f[n] = g[n]
    BY <2>1, <2>2, Zenon
  <2> QED BY <2>1, <2>3
<1>5. L \in S
  <2> HIDE DEF S
  <2>1. \A n \in 0..L : n \in S
    BY <1>3, <1>4, CountUp
  <2> QED BY <2>1
<1> QED BY <1>5

LEMMA BlocksAre ==
  ASSUME NEW sofar, NEW bs, Len(bs) \in Nat
  PROVE  \E f : AfterBlocks(f, sofar, bs, Len(bs)) /\ ExpandedBlocks(sofar, bs) = f[Len(bs)]
<1> DEFINE Is(f) == f = [n \in 0..Len(bs) |-> IF n = 0 THEN sofar ELSE Expanded(f[n - 1], bs[n])]
           after == CHOOSE f : Is(f)
<1>1. ExpandedBlocks(sofar, bs) = after[Len(bs)]
  BY DEF ExpandedBlocks
<1>2. \E f : Is(f)
  <2>1. PICK f : AfterBlocks(f, sofar, bs, Len(bs))
    BY BlocksExist
  <2>2. Is(f)
    BY <2>1, Zenon DEF AfterBlocks
  <2> HIDE DEF Is
  <2> QED BY <2>2
<1> HIDE DEF Is
<1>3. Is(after)
  BY <1>2
<1>4. AfterBlocks(after, sofar, bs, Len(bs))
  BY <1>3 DEF Is, AfterBlocks
<1> QED BY <1>1, <1>4

LEMMA NoBlocks ==
  ASSUME NEW sofar PROVE ExpandedBlocks(sofar, <<>>) = sofar
<1>1. Len(<<>>) = 0
  OBVIOUS
<1>2. PICK f : AfterBlocks(f, sofar, <<>>, 0) /\ ExpandedBlocks(sofar, <<>>) = f[0]
  BY <1>1, BlocksAre
<1>3. BlockByBlock(f, sofar, <<>>, 0)
  BY <1>2, BlockSteps
<1> QED BY <1>2, <1>3 DEF BlockByBlock

LEMMA OneMoreBlock ==
  ASSUME NEW S, NEW sofar, NEW bs \in Seq(S), NEW b \in S
  PROVE  ExpandedBlocks(sofar, Append(bs, b)) = Expanded(ExpandedBlocks(sofar, bs), b)
<1> DEFINE more == Append(bs, b)
           L == Len(bs)
<1>1. L \in Nat /\ Len(more) = L + 1 /\ more[L + 1] = b /\ \A i \in 1..L : bs[i] = more[i]
  OBVIOUS
<1> HIDE DEF more
<1>2. PICK f : AfterBlocks(f, sofar, bs, L) /\ ExpandedBlocks(sofar, bs) = f[L]
  BY <1>1, BlocksAre
<1>3. PICK g : AfterBlocks(g, sofar, more, L + 1) /\ ExpandedBlocks(sofar, more) = g[L + 1]
  BY <1>1, BlocksAre
<1> HIDE DEF L
<1>4. f[L] = g[L]
  BY <1>1, <1>2, <1>3, BlocksSame
<1>5. L + 1 \in Nat /\ L + 1 \in 1..L + 1 /\ L + 1 - 1 = L
  BY <1>1
<1>6. g[L + 1] = Expanded(g[L], b)
  <2>1. BlockByBlock(g, sofar, more, L + 1)
    BY <1>3, <1>5, BlockSteps
  <2>2. \A n \in 1..L + 1 : g[n] = Expanded(g[n - 1], more[n])
    BY <2>1, Zenon DEF BlockByBlock
  <2> DEFINE k == L + 1
  <2>3. k \in 1..L + 1 /\ k = L + 1 /\ k - 1 = L
    BY <1>1
  <2> HIDE DEF k
  <2>4. g[k] = Expanded(g[k - 1], more[k])
    BY <2>2, <2>3, Zenon
  <2>5. g[k - 1] = g[L] /\ g[k] = g[L + 1] /\ more[k] = b
    BY <1>1, <2>3, Zenon
  <2> QED BY <2>4, <2>5, Zenon
<1> QED BY <1>2, <1>3, <1>4, <1>6 DEF more

-----------------------------------------------------------------------------
(***************************************************************************)
(* The chains, and what is found along them.                               *)
(***************************************************************************)
\* A place of a chain.
Spot == Nat \cup {NIL}
Numbered(chains) ==
    /\ \A h \in DOMAIN chains.head : chains.head[h] \in Spot
    /\ DOMAIN chains.prev = 0..BUF_SIZE - 1
    /\ \A i \in 0..BUF_SIZE - 1 : chains.prev[i] \in Spot

LEMMA NewestNumber ==
  ASSUME NEW p \in Nat, NEW last \in Int, NEW S \in SUBSET (p..last)
  PROVE  Newest(S) \in Spot
<1>1. CASE S = {}
  BY <1>1 DEF Newest, Spot
<1>2. CASE S # {}
  <2>0. PICK one : one \in S
    BY <1>2
  <2>1. last \in Nat /\ S \in SUBSET (0..last)
    <3>1. \A y \in S : y \in Int /\ p <= y /\ y <= last
      OBVIOUS
    <3>2. one \in Int /\ p <= one /\ one <= last
      BY <2>0, <3>1
    <3>3. last \in Nat
      BY <3>2
    <3>4. \A y \in S : y \in 0..last
      BY <3>1, <3>3
    <3> QED BY <3>3, <3>4
  <2>2. \E x \in S : \A y \in S : y <= x
    BY <1>2, <2>1, GreatestNat
  <2>3. (CHOOSE x \in S : \A y \in S : y <= x) \in S
    BY <2>2
  <2>4. Newest(S) \in S
    BY <1>2, <2>3 DEF Newest
  <2>5. Newest(S) \in p..last
    BY <2>4
  <2>6. Newest(S) \in Nat
    BY <2>5
  <2> QED BY <2>6 DEF Spot
<1> QED BY <1>1, <1>2

LEMMA LeadingNumber ==
  ASSUME NEW chains, Numbered(chains), NEW h, NEW p \in Nat, NEW last \in Int
  PROVE  Leading(h, chains, p, last) \in Spot
<1> DEFINE entered == {q \in p..last : ChainOf(q) = h}
<1>1. Leading(h, chains, p, last) = IF entered = {} THEN Latest(h, chains.head) ELSE Newest(entered)
  BY DEF Leading
<1>2. entered \in SUBSET (p..last)
  OBVIOUS
<1> HIDE DEF entered
<1>3. Newest(entered) \in Spot
  BY <1>2, NewestNumber
<1>4. Latest(h, chains.head) \in Spot
  BY DEF Latest, Spot, Numbered
<1> QED BY <1>1, <1>3, <1>4

LEMMA EnterNumbered ==
  ASSUME NEW chains, Numbered(chains), NEW p \in Nat, NEW last \in Int
  PROVE  Numbered(EnterAll(chains, p, last))
<1> DEFINE at(i) == Newest({q \in p..last : q % BUF_SIZE = i})
           value(i) == IF at(i) = NIL THEN chains.prev[i] ELSE Leading(ChainOf(at(i)), chains, p, at(i) - 1)
           heads == DOMAIN chains.head \cup {ChainOf(q) : q \in p..last}
           new == EnterAll(chains, p, last)
<1>1. new = [prev |-> [i \in DOMAIN chains.prev |-> value(i)], head |-> [h \in heads |-> Leading(h, chains, p, last)]]
  BY DEF EnterAll
<1>2. ASSUME NEW i PROVE at(i) \in Spot
  <2>1. {q \in p..last : q % BUF_SIZE = i} \in SUBSET (p..last)
    OBVIOUS
  <2> QED BY <2>1, NewestNumber
<1> HIDE DEF at
<1>3. ASSUME NEW i \in 0..BUF_SIZE - 1 PROVE value(i) \in Spot
  <2>1. at(i) - 1 \in Int
    BY <1>2 DEF Spot, NIL
  <2>2. Leading(ChainOf(at(i)), chains, p, at(i) - 1) \in Spot
    BY <2>1, LeadingNumber
  <2>3. chains.prev[i] \in Spot
    BY DEF Numbered
  <2> QED BY <2>2, <2>3
<1> HIDE DEF value, heads
<1>4. new.prev = [i \in DOMAIN chains.prev |-> value(i)] /\ new.head = [h \in heads |-> Leading(h, chains, p, last)]
  BY <1>1
<1> HIDE DEF new
<1>5. \A h \in DOMAIN new.head : new.head[h] \in Spot
  <2>1. ASSUME NEW h \in DOMAIN new.head PROVE new.head[h] \in Spot
    <3>1. h \in heads /\ new.head[h] = Leading(h, chains, p, last)
      BY <1>4
    <3>2. Leading(h, chains, p, last) \in Spot
      BY LeadingNumber
    <3> QED BY <3>1, <3>2
  <2> QED BY <2>1
<1>6. DOMAIN new.prev = 0..BUF_SIZE - 1 /\ \A i \in 0..BUF_SIZE - 1 : new.prev[i] = value(i)
  BY <1>4 DEF Numbered
<1> QED BY <1>3, <1>5, <1>6 DEF Numbered, new

LEMMA EqualFacts ==
  ASSUME NEW chain, NEW p, NEW most \in Nat
  PROVE  /\ Equal(chain, p, most) \in 0..most
         /\ \A k \in 0..Equal(chain, p, most) - 1 : ByteAt(chain + k) = ByteAt(p + k)
<1> DEFINE S == {n \in 0..most : n = most \/ ByteAt(chain + n) # ByteAt(p + n)}
           Run(n) == /\ \A k \in 0..n - 1 : ByteAt(chain + k) = ByteAt(p + k)
                     /\ n = most \/ ByteAt(chain + n) # ByteAt(p + n)
<1>1. most \in S /\ S \in SUBSET Nat
  OBVIOUS
<1>2. PICK n \in S : \A m \in S : n <= m
  BY <1>1, LeastNat
<1>3. n \in 0..most /\ Run(n)
  <2>1. n \in 0..most /\ (n = most \/ ByteAt(chain + n) # ByteAt(p + n))
    BY <1>2
  <2>2. ASSUME NEW k \in 0..n - 1 PROVE ByteAt(chain + k) = ByteAt(p + k)
    <3>1. k \in 0..most /\ k # most /\ ~(n <= k)
      BY <2>1
    <3>2. k \notin S
      BY <1>2, <3>1
    <3> QED BY <3>1, <3>2
  <2> QED BY <2>1, <2>2
<1>4. Equal(chain, p, most) = CHOOSE m \in 0..most : Run(m)
  BY DEF Equal
<1> HIDE DEF Run
<1>5. Equal(chain, p, most) \in 0..most /\ Run(Equal(chain, p, most))
  BY <1>3, <1>4
<1> QED BY <1>5 DEF Run

(* A match that may be coded: near enough, within the data, and equal to   *)
(* what it copies.                                                         *)
Right(p, m) ==
    /\ m.dist \in 1..FARTHEST /\ m.dist <= p
    /\ m.len \in MIN_MATCH..MAX_LEN /\ m.len <= end - p
    /\ \A k \in 0..m.len - 1 : ByteAt(p - m.dist + k) = ByteAt(p + k)
Candidate(p, m) ==
    /\ m \in [len : Nat, dist : Nat]
    /\ m = Unmatched \/ Right(p, m)
Spots == [chain : Spot, best : [len : Nat, dist : Nat]]

LEMMA BetterRight ==
  ASSUME MatchAssumption, end \in Nat, NEW p \in Nat, p <= end, NEW chain \in Spot, ~OutOfReach(chain, p),
         NEW best, Candidate(p, best)
  PROVE  Candidate(p, Better(chain, p, best))
<1> DEFINE most == Small(MAX_LEN, end - p)
           n == Equal(chain, p, most)
           new == [len |-> n, dist |-> p - chain]
<1>1. most \in Nat /\ most <= MAX_LEN /\ most <= end - p /\ MAX_LEN \in Nat /\ FARTHEST \in Nat
  BY DEF MatchAssumption, Small
<1> HIDE DEF most
<1>2. n \in 0..most /\ \A k \in 0..n - 1 : ByteAt(chain + k) = ByteAt(p + k)
  BY <1>1, EqualFacts
<1> HIDE DEF n
<1>3. best.len \in Nat /\ best.len >= MIN_MATCH - 1
  BY DEF Candidate, Unmatched, Right, MIN_MATCH
<1>4. p - chain \in 1..FARTHEST /\ p - chain <= p /\ chain \in Nat
  BY <1>1 DEF OutOfReach, Spot
<1>5. CASE Better(chain, p, best) = best
  BY <1>5
<1>6. CASE Better(chain, p, best) = new /\ n > best.len
  <2>1. n \in MIN_MATCH..MAX_LEN /\ n <= end - p /\ n \in Nat
    BY <1>1, <1>2, <1>3, <1>6 DEF MIN_MATCH
  <2>2. new.len = n /\ new.dist = p - chain /\ new \in [len : Nat, dist : Nat]
    BY <1>4, <2>1
  <2>3. \A k \in 0..n - 1 : ByteAt(p - (p - chain) + k) = ByteAt(p + k)
    <3>1. p - (p - chain) = chain
      BY <1>4
    <3> QED BY <1>2, <3>1
  <2> HIDE DEF new
  <2>4. Right(p, new)
    BY <1>4, <2>1, <2>2, <2>3 DEF Right
  <2> QED BY <1>6, <2>2, <2>4 DEF Candidate
<1>7. Better(chain, p, best) = best \/ (Better(chain, p, best) = new /\ n > best.len)
  BY DEF Better, n, most
<1> QED BY <1>5, <1>6, <1>7

LEMMA FindRight ==
  ASSUME MatchAssumption, end \in Nat, NEW p \in Nat, p <= end, NEW chains, Numbered(chains), NEW depth \in Nat
  PROVE  /\ FindMatch(chains, p, depth) \in [len : Nat, dist : Nat]
         /\ FindMatch(chains, p, depth) = [len |-> 0, dist |-> 0] \/ Right(p, FindMatch(chains, p, depth))
<1> DEFINE V == {v \in Spots : Candidate(p, v.best)}
           v0 == [chain |-> Latest(ChainOf(p), chains.head), best |-> Unmatched]
           Stays(v) == OutOfReach(v.chain, p) \/ (v.best.dist > 0 /\ v.best.len >= input.giveUp)
           Onward(v) == [chain |-> chains.prev[v.chain % BUF_SIZE], best |-> Better(v.chain, p, v.best)]
           Moved(v) == IF Stays(v) THEN v ELSE Onward(v)
           F == [x \in V \X (1..depth) |-> Moved(x[1])]
           Is(f) == f = [n \in 0..depth |->
                            IF n = 0 THEN [chain |-> Latest(ChainOf(p), chains.head), best |-> Unmatched]
                            ELSE LET last == f[n - 1]
                                 IN  IF OutOfReach(last.chain, p) \/ (last.best.dist > 0 /\ last.best.len >= input.giveUp) THEN last
                                     ELSE [chain |-> chains.prev[last.chain % BUF_SIZE], best |-> Better(last.chain, p, last.best)]]
           after == CHOOSE f : Is(f)
           best == after[depth].best
<1>1. FindMatch(chains, p, depth) = IF best.len >= MIN_MATCH THEN best ELSE [len |-> 0, dist |-> 0]
  BY DEF FindMatch
<1>2. v0 \in V
  <2>1. Latest(ChainOf(p), chains.head) \in Spot
    BY DEF Latest, Spot, Numbered
  <2>2. Unmatched \in [len : Nat, dist : Nat] /\ Candidate(p, Unmatched)
    BY DEF Unmatched, MIN_MATCH, Candidate
  <2>3. v0 \in Spots /\ v0.best = Unmatched
    BY <2>1, <2>2 DEF Spots
  <2> HIDE DEF v0
  <2> QED BY <2>2, <2>3
<1>3. ASSUME NEW v \in V PROVE Moved(v) \in V
  <2>1. v \in Spots /\ v.chain \in Spot /\ Candidate(p, v.best)
    BY DEF Spots
  <2>2. CASE Stays(v)
    BY <2>2
  <2>3. CASE ~Stays(v)
    <3>1. ~OutOfReach(v.chain, p)
      BY <2>3
    <3>2. Candidate(p, Better(v.chain, p, v.best))
      BY <2>1, <3>1, BetterRight
    <3>3. v.chain \in Nat
      BY <2>1, <3>1 DEF OutOfReach, Spot
    <3>4. v.chain % BUF_SIZE \in 0..BUF_SIZE - 1
      <4>1. BUF_SIZE \in Nat \ {0} /\ v.chain \in Int
        BY <3>3 DEF MatchAssumption
      <4> QED BY <4>1, ModRange
    <3>5. chains.prev[v.chain % BUF_SIZE] \in Spot
      BY <3>4 DEF Numbered
    <3> DEFINE c == chains.prev[v.chain % BUF_SIZE]
               b == Better(v.chain, p, v.best)
    <3>6. Onward(v) = [chain |-> c, best |-> b] /\ Moved(v) = Onward(v)
      BY <2>3
    <3>7. c \in Spot /\ b \in [len : Nat, dist : Nat] /\ Candidate(p, b)
      BY <3>2, <3>5 DEF Candidate
    <3> HIDE DEF c, b, Onward, Moved
    <3>8. Onward(v) \in Spots /\ Onward(v).best = b
      BY <3>6, <3>7 DEF Spots
    <3> QED BY <3>6, <3>7, <3>8
  <2> QED BY <2>2, <2>3
<1> HIDE DEF V, v0
<1>4. F \in [V \X (1..depth) -> V]
  <2> HIDE DEF Moved
  <2> QED BY <1>3
<1>5. PICK f \in [0..depth -> V] : f[0] = v0 /\ \A n \in 1..depth : f[n] = F[<<f[n - 1], n>>]
  <2> HIDE DEF F
  <2>1. Defines(depth, V, v0, F)
    BY <1>2, <1>4, Recursion
  <2> QED BY <2>1 DEF Defines
<1>6. Is(f)
  <2>1. ASSUME NEW n \in 1..depth PROVE f[n] = Moved(f[n - 1])
    <3>1. n - 1 \in 0..depth
      OBVIOUS
    <3>2. <<f[n - 1], n>> \in V \X (1..depth)
      BY <3>1
    <3> HIDE DEF Moved
    <3> QED BY <1>5, <3>2
  <2>2. f[0] = v0 /\ DOMAIN f = 0..depth
    BY <1>5
  <2>3. \A n \in 0..depth : n = 0 \/ n \in 1..depth
    OBVIOUS
  <2>4. ASSUME NEW n \in 0..depth PROVE f[n] = IF n = 0 THEN v0 ELSE Moved(f[n - 1])
    <3> HIDE DEF Moved
    <3> QED BY <2>1, <2>2, <2>3, Zenon
  <2>5. f = [n \in 0..depth |-> f[n]]
    BY <2>2
  <2>6. f = [n \in 0..depth |-> IF n = 0 THEN v0 ELSE Moved(f[n - 1])]
    <3> HIDE DEF Moved
    <3> QED BY <2>4, <2>5, Zenon
  <2> QED BY <2>6, Zenon DEF v0
<1>7. after = [n \in 0..depth |-> IF n = 0 THEN v0 ELSE Moved(after[n - 1])]
  <2> HIDE DEF Is
  <2>1. Is(after)
    BY <1>6
  <2> HIDE DEF after
  <2> QED BY <2>1, Zenon DEF Is, v0
<1> HIDE DEF after, Is, Moved
<1>8. /\ after[0] = v0
      /\ \A n \in 1..depth : after[n] = Moved(after[n - 1])
  <2>1. ASSUME NEW n \in 0..depth PROVE after[n] = IF n = 0 THEN v0 ELSE Moved(after[n - 1])
    BY <1>7
  <2>2. 0 \in 0..depth /\ \A n \in 1..depth : n \in 0..depth /\ n # 0
    OBVIOUS
  <2> QED BY <2>1, <2>2, Zenon
<1>9. after[depth] \in V
  <2> DEFINE N == {n \in 0..depth : after[n] \in V}
  <2>1. 0 \in N
    BY <1>2, <1>8
  <2>2. ASSUME NEW n \in 1..depth, n - 1 \in N PROVE n \in N
    <3>1. after[n] \in V
      BY <1>3, <1>8, <2>2
    <3> QED BY <3>1
  <2> HIDE DEF N
  <2>3. \A n \in 0..depth : n \in N
    BY <2>1, <2>2, CountUp
  <2>4. depth \in N
    BY <2>3
  <2> QED BY <2>4 DEF N
<1>10. Candidate(p, best)
  BY <1>9 DEF V
<1> HIDE DEF best
<1>11. CASE best.len >= MIN_MATCH
  <2>1. best # Unmatched
    BY <1>11 DEF Unmatched, MIN_MATCH
  <2> QED BY <1>1, <1>10, <1>11, <2>1 DEF Candidate
<1>12. CASE ~(best.len >= MIN_MATCH)
  <2>1. [len |-> 0, dist |-> 0] \in [len : Nat, dist : Nat]
    OBVIOUS
  <2> QED BY <1>1, <1>12, <2>1
<1> QED BY <1>11, <1>12

-----------------------------------------------------------------------------
(***************************************************************************)
(* What is coded, the invariant, and the steps that keep it.               *)
(***************************************************************************)
Token == [byte : Nat, dist : Nat, len : Nat]
TokensFit(toks) ==
    \A i \in 1..Len(toks) : toks[i].dist > 0 => toks[i].dist <= FARTHEST /\ toks[i].len \in MIN_MATCH..MAX_LEN

LEMMA UsedNumber ==
  ASSUME NEW toks \in Seq(Token)
  PROVE  /\ Used(toks) \in Nat
         /\ IsFiniteSet(Copies(toks)) /\ IsFiniteSet(Far(toks))
         /\ Cardinality(Copies(toks)) \in Nat /\ Cardinality(Far(toks)) \in Nat
<1>1. Len(toks) \in Nat /\ DOMAIN toks = 1..Len(toks)
  OBVIOUS
<1>2. IsFiniteSet(1..Len(toks))
  BY <1>1, FS_Interval
<1>3. Copies(toks) \in SUBSET (1..Len(toks)) /\ Far(toks) \in SUBSET (1..Len(toks))
  BY <1>1 DEF Copies, Far
<1>4. IsFiniteSet(Copies(toks)) /\ IsFiniteSet(Far(toks))
  BY <1>2, <1>3, FS_Subset
<1>5. Cardinality(Copies(toks)) \in Nat /\ Cardinality(Far(toks)) \in Nat
  BY <1>4, FS_CardinalityType
<1> QED BY <1>1, <1>4, <1>5 DEF Used

LEMMA UsedNone ==
  Used(<<>>) = 0
<1>1. Copies(<<>>) = {} /\ Far(<<>>) = {} /\ Len(<<>>) = 0
  BY DEF Copies, Far
<1>2. Cardinality(Copies(<<>>)) = 0 /\ Cardinality(Far(<<>>)) = 0
  BY <1>1, FS_EmptySet
<1> QED BY <1>1, <1>2 DEF Used

LEMMA UsedOne ==
  ASSUME NEW toks \in Seq(Token), NEW t \in Token
  PROVE  /\ Append(toks, t) \in Seq(Token)
         /\ Used(Append(toks, t)) <= Used(toks) + 3
         /\ t.dist = 0 => Used(Append(toks, t)) = Used(toks) + 1
         /\ TokensFit(toks) /\ (t.dist > 0 => t.dist <= FARTHEST /\ t.len \in MIN_MATCH..MAX_LEN) => TokensFit(Append(toks, t))
<1> DEFINE more == Append(toks, t)
           L == Len(toks)
           S == Copies(toks)
           T == Copies(more)
           F == Far(toks)
           G == Far(more)
<1>1. /\ more \in Seq(Token) /\ L \in Nat /\ Len(more) = L + 1 /\ DOMAIN toks = 1..L /\ DOMAIN more = 1..L + 1
      /\ more[L + 1] = t /\ \A i \in 1..L : more[i] = toks[i]
  OBVIOUS
<1> HIDE DEF more, L
<1>2. Used(toks) = L + Cardinality(S) + Cardinality(F) /\ Used(more) = (L + 1) + Cardinality(T) + Cardinality(G)
  BY <1>1 DEF Used, L
<1>3. /\ IsFiniteSet(S) /\ IsFiniteSet(F)
      /\ Cardinality(S) \in Nat /\ Cardinality(T) \in Nat /\ Cardinality(F) \in Nat /\ Cardinality(G) \in Nat
  BY <1>1, UsedNumber
<1>4. /\ \A i \in 1..L + 1 : i \in 1..L \/ i = L + 1
      /\ \A i \in 1..L : i \in 1..L + 1 /\ i # L + 1
      /\ L + 1 \in 1..L + 1
  BY <1>1
<1>5. T = IF t.dist # 0 THEN S \cup {L + 1} ELSE S
  BY <1>1, <1>4 DEF Copies
<1>6. G = IF t.dist # 0 /\ t.dist > PLAIN THEN F \cup {L + 1} ELSE F
  BY <1>1, <1>4 DEF Copies, Far
<1>7. L + 1 \notin S /\ L + 1 \notin F
  BY <1>1 DEF Copies, Far
<1> HIDE DEF S, T, F, G
<1>8. Cardinality(S \cup {L + 1}) = Cardinality(S) + 1 /\ Cardinality(F \cup {L + 1}) = Cardinality(F) + 1
  BY <1>3, <1>7, FS_AddElement
<1>9. /\ Cardinality(T) = Cardinality(S) \/ Cardinality(T) = Cardinality(S) + 1
      /\ Cardinality(G) = Cardinality(F) \/ Cardinality(G) = Cardinality(F) + 1
      /\ t.dist = 0 => Cardinality(T) = Cardinality(S) /\ Cardinality(G) = Cardinality(F)
  BY <1>5, <1>6, <1>8
<1>10. Used(more) <= Used(toks) + 3 /\ (t.dist = 0 => Used(more) = Used(toks) + 1)
  BY <1>1, <1>2, <1>3, <1>9
<1>11. ASSUME TokensFit(toks), t.dist > 0 => t.dist <= FARTHEST /\ t.len \in MIN_MATCH..MAX_LEN PROVE TokensFit(more)
  BY <1>1, <1>4, <1>11 DEF TokensFit, L
<1> QED BY <1>1, <1>10, <1>11 DEF more

(* What holds between the steps: what was read and not compressed yet is   *)
(* short, the ring has the latest bytes, chains are places, and the tokens *)
(* stand for the bytes before the position.                                *)
Counts ==
    /\ input \in Inputs /\ pos \in Nat /\ end \in Nat /\ remaining \in Nat
    /\ pos <= end /\ end + remaining = Len(Whole)
    /\ stage \in {"Running", "Done", "Failed"}
    /\ stage = "Done" => pos = Len(Whole)
RingHolds ==
    /\ ring \in [0..BUF_SIZE - 1 -> Nat]
    /\ stage = "Running" =>
        /\ end - pos < READ_SIZE + MIN_MATCH
        /\ \A q \in 0..end - 1 : end - BUF_SIZE <= q => ByteAt(q) = Whole[q + 1]
Stands(sofar, toks, p) ==
    /\ toks \in Seq(Token) /\ TokensFit(toks)
    /\ Expanded(sofar, toks) = SubSeq(Whole, 1, p)
BlocksFit ==
    /\ blocks \in Seq(Seq(Token))
    /\ \A b \in 1..Len(blocks) : TokensFit(blocks[b]) /\ Used(blocks[b]) <= IBUF_SIZE
MatcherInv ==
    /\ Counts /\ RingHolds /\ BlocksFit
    /\ Numbered([head |-> head, prev |-> prev])
    /\ Stands(ExpandedBlocks(input.master, blocks), ibuf, pos)
    /\ Used(ibuf) <= FLUSH

LEMMA SizeFacts ==
  ASSUME MatchAssumption
  PROVE  /\ BUF_SIZE \in Nat \ {0} /\ READ_SIZE \in Nat \ {0} /\ FARTHEST \in Nat \ {0} /\ MAX_LEN \in Nat \ {0}
         /\ IBUF_SIZE \in Nat /\ FLUSH \in Nat
         /\ FARTHEST + READ_SIZE + 3 <= BUF_SIZE /\ FLUSH + 6 <= IBUF_SIZE /\ MIN_MATCH = 3
BY DEF MatchAssumption, MIN_MATCH

LEMMA WholeFacts ==
  ASSUME MatchAssumption, input \in Inputs
  PROVE  /\ input.master \in Seq(Nat) /\ input.data \in Seq(Nat) /\ Whole \in Seq(Nat)
         /\ Len(Whole) = Len(input.master) + Len(input.data)
         /\ \A i \in 1..Len(input.master) : Whole[i] = input.master[i]
<1>1. input.master \in Seq(Nat) /\ input.data \in Seq(Nat)
  BY DEF MatchAssumption
<1>2. \A s, t \in Seq(Nat) : s \o t \in Seq(Nat) /\ Len(s \o t) = Len(s) + Len(t) /\ \A i \in 1..Len(s) : (s \o t)[i] = s[i]
  OBVIOUS
<1> QED BY <1>1, <1>2 DEF Whole

LEMMA LiteralStands ==
  ASSUME MatchAssumption, Counts, RingHolds, stage = "Running", NEW sofar, NEW toks, NEW p \in Nat,
         Stands(sofar, toks, p), pos <= p, p < end
  PROVE  /\ Stands(sofar, Append(toks, Lit(ByteAt(p))), p + 1)
         /\ Used(Append(toks, Lit(ByteAt(p)))) = Used(toks) + 1
<1> DEFINE t == Lit(ByteAt(p))
<1>1. Whole \in Seq(Nat) /\ Len(Whole) \in Nat /\ end <= Len(Whole) /\ end \in Nat
  BY WholeFacts DEF Counts
<1>2. ByteAt(p) = Whole[p + 1]
  <2>1. end - BUF_SIZE <= p /\ p \in 0..end - 1
    <3>1. end - pos < READ_SIZE + 3 /\ pos \in Nat
      BY SizeFacts DEF RingHolds, Counts
    <3>2. BUF_SIZE \in Nat /\ READ_SIZE \in Nat /\ READ_SIZE + 3 <= BUF_SIZE
      BY SizeFacts
    <3>3. end \in Nat /\ p \in Nat /\ pos <= p /\ p < end
      BY <1>1
    <3> QED BY <3>1, <3>2, <3>3
  <2> QED BY <2>1 DEF RingHolds
<1>3. p + 1 \in 1..Len(Whole) /\ 1 \in 1..Len(Whole) /\ p + 1 \in 1..Len(Whole)
  BY <1>1
<1>4. ByteAt(p) \in Nat
  BY <1>1, <1>2, <1>3, ElementOfSeq
<1>5. t \in Token /\ t.dist = 0 /\ t.byte = ByteAt(p)
  BY <1>4 DEF Lit, Token
<1> HIDE DEF t
<1>6. /\ Append(toks, t) \in Seq(Token) /\ Used(Append(toks, t)) = Used(toks) + 1
      /\ TokensFit(Append(toks, t))
  <2>1. toks \in Seq(Token) /\ TokensFit(toks)
    BY DEF Stands
  <2>2. ~(t.dist > 0)
    BY <1>5
  <2> QED BY <1>5, <2>1, <2>2, UsedOne
<1>7. Expanded(sofar, Append(toks, t)) = Expanded(sofar, toks) \o CopyOf(Expanded(sofar, toks), t)
  <2>1. toks \in Seq(Token)
    BY DEF Stands
  <2> QED BY <1>5, <2>1, ExpandedOne
<1>8. CopyOf(Expanded(sofar, toks), t) = <<Whole[p + 1]>>
  BY <1>2, <1>5 DEF CopyOf
<1>9. SubSeq(Whole, 1, p + 1) = SubSeq(Whole, 1, p) \o <<Whole[p + 1]>>
  <2>1. SubSeq(Whole, 1, p + 1) = SubSeq(Whole, 1, p + 1 - 1) \o <<Whole[p + 1]>>
    BY <1>1, <1>3, SubSeqRecursiveSecond
  <2>2. p + 1 - 1 = p
    OBVIOUS
  <2> QED BY <2>1, <2>2
<1>10. Expanded(sofar, Append(toks, t)) = SubSeq(Whole, 1, p + 1)
  BY <1>7, <1>8, <1>9, Zenon DEF Stands
<1> QED BY <1>6, <1>10 DEF Stands, t

LEMMA MatchStands ==
  ASSUME MatchAssumption, Counts, RingHolds, stage = "Running", NEW sofar, NEW toks, NEW p \in Nat,
         Stands(sofar, toks, p), pos <= p, NEW m \in [len : Nat, dist : Nat], Right(p, m)
  PROVE  /\ Stands(sofar, Append(toks, Mat(m.dist, m.len)), p + m.len)
         /\ Used(Append(toks, Mat(m.dist, m.len))) <= Used(toks) + 3
<1> DEFINE d == m.dist
           n == m.len
           t == Mat(d, n)
           o == Expanded(sofar, toks)
<1>1. Whole \in Seq(Nat) /\ Len(Whole) \in Nat /\ end <= Len(Whole) /\ end \in Nat
  BY WholeFacts DEF Counts
<1>2. /\ d \in Nat /\ n \in Nat /\ d \in 1..FARTHEST /\ d <= p /\ n \in MIN_MATCH..MAX_LEN /\ n <= end - p
      /\ \A k \in 0..n - 1 : ByteAt(p - d + k) = ByteAt(p + k)
  BY DEF Right
<1> HIDE DEF d, n
<1>3. t \in Token /\ t.dist = d /\ t.len = n /\ t.dist # 0
  BY <1>2 DEF Mat, Token
<1> HIDE DEF t
<1>4. /\ Append(toks, t) \in Seq(Token) /\ Used(Append(toks, t)) <= Used(toks) + 3
      /\ TokensFit(Append(toks, t))
  <2>1. toks \in Seq(Token) /\ TokensFit(toks)
    BY DEF Stands
  <2>2. t.dist <= FARTHEST /\ t.len \in MIN_MATCH..MAX_LEN
    BY <1>2, <1>3 DEF MatchAssumption
  <2> QED BY <1>3, <2>1, <2>2, UsedOne
<1>5. Expanded(sofar, Append(toks, t)) = o \o CopyOf(o, t)
  <2>1. toks \in Seq(Token)
    BY DEF Stands
  <2> QED BY <1>3, <2>1, ExpandedOne
<1>6. o = SubSeq(Whole, 1, p) /\ Len(o) = p /\ \A i \in 1..p : o[i] = Whole[i]
  <2>1. o = SubSeq(Whole, 1, p)
    BY DEF Stands
  <2>2. p <= Len(Whole)
    BY <1>1, <1>2 DEF MIN_MATCH
  <2>3. \A s \in Seq(Nat) : \A i \in 0..Len(s) : Len(SubSeq(s, 1, i)) = i /\ \A k \in 1..i : SubSeq(s, 1, i)[k] = s[k]
    OBVIOUS
  <2>4. p \in 0..Len(Whole)
    BY <1>1, <2>2
  <2> QED BY <1>1, <2>1, <2>3, <2>4
<1> HIDE DEF o
<1>7. \A q \in p - d..p + n - 1 : ByteAt(q) = Whole[q + 1]
  <2>1. ASSUME NEW q \in p - d..p + n - 1 PROVE ByteAt(q) = Whole[q + 1]
    <3>1. q \in 0..end - 1 /\ end - BUF_SIZE <= q
      <4>1. end - pos < READ_SIZE + 3 /\ pos \in Nat
        BY SizeFacts DEF RingHolds, Counts
      <4>2. d \in Nat /\ n \in Nat /\ d <= FARTHEST /\ d <= p /\ n <= end - p /\ FARTHEST \in Nat /\ BUF_SIZE \in Nat
        BY <1>2, SizeFacts
      <4>3. q \in Int /\ p - d <= q /\ q <= p + n - 1
        BY <4>2
      <4>4. 0 <= q /\ q <= end - 1
        BY <1>1, <4>2, <4>3
      <4>5. p - d >= end - BUF_SIZE
        BY <1>1, <4>1, <4>2, SizeFacts
      <4> QED BY <1>1, <4>2, <4>3, <4>4, <4>5
    <3> QED BY <3>1 DEF RingHolds
  <2> QED BY <2>1
<1>8. \A j \in 0..n - 1 : Whole[p - d + 1 + (j % d)] = Whole[p + j + 1]
  <2>1. \A j \in 0..n - 1 : Whole[p - d + j + 1] = Whole[p + j + 1]
    <3>1. ASSUME NEW j \in 0..n - 1 PROVE Whole[p - d + j + 1] = Whole[p + j + 1]
      <4>1. p - d + j \in p - d..p + n - 1 /\ p + j \in p - d..p + n - 1
        BY <1>2
      <4>2. ByteAt(p - d + j) = Whole[p - d + j + 1] /\ ByteAt(p + j) = Whole[p + j + 1]
        BY <1>7, <4>1
      <4> QED BY <1>2, <4>2
    <3> QED BY <3>1
  <2>2. d \in 1..p /\ p \in Nat /\ n \in Nat
    BY <1>2
  <2> DEFINE w == Whole
  <2>3. \A j \in 0..n - 1 : w[p - d + j + 1] = w[p + j + 1]
    BY <2>1
  <2> HIDE DEF w
  <2>4. \A j \in 0..n - 1 : w[p - d + 1 + (j % d)] = w[p + j + 1]
    BY <2>2, <2>3, Periodic, ZenonT(30)
  <2> QED BY <2>4 DEF w
<1>9. CopyOf(o, t) = [k \in 1..n |-> o[p - d + 1 + ((k - 1) % d)]]
  BY <1>3, <1>6 DEF CopyOf
<1>10. SubSeq(Whole, p + 1, p + n) = [k \in 1..n |-> Whole[p + k]]
  <2>1. p + n - (p + 1) + 1 = n
    BY <1>2
  <2>2. SubSeq(Whole, p + 1, p + n) = [k \in 1..(p + n - (p + 1) + 1) |-> Whole[p + 1 + k - 1]]
    BY <1>2 DEF SubSeq
  <2>3. \A k \in 1..n : p + 1 + k - 1 = p + k
    OBVIOUS
  <2> QED BY <2>1, <2>2, <2>3
<1>11. \A k \in 1..n : o[p - d + 1 + ((k - 1) % d)] = Whole[p + k]
  <2>1. ASSUME NEW k \in 1..n PROVE o[p - d + 1 + ((k - 1) % d)] = Whole[p + k]
    <3>1. k - 1 \in 0..n - 1 /\ p + (k - 1) + 1 = p + k
      BY <1>2
    <3>2. d \in Nat \ {0} /\ k - 1 \in Int
      BY <1>2
    <3>3. (k - 1) % d \in 0..d - 1
      BY <3>2, ModRange
    <3>4. p - d + 1 + ((k - 1) % d) \in 1..p
      BY <1>2, <3>3
    <3>5. o[p - d + 1 + ((k - 1) % d)] = Whole[p - d + 1 + ((k - 1) % d)]
      BY <1>6, <3>4
    <3>6. Whole[p - d + 1 + ((k - 1) % d)] = Whole[p + (k - 1) + 1]
      BY <1>8, <3>1
    <3> QED BY <3>1, <3>5, <3>6
  <2> QED BY <2>1
<1>12. CopyOf(o, t) = SubSeq(Whole, p + 1, p + n)
  BY <1>9, <1>10, <1>11
<1>13. SubSeq(Whole, 1, p + n) = SubSeq(Whole, 1, p) \o SubSeq(Whole, p + 1, p + n)
  <2>1. 1 \in 1..Len(Whole) + 1 /\ p \in 1 - 1..Len(Whole) /\ p + n \in p..Len(Whole)
    BY <1>1, <1>2
  <2> QED BY <1>1, <2>1, ConcatAdjacentSubSeq
<1>14. Expanded(sofar, Append(toks, t)) = SubSeq(Whole, 1, p + n)
  BY <1>5, <1>6, <1>12, <1>13
<1> QED BY <1>4, <1>14 DEF Stands, t, d, n

LEMMA FlushStands ==
  ASSUME MatchAssumption, BlocksFit, NEW p, NEW toks,
         Stands(ExpandedBlocks(input.master, blocks), toks, p), Used(toks) <= IBUF_SIZE,
         FlushWhenFull(toks), input' = input
  PROVE  /\ BlocksFit'
         /\ ibuf' \in Seq(Token) /\ TokensFit(ibuf')
         /\ Expanded(ExpandedBlocks(input.master, blocks'), ibuf') = SubSeq(Whole, 1, p)
         /\ Used(ibuf') <= FLUSH
<1>1. toks \in Seq(Token) /\ TokensFit(toks)
  BY DEF Stands
<1>2. CASE Used(toks) > FLUSH
  <2>1. blocks' = Append(blocks, toks) /\ ibuf' = <<>>
    BY <1>2 DEF FlushWhenFull
  <2>2. BlocksFit'
    <3>1. blocks \in Seq(Seq(Token))
      BY DEF BlocksFit
    <3>2. /\ blocks' \in Seq(Seq(Token)) /\ Len(blocks') = Len(blocks) + 1 /\ blocks'[Len(blocks) + 1] = toks
          /\ \A b \in 1..Len(blocks) : blocks'[b] = blocks[b]
      BY <1>1, <2>1, <3>1
    <3>3. \A b \in 1..Len(blocks') : b \in 1..Len(blocks) \/ b = Len(blocks) + 1
      BY <3>1, <3>2
    <3>4. ASSUME NEW b \in 1..Len(blocks') PROVE TokensFit(blocks'[b]) /\ Used(blocks'[b]) <= IBUF_SIZE
      <4>1. CASE b \in 1..Len(blocks)
        BY <3>2, <4>1 DEF BlocksFit
      <4>2. CASE b = Len(blocks) + 1
        BY <1>1, <3>2, <4>2
      <4> QED BY <3>3, <4>1, <4>2
    <3> QED BY <3>2, <3>4 DEF BlocksFit
  <2>3. ibuf' \in Seq(Token) /\ Len(ibuf') = 0
    BY <2>1
  <2>4. TokensFit(ibuf')
    BY <2>3 DEF TokensFit
  <2>5. Expanded(ExpandedBlocks(input.master, blocks'), ibuf') = ExpandedBlocks(input.master, blocks')
    BY <2>1, ExpandedNone
  <2>6. ExpandedBlocks(input.master, blocks') = Expanded(ExpandedBlocks(input.master, blocks), toks)
    <3>1. blocks \in Seq(Seq(Token))
      BY DEF BlocksFit
    <3> QED BY <1>1, <2>1, <3>1, OneMoreBlock
  <2>7. Used(ibuf') <= FLUSH
    BY <2>1, UsedNone, SizeFacts
  <2> QED BY <2>2, <2>3, <2>4, <2>5, <2>6, <2>7 DEF Stands
<1>3. CASE ~(Used(toks) > FLUSH)
  <2>1. ibuf' = toks /\ blocks' = blocks
    BY <1>3 DEF FlushWhenFull
  <2>2. BlocksFit'
    BY <2>1 DEF BlocksFit
  <2>3. Used(ibuf') <= FLUSH
    <3>1. Used(toks) \in Nat
      BY <1>1, UsedNumber
    <3>2. Used(toks) <= FLUSH
      BY <1>3, <3>1, SizeFacts
    <3> QED BY <2>1, <3>2
  <2> QED BY <1>1, <2>1, <2>2, <2>3 DEF Stands
<1> QED BY <1>2, <1>3

LEMMA MatcherInitInv ==
  ASSUME MatchAssumption, MatcherInit
  PROVE  MatcherInv
<1> DEFINE m == Len(input.master)
           hash(p) == HashAt(input.master[p + 1], input.master[p + 2], input.master[p + 3])
           first == IF m < BUF_SIZE THEN 0..m - 3 ELSE {}
<1>1. /\ input \in Inputs /\ pos = m /\ end = m /\ remaining = Len(input.data) /\ ibuf = <<>> /\ blocks = <<>>
      /\ ring = [i \in 0..BUF_SIZE - 1 |-> IF i < m THEN input.master[i + 1] ELSE 0]
      /\ stage = IF m < BUF_SIZE THEN "Running" ELSE "Failed"
  BY DEF MatcherInit
<1>2. /\ head = [h \in {hash(p) : p \in first} |-> Newest({p \in first : hash(p) = h})]
      /\ prev = [i \in 0..BUF_SIZE - 1 |-> IF i \in first THEN Newest({p \in first : p < i /\ hash(p) = hash(i)}) ELSE 0]
  BY DEF MatcherInit
<1>3. /\ input.master \in Seq(Nat) /\ input.data \in Seq(Nat) /\ Whole \in Seq(Nat)
      /\ Len(Whole) = m + Len(input.data) /\ m \in Nat /\ Len(input.data) \in Nat
      /\ \A i \in 1..m : Whole[i] = input.master[i]
  <2>1. input \in Inputs
    BY <1>1
  <2>2. /\ input.master \in Seq(Nat) /\ input.data \in Seq(Nat) /\ Whole \in Seq(Nat)
        /\ Len(Whole) = Len(input.master) + Len(input.data)
        /\ \A i \in 1..Len(input.master) : Whole[i] = input.master[i]
    BY <2>1, WholeFacts
  <2>3. m \in Nat /\ Len(input.data) \in Nat
    BY <2>2, LenProperties
  <2> QED BY <2>2, <2>3
<1> HIDE DEF m
<1>4. Counts
  BY <1>1, <1>3 DEF Counts
<1>5. RingHolds
  <2>1. \A i \in 0..BUF_SIZE - 1 : i < m => input.master[i + 1] \in Nat
    <3>1. ASSUME NEW i \in 0..BUF_SIZE - 1, i < m PROVE input.master[i + 1] \in Nat
      <4>1. i + 1 \in 1..Len(input.master)
        BY <1>3, <3>1 DEF m
      <4> QED BY <1>3, <4>1, ElementOfSeq
    <3> QED BY <3>1
  <2>2. ring \in [0..BUF_SIZE - 1 -> Nat]
    BY <1>1, <2>1
  <2>3. ASSUME stage = "Running", NEW q \in 0..end - 1 PROVE ByteAt(q) = Whole[q + 1]
    <3>1. m < BUF_SIZE
      BY <1>1, <2>3
    <3>2. q \in 0..BUF_SIZE - 1 /\ q < m /\ q + 1 \in 1..m
      BY <1>1, <1>3, <2>3, <3>1, SizeFacts
    <3>3. q % BUF_SIZE = q
      BY <3>2, SizeFacts, ModLess
    <3>4. ring[q] = input.master[q + 1]
      BY <1>1, <3>2
    <3> QED BY <1>3, <3>2, <3>3, <3>4 DEF ByteAt
  <2>4. end - pos < READ_SIZE + MIN_MATCH
    BY <1>1, <1>3, SizeFacts
  <2> QED BY <2>2, <2>3, <2>4 DEF RingHolds
<1>6. Numbered([head |-> head, prev |-> prev])
  <2>1. ASSUME NEW S \in SUBSET first PROVE Newest(S) \in Spot
    <3>1. S \in SUBSET (0..m - 3) /\ m - 3 \in Int /\ 0 \in Nat
      BY <1>3
    <3> QED BY <3>1, NewestNumber
  <2>2. \A h : {p \in first : hash(p) = h} \in SUBSET first
    OBVIOUS
  <2>3. \A i : {p \in first : p < i /\ hash(p) = hash(i)} \in SUBSET first
    OBVIOUS
  <2> HIDE DEF first, hash
  <2>4. \A h \in DOMAIN head : head[h] \in Spot
    BY <1>2, <2>1, <2>2
  <2>5. DOMAIN prev = 0..BUF_SIZE - 1
    BY <1>2
  <2>6. ASSUME NEW i \in 0..BUF_SIZE - 1 PROVE prev[i] \in Spot
    <3>1. prev[i] = IF i \in first THEN Newest({p \in first : p < i /\ hash(p) = hash(i)}) ELSE 0
      BY <1>2
    <3>2. Newest({p \in first : p < i /\ hash(p) = hash(i)}) \in Spot
      BY <2>1, <2>3
    <3>3. 0 \in Spot
      BY DEF Spot
    <3> QED BY <3>1, <3>2, <3>3
  <2> QED BY <2>4, <2>5, <2>6 DEF Numbered
<1>7. BlocksFit
  BY <1>1 DEF BlocksFit
<1>8. Stands(ExpandedBlocks(input.master, blocks), ibuf, pos)
  <2>1. ibuf \in Seq(Token) /\ Len(ibuf) = 0
    BY <1>1
  <2>2. TokensFit(ibuf)
    BY <2>1 DEF TokensFit
  <2>3. Expanded(ExpandedBlocks(input.master, blocks), ibuf) = input.master
    BY <1>1, ExpandedNone, NoBlocks
  <2>4. SubSeq(Whole, 1, m) = input.master
    <3>1. SubSeq(Whole, 1, m) = SubSeq(input.master, 1, m)
      <4>1. CASE m = 0
        <5>1. 1 > m /\ m \in Int
          BY <4>1
        <5> QED BY <5>1, SubSeqEmpty
      <4>2. CASE m # 0
        <5>1. 1 \in 1..Len(input.master) /\ m \in 1..Len(input.master)
          BY <1>3, <4>2 DEF m
        <5> QED BY <1>3, <5>1, SubSeqOfConcat1 DEF Whole
      <4> QED BY <4>1, <4>2
    <3>2. SubSeq(input.master, 1, m) = input.master
      BY <1>3, SubSeqFull DEF m
    <3> QED BY <3>1, <3>2
  <2> QED BY <1>1, <2>1, <2>2, <2>3, <2>4 DEF Stands
<1>9. Used(ibuf) <= FLUSH
  BY <1>1, UsedNone, SizeFacts
<1> QED BY <1>4, <1>5, <1>6, <1>7, <1>8, <1>9 DEF MatcherInv

LEMMA LoadInv ==
  ASSUME MatchAssumption, MatcherInv, Load
  PROVE  MatcherInv'
<1> DEFINE e0 == end % BUF_SIZE
<1>1. /\ stage = "Running" /\ end - pos < MIN_MATCH /\ remaining > 0
      /\ UNCHANGED <<input, head, prev, pos, ibuf, blocks, stage>>
  BY DEF Load
<1>2. PICK n \in 1..Chunk :
          /\ ring' = [i \in DOMAIN ring |->
                         LET k == i - (end % BUF_SIZE) IN IF k \in 0..n - 1 THEN Whole[end + k + 1] ELSE ring[i]]
          /\ end' = end + n
          /\ remaining' = remaining - n
  BY DEF Load
<1>3. /\ end \in Nat /\ pos \in Nat /\ remaining \in Nat /\ pos <= end /\ end + remaining = Len(Whole)
      /\ BUF_SIZE \in Nat \ {0} /\ READ_SIZE \in Nat /\ MIN_MATCH = 3 /\ input \in Inputs
  BY SizeFacts DEF MatcherInv, Counts
<1>4. e0 \in 0..BUF_SIZE - 1
  BY <1>3, ModRange
<1> HIDE DEF e0
<1>5. n \in Nat /\ 1 <= n /\ n <= remaining /\ n <= READ_SIZE /\ n <= BUF_SIZE - e0
  <2>1. Chunk = Small(Small(remaining, READ_SIZE), BUF_SIZE - e0)
    BY DEF Chunk, e0
  <2>2. Chunk \in Int /\ Chunk <= remaining /\ Chunk <= READ_SIZE /\ Chunk <= BUF_SIZE - e0
    BY <1>3, <1>4, <2>1 DEF Small
  <2> HIDE DEF Chunk
  <2>3. n \in Int /\ 1 <= n /\ n <= Chunk
    BY <1>2, <2>2
  <2>4. BUF_SIZE - e0 \in Int
    BY <1>3, <1>4
  <2> QED BY <1>3, <2>2, <2>3, <2>4
<1>6. Whole' = Whole /\ Whole \in Seq(Nat)
  BY <1>1, <1>3, WholeFacts DEF Whole
<1>7. Counts'
  <2>1. end' \in Nat /\ remaining' \in Nat /\ pos' <= end' /\ end' + remaining' = Len(Whole')
    BY <1>1, <1>2, <1>3, <1>5, <1>6
  <2> QED BY <1>1, <1>3, <2>1 DEF Counts
<1>8. ring \in [0..BUF_SIZE - 1 -> Nat] /\ \A q \in 0..end - 1 : end - BUF_SIZE <= q => ByteAt(q) = Whole[q + 1]
  BY <1>1 DEF MatcherInv, RingHolds
<1>9. \A i \in 0..BUF_SIZE - 1 : ring'[i] = IF i - e0 \in 0..n - 1 THEN Whole[end + (i - e0) + 1] ELSE ring[i]
  BY <1>2, <1>8 DEF e0
<1>10. ring' \in [0..BUF_SIZE - 1 -> Nat]
  <2>1. \A k \in 0..n - 1 : Whole[end + k + 1] \in Nat
    <3>1. ASSUME NEW k \in 0..n - 1 PROVE Whole[end + k + 1] \in Nat
      <4>1. end + k + 1 \in 1..Len(Whole)
        BY <1>3, <1>5
      <4> QED BY <1>6, <4>1, ElementOfSeq
    <3> QED BY <3>1
  <2>2. ring' = [i \in 0..BUF_SIZE - 1 |-> IF i - e0 \in 0..n - 1 THEN Whole[end + (i - e0) + 1] ELSE ring[i]]
    BY <1>2, <1>8 DEF e0
  <2>3. \A i \in 0..BUF_SIZE - 1 : (IF i - e0 \in 0..n - 1 THEN Whole[end + (i - e0) + 1] ELSE ring[i]) \in Nat
    BY <1>8, <2>1
  <2> QED BY <2>2, <2>3
<1>11. ASSUME NEW q \in 0..end' - 1, end' - BUF_SIZE <= q PROVE ring'[q % BUF_SIZE] = Whole[q + 1]
  <2> DEFINE i == q % BUF_SIZE
  <2>1. q \in Int /\ 0 <= q /\ q < end + n /\ end + n - BUF_SIZE <= q
    BY <1>2, <1>3, <1>5, <1>11
  <2>2. i \in 0..BUF_SIZE - 1
    BY <1>3, <2>1, ModRange
  <2> HIDE DEF i
  <2>3. ASSUME NEW k \in 0..n - 1 PROVE (end + k) % BUF_SIZE = e0 + k
    <3> DEFINE d == end \div BUF_SIZE
    <3>1. d \in Int /\ end = BUF_SIZE * d + e0
      BY <1>3, ModRange DEF e0
    <3> HIDE DEF d
    <3> DEFINE r == e0 + k
               a == end + k
    <3>2. r \in 0..BUF_SIZE - 1 /\ a \in Int /\ a = BUF_SIZE * d + r
      BY <1>3, <1>4, <1>5, <3>1
    <3> HIDE DEF r, a
    <3>3. a % BUF_SIZE = r
      BY <1>3, <3>1, <3>2, ModUnique, ZenonT(30)
    <3> QED BY <3>3 DEF r, a
  <2>4. CASE q >= end
    <3> DEFINE k == q - end
    <3>1. k \in 0..n - 1 /\ end + k = q
      BY <1>3, <1>5, <2>1, <2>4
    <3> HIDE DEF k
    <3>2. i = e0 + k
      BY <2>3, <3>1 DEF i
    <3>3. i - e0 = k
      BY <1>4, <3>1, <3>2
    <3>4. ring'[i] = Whole[end + k + 1]
      BY <1>9, <2>2, <3>1, <3>3
    <3> QED BY <3>1, <3>4 DEF i
  <2>5. CASE q < end
    <3>1. ASSUME i - e0 \in 0..n - 1 PROVE FALSE
      <4> DEFINE k == i - e0
      <4>1. k \in 0..n - 1 /\ e0 + k = i
        BY <1>4, <2>2, <3>1
      <4> HIDE DEF k
      <4>2. (end + k) % BUF_SIZE = q % BUF_SIZE
        BY <2>3, <4>1 DEF i
      <4>3. end + k \in Int /\ (end + k) - q < BUF_SIZE /\ q - (end + k) < BUF_SIZE
        BY <1>3, <1>5, <2>1, <2>5, <4>1
      <4>4. end + k = q
        BY <1>3, <2>1, <4>2, <4>3, ModSame
      <4> QED BY <1>3, <2>1, <2>5, <4>1, <4>4
    <3>2. ring'[i] = ring[i]
      BY <1>9, <2>2, <3>1
    <3>3. q \in 0..end - 1 /\ end - BUF_SIZE <= q
      BY <1>3, <1>5, <2>1, <2>5
    <3>4. ring[i] = Whole[q + 1]
      BY <1>8, <3>3 DEF ByteAt, i
    <3> QED BY <3>2, <3>4 DEF i
  <2> QED BY <1>3, <2>1, <2>4, <2>5
<1>12. RingHolds'
  <2>1. end' - pos' < READ_SIZE + 3
    BY <1>1, <1>2, <1>3, <1>5
  <2>2. \A q \in 0..end' - 1 : end' - BUF_SIZE <= q => ring'[q % BUF_SIZE] = Whole'[q + 1]
    BY <1>6, <1>11
  <2> QED BY <1>3, <1>10, <2>1, <2>2 DEF RingHolds, ByteAt
<1> QED BY <1>1, <1>6, <1>7, <1>12 DEF MatcherInv, BlocksFit, Numbered, Stands

LEMMA LoadFailsInv ==
  ASSUME MatchAssumption, MatcherInv, LoadFails
  PROVE  MatcherInv'
<1>1. /\ UNCHANGED <<input, ring, head, prev, pos, end, remaining, ibuf, blocks>>
      /\ stage' = "Failed"
  BY DEF LoadFails
<1>2. Whole' = Whole
  BY <1>1 DEF Whole
<1>3. Counts' /\ RingHolds'
  BY <1>1, <1>2 DEF MatcherInv, Counts, RingHolds
<1> QED BY <1>1, <1>2, <1>3 DEF MatcherInv, BlocksFit, Numbered, Stands

LEMMA NumberedAgain ==
  ASSUME NEW chains, Numbered(chains)
  PROVE  Numbered([head |-> chains.head, prev |-> chains.prev])
BY DEF Numbered

\* A step of Compress that codes tokens up to the position p.
LEMMA TokensTo ==
  ASSUME MatchAssumption, MatcherInv, stage = "Running", NEW p \in Nat, pos <= p, p <= end, pos' = p,
         NEW toks, Stands(ExpandedBlocks(input.master, blocks), toks, p), Used(toks) <= IBUF_SIZE,
         FlushWhenFull(toks), UNCHANGED <<input, ring, end, remaining, stage>>,
         Numbered([head |-> head', prev |-> prev'])
  PROVE  MatcherInv'
<1>1. Whole' = Whole /\ input' = input
  BY DEF Whole
<1>2. Counts'
  BY <1>1 DEF MatcherInv, Counts
<1>3. RingHolds'
  <2>1. end' - pos' < READ_SIZE + MIN_MATCH
    <3>1. end - pos < READ_SIZE + 3 /\ pos \in Nat /\ end \in Nat /\ READ_SIZE \in Nat
      BY SizeFacts DEF MatcherInv, RingHolds, Counts
    <3> QED BY <3>1, SizeFacts
  <2>2. ring' \in [0..BUF_SIZE - 1 -> Nat]
    BY DEF MatcherInv, RingHolds
  <2>3. \A q \in 0..end' - 1 : end' - BUF_SIZE <= q => ring'[q % BUF_SIZE] = Whole'[q + 1]
    BY <1>1 DEF MatcherInv, RingHolds, ByteAt
  <2> QED BY <2>1, <2>2, <2>3 DEF RingHolds, ByteAt
<1>4. /\ BlocksFit' /\ ibuf' \in Seq(Token) /\ TokensFit(ibuf')
      /\ Expanded(ExpandedBlocks(input.master, blocks'), ibuf') = SubSeq(Whole, 1, p)
      /\ Used(ibuf') <= FLUSH
  <2>1. BlocksFit
    BY DEF MatcherInv
  <2> QED BY <1>1, <2>1, FlushStands
<1>5. Stands(ExpandedBlocks(input.master, blocks), ibuf, pos)'
  BY <1>1, <1>4 DEF Stands, TokensFit
<1>6. Numbered([head |-> head, prev |-> prev])'
  BY DEF Numbered
<1> QED BY <1>2, <1>3, <1>4, <1>5, <1>6 DEF MatcherInv

LEMMA CompressInv ==
  ASSUME MatchAssumption, MatcherInv, Compress
  PROVE  MatcherInv'
<1> DEFINE sofar == ExpandedBlocks(input.master, blocks)
           chains == [head |-> head, prev |-> prev]
           here == Enter(chains, pos)
           one == FindMatch(chains, pos, input.search)
           two == FindMatch(here, pos + 1, input.lazyDepth)
           lazy == one.len < input.lazyLimit /\ end - pos > one.len /\ two.len > one.len
           start == IF lazy THEN pos + 1 ELSE pos
           match == IF lazy THEN two ELSE one
           last == Small(start + match.len - 1, end - 3)
           entered == EnterAll(here, pos + 1, last)
           lit == Lit(ByteAt(pos))
           mat == Mat(match.dist, match.len)
<1>1. stage = "Running" /\ end - pos >= 3 /\ UNCHANGED <<input, ring, end, remaining, stage>>
  BY DEF Compress, MIN_MATCH
<1>2. IF one.len = 0
      THEN FlushWhenFull(Append(ibuf, lit)) /\ head' = here.head /\ prev' = here.prev /\ pos' = pos + 1
      ELSE /\ FlushWhenFull(ibuf \o (IF lazy THEN <<lit>> ELSE <<>>) \o <<mat>>)
           /\ head' = entered.head /\ prev' = entered.prev /\ pos' = start + match.len
  BY DEF Compress
<1>3. /\ end \in Nat /\ pos \in Nat /\ input \in Inputs /\ pos + 1 \in Nat /\ pos + 1 <= end /\ pos < end
      /\ input.search \in Nat /\ input.lazyDepth \in Nat
  BY <1>1 DEF MatcherInv, Counts, MatchAssumption
<1>4. Numbered(chains)
  BY DEF MatcherInv
<1> HIDE DEF chains
<1>5. Numbered(here)
  BY <1>3, <1>4, EnterNumbered DEF Enter
<1> HIDE DEF here
<1>6. one \in [len : Nat, dist : Nat] /\ (one = [len |-> 0, dist |-> 0] \/ Right(pos, one))
  <2>1. pos <= end
    BY <1>3
  <2> QED BY <1>3, <1>4, <2>1, FindRight
<1>7. two \in [len : Nat, dist : Nat] /\ (two = [len |-> 0, dist |-> 0] \/ Right(pos + 1, two))
  BY <1>3, <1>5, FindRight
<1> HIDE DEF one, two
<1>8. Counts /\ RingHolds /\ Stands(sofar, ibuf, pos) /\ ibuf \in Seq(Token) /\ Used(ibuf) <= FLUSH /\ Used(ibuf) \in Nat
  <2>1. Stands(sofar, ibuf, pos) /\ ibuf \in Seq(Token)
    BY DEF MatcherInv, Stands
  <2>2. Used(ibuf) \in Nat
    BY <2>1, UsedNumber
  <2> QED BY <2>1, <2>2 DEF MatcherInv
<1>9. Stands(sofar, Append(ibuf, lit), pos + 1) /\ Used(Append(ibuf, lit)) = Used(ibuf) + 1
  <2>1. pos <= pos
    BY <1>3
  <2> HIDE DEF sofar
  <2> QED BY <1>1, <1>3, <1>8, <2>1, LiteralStands
<1> HIDE DEF lit
<1>10. FLUSH \in Nat /\ IBUF_SIZE \in Nat /\ FLUSH + 6 <= IBUF_SIZE
  BY SizeFacts
<1>11. CASE one.len = 0
  <2>1. FlushWhenFull(Append(ibuf, lit)) /\ head' = here.head /\ prev' = here.prev /\ pos' = pos + 1
    BY <1>2, <1>11
  <2>2. Numbered([head |-> head', prev |-> prev'])
    BY <1>5, <2>1, NumberedAgain
  <2>3. Used(Append(ibuf, lit)) <= IBUF_SIZE /\ pos <= pos + 1
    BY <1>3, <1>8, <1>9, <1>10
  <2>4. Stands(ExpandedBlocks(input.master, blocks), Append(ibuf, lit), pos + 1)
    BY <1>9
  <2> QED BY <1>1, <1>3, <2>1, <2>2, <2>3, <2>4, TokensTo
<1>12. CASE one.len # 0
  <2> DEFINE before == IF lazy THEN Append(ibuf, lit) ELSE ibuf
             toks == Append(before, mat)
  <2>1. Right(pos, one) /\ one.len >= 3
    <3>1. Right(pos, one)
      BY <1>6, <1>12
    <3> QED BY <3>1 DEF Right, MIN_MATCH
  <2>2. /\ start \in Nat /\ pos <= start /\ start <= end
        /\ match \in [len : Nat, dist : Nat] /\ Right(start, match)
        /\ Stands(sofar, before, start) /\ Used(before) \in Nat /\ Used(before) <= FLUSH + 1 /\ before \in Seq(Token)
    <3>1. CASE lazy
      <4>1. start = pos + 1 /\ match = two /\ before = Append(ibuf, lit) /\ two.len > one.len
        BY <3>1
      <4>2. two # [len |-> 0, dist |-> 0]
        BY <1>6, <2>1, <4>1
      <4>3. Right(start, match) /\ match \in [len : Nat, dist : Nat]
        BY <1>7, <4>1, <4>2
      <4>4. Used(before) \in Nat /\ Used(before) <= FLUSH + 1
        BY <1>8, <1>9, <1>10, <4>1
      <4>5. Stands(sofar, before, start) /\ before \in Seq(Token)
        BY <1>9, <4>1 DEF Stands
      <4> QED BY <1>3, <4>1, <4>3, <4>4, <4>5
    <3>2. CASE ~lazy
      <4>1. start = pos /\ match = one /\ before = ibuf
        BY <3>2
      <4>2. pos <= end /\ Used(ibuf) <= FLUSH + 1
        BY <1>3, <1>8, <1>10
      <4> QED BY <1>3, <1>6, <1>8, <2>1, <4>1, <4>2
    <3> QED BY <3>1, <3>2
  <2>3. ibuf \o (IF lazy THEN <<lit>> ELSE <<>>) \o <<mat>> = toks
    <3>1. mat \in Token
      BY <2>2 DEF Mat, Token
    <3>2. lit \in Token
      <4>1. Append(ibuf, lit) \in Seq(Token) /\ Len(Append(ibuf, lit)) = Len(ibuf) + 1
            /\ Append(ibuf, lit)[Len(ibuf) + 1] = lit /\ Len(ibuf) \in Nat
        BY <1>8, <1>9 DEF Stands
      <4>2. Len(ibuf) + 1 \in 1..Len(Append(ibuf, lit))
        BY <4>1
      <4> QED BY <4>1, <4>2, ElementOfSeq
    <3>3. \A s \in Seq(Token), t \in Token : s \o <<t>> = Append(s, t) /\ s \o <<>> = s
      BY AppendIsConcat, ConcatEmptySeq
    <3> HIDE DEF mat, lazy
    <3>4. ibuf \o (IF lazy THEN <<lit>> ELSE <<>>) = before
      BY <1>8, <3>2, <3>3
    <3> HIDE DEF before
    <3>5. before \o <<mat>> = Append(before, mat)
      BY <2>2, <3>1, <3>3
    <3> QED BY <3>4, <3>5
  <2> HIDE DEF lazy, start, match, before
  <2>4. Stands(sofar, toks, start + match.len) /\ Used(toks) <= Used(before) + 3
    <3> HIDE DEF sofar
    <3> QED BY <1>1, <1>8, <2>2, MatchStands
  <2>5. toks \in Seq(Token) /\ Used(toks) \in Nat
    <3>1. toks \in Seq(Token)
      BY <2>4 DEF Stands
    <3> QED BY <3>1, UsedNumber
  <2>6. start + match.len \in Nat /\ pos <= start + match.len /\ start + match.len <= end
    <3>1. match.len \in Nat /\ match.len <= end - start
      BY <2>2 DEF Right
    <3> QED BY <1>3, <2>2, <3>1
  <2>7. /\ FlushWhenFull(toks)
        /\ head' = entered.head /\ prev' = entered.prev /\ pos' = start + match.len
    BY <1>2, <1>12, <2>3 DEF lazy, start, match
  <2>8. Numbered(entered)
    <3> DEFINE a == start + match.len - 1
    <3>1. a \in Int
      BY <2>2
    <3> HIDE DEF a
    <3>2. last = Small(a, end - 3)
      BY DEF a
    <3>3. Small(a, end - 3) \in Int
      BY <1>3, <3>1 DEF Small
    <3>4. last \in Int
      BY <3>2, <3>3
    <3> HIDE DEF last
    <3> QED BY <1>3, <1>5, <3>4, EnterNumbered
  <2> HIDE DEF entered, toks
  <2>9. Numbered([head |-> head', prev |-> prev'])
    BY <2>7, <2>8, NumberedAgain
  <2>10. Used(toks) <= IBUF_SIZE
    BY <1>10, <2>2, <2>4, <2>5
  <2>11. Stands(ExpandedBlocks(input.master, blocks), toks, start + match.len)
    BY <2>4
  <2> QED BY <1>1, <2>6, <2>7, <2>9, <2>10, <2>11, TokensTo
<1> QED BY <1>11, <1>12

LEMMA FinishInv ==
  ASSUME MatchAssumption, MatcherInv, FinishStream
  PROVE  MatcherInv'
<1> DEFINE sofar == ExpandedBlocks(input.master, blocks)
           short == [i \in 1..end - pos |-> Lit(ByteAt(pos + i - 1))]
           toks == ibuf \o short
<1>1. /\ stage = "Running" /\ end - pos < 3 /\ remaining = 0
      /\ blocks' = Append(blocks, toks) /\ pos' = end /\ ibuf' = <<>> /\ stage' = "Done"
      /\ UNCHANGED <<input, ring, head, prev, end, remaining>>
  BY DEF FinishStream, MIN_MATCH
<1>2. end \in Nat /\ pos \in Nat /\ pos <= end /\ end = Len(Whole) /\ input \in Inputs
  BY <1>1 DEF MatcherInv, Counts
<1>3. Whole' = Whole
  BY <1>1 DEF Whole
<1>4. Counts /\ RingHolds /\ Stands(sofar, ibuf, pos) /\ ibuf \in Seq(Token) /\ Used(ibuf) <= FLUSH /\ Used(ibuf) \in Nat
  <2>1. Stands(sofar, ibuf, pos) /\ ibuf \in Seq(Token)
    BY DEF MatcherInv, Stands
  <2>2. Used(ibuf) \in Nat
    BY <2>1, UsedNumber
  <2> QED BY <2>1, <2>2 DEF MatcherInv
<1>5. FLUSH \in Nat /\ IBUF_SIZE \in Nat /\ FLUSH + 6 <= IBUF_SIZE
  BY SizeFacts
<1>6. Stands(sofar, toks, end) /\ Used(toks) <= IBUF_SIZE
  <2> HIDE DEF sofar
  <2> DEFINE a == Lit(ByteAt(pos))
             b == Lit(ByteAt(pos + 1))
  <2>1. end = pos \/ end = pos + 1 \/ end = pos + 2
    BY <1>1, <1>2
  <2>2. CASE end = pos
    <3>1. short = <<>>
      <4>1. 1..end - pos = {}
        BY <1>2, <2>2
      <4> QED BY <4>1
    <3> HIDE DEF short
    <3>2. toks = ibuf
      BY <1>4, <3>1
    <3> HIDE DEF toks
    <3>3. Used(ibuf) <= IBUF_SIZE
      BY <1>4, <1>5
    <3> QED BY <1>4, <2>2, <3>2, <3>3
  <2>3. CASE end # pos
    <3>1. pos < end /\ pos <= pos
      BY <1>2, <2>3
    <3>2. Stands(sofar, Append(ibuf, a), pos + 1) /\ Used(Append(ibuf, a)) = Used(ibuf) + 1
      BY <1>1, <1>2, <1>4, <3>1, LiteralStands
    <3> HIDE DEF a
    <3>3. Append(ibuf, a) = ibuf \o <<a>> /\ Append(ibuf, a) \in Seq(Token)
      <4>1. Append(ibuf, a) \in Seq(Token)
        BY <3>2 DEF Stands
      <4> QED BY <1>4, <4>1
    <3>4. CASE end = pos + 1
      <4>1. short = <<a>>
        <5>1. 1..end - pos = 1..1 /\ pos + 1 - 1 = pos
          BY <1>2, <3>4
        <5>2. short = [i \in 1..1 |-> Lit(ByteAt(pos + i - 1))]
          BY <5>1
        <5>3. \A i \in 1..1 : i = 1
          OBVIOUS
        <5>4. short = [i \in 1..1 |-> a]
          BY <5>1, <5>2, <5>3 DEF a
        <5> HIDE DEF short
        <5> QED BY <5>4
      <4> HIDE DEF short
      <4>2. toks = Append(ibuf, a)
        BY <3>3, <4>1
      <4> HIDE DEF toks
      <4>3. Used(Append(ibuf, a)) <= IBUF_SIZE
        BY <1>4, <1>5, <3>2
      <4> QED BY <3>2, <3>4, <4>2, <4>3
    <3>5. CASE end = pos + 2
      <4> DEFINE p == pos + 1
                 more == Append(ibuf, a)
      <4>1. p \in Nat /\ pos <= p /\ p < end /\ Stands(sofar, more, p) /\ p + 1 = end
        BY <1>2, <3>2, <3>5
      <4>2. b = Lit(ByteAt(p))
        OBVIOUS
      <4> HIDE DEF p, more, b
      <4>3. Stands(sofar, Append(more, b), p + 1) /\ Used(Append(more, b)) = Used(more) + 1
        BY <1>1, <1>4, <4>1, <4>2, LiteralStands
      <4>4. short = <<a, b>>
        <5>1. 1..end - pos = 1..2 /\ pos + 1 - 1 = pos /\ pos + 2 - 1 = p
          BY <1>2, <3>5 DEF p
        <5>2. short = [i \in 1..2 |-> Lit(ByteAt(pos + i - 1))]
          BY <5>1
        <5>3. \A i \in 1..2 : i = 1 \/ i = 2
          OBVIOUS
        <5>4. \A i \in 1..2 : Lit(ByteAt(pos + i - 1)) = IF i = 1 THEN a ELSE b
          BY <4>2, <5>1, <5>3 DEF a
        <5>5. short = [i \in 1..2 |-> IF i = 1 THEN a ELSE b]
          BY <5>2, <5>4
        <5> HIDE DEF short
        <5> QED BY <5>5
      <4> HIDE DEF short
      <4>5. toks = Append(more, b)
        <5>1. Append(more, b) \in Seq(Token)
          BY <4>3 DEF Stands
        <5>2. a \in Token /\ b \in Token
          <6>1. /\ more[Len(ibuf) + 1] = a /\ Len(more) = Len(ibuf) + 1 /\ Len(ibuf) \in Nat
            BY <1>4 DEF more
          <6>2. more \in Seq(Token) /\ Len(more) \in Nat
            BY <3>3 DEF more
          <6>3. Append(more, b)[Len(more) + 1] = b /\ Len(Append(more, b)) = Len(more) + 1
            BY <6>2
          <6>4. Len(more) + 1 \in 1..Len(Append(more, b)) /\ Len(ibuf) + 1 \in 1..Len(more)
            BY <6>1, <6>2, <6>3
          <6>5. more[Len(ibuf) + 1] \in Token /\ Append(more, b)[Len(more) + 1] \in Token
            BY <5>1, <6>2, <6>4, ElementOfSeq
          <6> QED BY <6>1, <6>3, <6>5
        <5>3. \A s \in Seq(Token), t, u \in Token : s \o <<t, u>> = Append(Append(s, t), u)
          OBVIOUS
        <5> QED BY <1>4, <4>4, <5>2, <5>3 DEF more
      <4> HIDE DEF toks
      <4>6. Used(Append(more, b)) <= IBUF_SIZE
        BY <1>4, <1>5, <3>2, <4>3 DEF more
      <4> QED BY <4>1, <4>3, <4>5, <4>6
    <3> QED BY <2>1, <2>3, <3>4, <3>5
  <2> QED BY <2>2, <2>3
<1> HIDE DEF toks
<1>7. BlocksFit /\ blocks \in Seq(Seq(Token)) /\ toks \in Seq(Token) /\ TokensFit(toks)
  BY <1>6 DEF MatcherInv, BlocksFit, Stands
<1>8. BlocksFit'
  <2>1. /\ blocks' \in Seq(Seq(Token)) /\ Len(blocks') = Len(blocks) + 1 /\ blocks'[Len(blocks) + 1] = toks
        /\ \A b \in 1..Len(blocks) : blocks'[b] = blocks[b]
    BY <1>1, <1>7
  <2>2. \A b \in 1..Len(blocks') : b \in 1..Len(blocks) \/ b = Len(blocks) + 1
    BY <1>7, <2>1
  <2>3. ASSUME NEW b \in 1..Len(blocks') PROVE TokensFit(blocks'[b]) /\ Used(blocks'[b]) <= IBUF_SIZE
    <3>1. CASE b \in 1..Len(blocks)
      BY <1>7, <2>1, <3>1 DEF BlocksFit
    <3>2. CASE b = Len(blocks) + 1
      BY <1>6, <1>7, <2>1, <3>2
    <3> QED BY <2>2, <3>1, <3>2
  <2> QED BY <2>1, <2>3 DEF BlocksFit
<1>9. Stands(ExpandedBlocks(input.master, blocks), ibuf, pos)'
  <2>1. ibuf' \in Seq(Token) /\ Len(ibuf') = 0
    BY <1>1
  <2>2. Expanded(ExpandedBlocks(input.master, blocks'), ibuf') = ExpandedBlocks(input.master, blocks')
    BY <1>1, ExpandedNone
  <2>3. ExpandedBlocks(input.master, blocks') = Expanded(sofar, toks)
    BY <1>1, <1>7, OneMoreBlock
  <2>4. Expanded(sofar, toks) = SubSeq(Whole, 1, end)
    BY <1>6 DEF Stands
  <2>5. Expanded(ExpandedBlocks(input'.master, blocks'), ibuf') = SubSeq(Whole', 1, pos')
    BY <1>1, <1>3, <2>2, <2>3, <2>4
  <2>6. TokensFit(ibuf')
    BY <2>1 DEF TokensFit
  <2> QED BY <2>1, <2>5, <2>6 DEF Stands, TokensFit
<1>10. Used(ibuf') <= FLUSH
  BY <1>1, <1>5, UsedNone
<1>11. Counts' /\ RingHolds' /\ Numbered([head |-> head, prev |-> prev])'
  BY <1>1, <1>2, <1>3, <1>4 DEF MatcherInv, Counts, RingHolds, Numbered
<1> QED BY <1>8, <1>9, <1>10, <1>11 DEF MatcherInv, Used

LEMMA InvStands ==
  ASSUME MatchAssumption, MatcherInv
  PROVE  MatchesStandForData
<1>1. \A toks \in Seq(Token) : TokensFit(toks) /\ Used(toks) <= IBUF_SIZE => Within(toks)
  <2>1. \A toks \in Seq(Token) : DOMAIN toks = 1..Len(toks)
    OBVIOUS
  <2> QED BY <2>1 DEF Within, TokensFit
<1>2. ibuf \in Seq(Token) /\ TokensFit(ibuf) /\ Used(ibuf) <= IBUF_SIZE
  <2>1. ibuf \in Seq(Token) /\ TokensFit(ibuf) /\ Used(ibuf) <= FLUSH
    BY DEF MatcherInv, Stands
  <2>2. Used(ibuf) \in Nat
    BY <2>1, UsedNumber
  <2> QED BY <2>1, <2>2, SizeFacts
<1>3. \A b \in DOMAIN blocks : Within(blocks[b])
  <2>1. blocks \in Seq(Seq(Token)) /\ DOMAIN blocks = 1..Len(blocks) /\ \A b \in 1..Len(blocks) : blocks[b] \in Seq(Token)
    BY DEF MatcherInv, BlocksFit
  <2> QED BY <1>1, <2>1 DEF MatcherInv, BlocksFit
<1> QED BY <1>1, <1>2, <1>3 DEF MatcherInv, Counts, Stands, MatchesStandForData

(* Every file that uc2_compress_ex() compresses comes back from its tokens *)
(* at every step, whatever the master, the data, the level's parameters,   *)
(* the hash and the pieces the data is read in: no match copies what the   *)
(* ring has lost, reaches before the first byte or past the last, and no   *)
(* block overruns its buffer.                                              *)
THEOREM TokensStandForData == MatcherSpec => []MatchesStandForData
<1>1. MatcherInit => MatcherInv
  BY MatchAssumption, MatcherInitInv
<1>2. MatcherInv /\ [MatcherNext]_matcher => MatcherInv'
  <2>1. ASSUME MatcherInv, MatcherNext PROVE MatcherInv'
    BY <2>1, MatchAssumption, LoadInv, LoadFailsInv, CompressInv, FinishInv DEF MatcherNext
  <2>2. ASSUME MatcherInv, UNCHANGED matcher PROVE MatcherInv'
    <3>1. UNCHANGED <<input, ring, head, prev, pos, end, remaining, ibuf, blocks, stage>>
      BY <2>2 DEF matcher
    <3>2. Whole' = Whole
      BY <3>1 DEF Whole
    <3>3. Counts' /\ RingHolds' /\ BlocksFit' /\ Numbered([head |-> head, prev |-> prev])'
      BY <2>2, <3>1, <3>2 DEF MatcherInv, Counts, RingHolds, ByteAt, BlocksFit, Numbered
    <3>4. Stands(ExpandedBlocks(input.master, blocks), ibuf, pos)' /\ (Used(ibuf) <= FLUSH)'
      BY <2>2, <3>1, <3>2 DEF MatcherInv, Stands
    <3> QED BY <3>3, <3>4 DEF MatcherInv
  <2> QED BY <2>1, <2>2
<1>3. MatcherInv => MatchesStandForData
  BY MatchAssumption, InvStands
<1> QED BY <1>1, <1>2, <1>3, PTL DEF MatcherSpec

-----------------------------------------------------------------------------
LEMMA ModPlus ==
  ASSUME NEW B \in Nat \ {0}, NEW a \in Int, NEW b \in Int
  PROVE  ((a % B) + b) % B = (a + b) % B
<1> DEFINE q == a \div B
           r == a % B
           p == (r + b) \div B
           m == (r + b) % B
<1>1. q \in Int /\ r \in Int /\ a = B * q + r
  BY ModRange
<1> HIDE DEF q, r
<1>2. r + b \in Int
  BY <1>1
<1>3. p \in Int /\ m \in 0..B - 1 /\ r + b = B * p + m
  BY <1>2, ModRange
<1> HIDE DEF p, m
<1> DEFINE u == q + p
<1>4. u \in Int /\ B * u = B * q + B * p
  BY <1>1, <1>3
<1> HIDE DEF u
<1>5. a + b \in Int /\ a + b = B * u + m
  BY <1>1, <1>3, <1>4
<1> DEFINE e == a + b
<1>7. e \in Int /\ e = B * u + m
  BY <1>5
<1> HIDE DEF e
<1>8. e % B = m
  <2>1. m \in 0..B - 1
    BY <1>3
  <2>2. u \in Int
    BY <1>4
  <2> QED BY <2>1, <2>2, <1>7, ModUnique
<1>6. (a + b) % B = m
  BY <1>8 DEF e
<1> QED BY <1>6 DEF m, r

-----------------------------------------------------------------------------
(***************************************************************************)
(* The delta: pieces in a row give what the whole gives.                   *)
(***************************************************************************)
Channels(s) == [stride : {s}, ctr : 0..s - 1, arra : [0..9 -> Byte]]
Slot(db, i) == (db.ctr + i - 1) % db.stride
LastAt(db, p, c, i) == i \in 1..Len(p) /\ Slot(db, i) = c /\ \A j \in i + 1..Len(p) : Slot(db, j) # c
NeverAt(db, p, c) == \A i \in 1..Len(p) : Slot(db, i) # c
Hears(db, p, c, b) == /\ NeverAt(db, p, c) => b = db.arra[c]
                      /\ \A i \in 1..Len(p) : LastAt(db, p, c, i) => b = p[i]

LEMMA ChannelFacts ==
  ASSUME NEW s \in 1..10, NEW db \in Channels(s)
  PROVE  /\ db.stride = s /\ db.ctr \in 0..s - 1 /\ db.arra \in [0..9 -> Byte]
         /\ \A n \in Int : n % s \in 0..s - 1 /\ n % s \in 0..9
         /\ \A i \in Int : Slot(db, i) = (db.ctr + i - 1) % s /\ Slot(db, i) \in 0..9
<1>1. db.stride = s /\ db.ctr \in 0..s - 1 /\ db.arra \in [0..9 -> Byte]
  BY DEF Channels
<1>2. ASSUME NEW n \in Int PROVE n % s \in 0..s - 1 /\ n % s \in 0..9
  <2>1. s \in Nat \ {0}
    OBVIOUS
  <2>2. n % s \in 0..s - 1
    BY <2>1, ModRange
  <2> QED BY <2>2
<1>3. ASSUME NEW i \in Int PROVE Slot(db, i) = (db.ctr + i - 1) % s /\ Slot(db, i) \in 0..9
  <2>1. db.ctr + i - 1 \in Int /\ Slot(db, i) = (db.ctr + i - 1) % s
    BY <1>1 DEF Slot
  <2> QED BY <2>1, <1>2
<1> QED BY <1>1, <1>2, <1>3

LEMMA PassedIs ==
  ASSUME NEW s \in 1..10, NEW db \in Channels(s), NEW p \in Seq(Byte)
  PROVE  /\ Passed(db, p) \in Channels(s)
         /\ Passed(db, p).ctr = (db.ctr + Len(p)) % s
         /\ \A c \in 0..9 : Hears(db, p, c, Passed(db, p).arra[c])
<1> DEFINE L == Len(p)
           At(c) == {i \in 1..L : Slot(db, i) = c}
           Freshest(c) == CHOOSE i \in At(c) : \A j \in At(c) : j <= i
           heard == [c \in 0..9 |-> IF At(c) = {} THEN db.arra[c] ELSE p[Freshest(c)]]
<1>1. L \in Nat /\ DOMAIN p = 1..L /\ \A i \in 1..L : p[i] \in Byte
  OBVIOUS
<1>2. db.stride = s /\ db.ctr \in 0..s - 1 /\ db.arra \in [0..9 -> Byte] /\ DOMAIN db.arra = 0..9
  BY ChannelFacts
<1>3. Passed(db, p) = [db EXCEPT !.ctr = (db.ctr + L) % s, !.arra = heard]
  BY <1>1, <1>2 DEF Passed, Slot
<1>4. ASSUME NEW c \in 0..9, At(c) # {}
      PROVE  Freshest(c) \in At(c) /\ \A j \in At(c) : j <= Freshest(c)
  <2> DEFINE S == At(c)
  <2>1. S \in SUBSET (0..L) /\ S # {}
    BY <1>1, <1>4
  <2> HIDE DEF S
  <2>2. \E x \in S : \A y \in S : y <= x
    BY <1>1, <2>1, GreatestNat
  <2>3. (CHOOSE i \in S : \A j \in S : j <= i) \in S /\ \A j \in S : j <= (CHOOSE i \in S : \A k \in S : k <= i)
    BY <2>2
  <2> QED BY <2>3 DEF S
<1>5. ASSUME NEW c \in 0..9
      PROVE  heard[c] \in Byte /\ Hears(db, p, c, heard[c])
  <2>1. CASE At(c) = {}
    <3>1. heard[c] = db.arra[c] /\ db.arra[c] \in Byte
      BY <1>2, <2>1
    <3>2. \A i \in 1..L : ~LastAt(db, p, c, i)
      BY <2>1 DEF LastAt
    <3> HIDE DEF heard
    <3> QED BY <3>1, <3>2 DEF Hears
  <2>2. CASE At(c) # {}
    <3> DEFINE n == Freshest(c)
    <3>1. n \in 1..L /\ Slot(db, n) = c /\ \A j \in 1..L : Slot(db, j) = c => j <= n
      BY <1>4, <2>2
    <3>2. heard[c] = p[n]
      BY <2>2
    <3> HIDE DEF heard, n
    <3>3. ~NeverAt(db, p, c)
      BY <3>1 DEF NeverAt
    <3>4. ASSUME NEW i \in 1..L, LastAt(db, p, c, i) PROVE i = n
      <4>1. Slot(db, i) = c /\ i <= n
        BY <3>1, <3>4 DEF LastAt
      <4>2. ~(n \in i + 1..L)
        BY <3>1, <3>4 DEF LastAt
      <4> QED BY <4>1, <4>2, <3>1, <1>1
    <3>5. p[n] \in Byte
      BY <1>1, <3>1
    <3> QED BY <3>2, <3>3, <3>4, <3>5 DEF Hears
  <2> QED BY <2>1, <2>2
<1>6. (db.ctr + L) % s \in 0..s - 1
  <2>1. db.ctr + L \in Int /\ s \in Nat \ {0}
    BY <1>1, <1>2
  <2> QED BY <2>1, ModRange
<1>7. heard \in [0..9 -> Byte]
  BY <1>5
<1> HIDE DEF heard
<1>8. Passed(db, p) \in Channels(s) /\ Passed(db, p).ctr = (db.ctr + L) % s /\ Passed(db, p).arra = heard
  BY <1>3, <1>6, <1>7 DEF Channels
<1> QED BY <1>5, <1>8

LEMMA SlotOn ==
  ASSUME NEW s \in 1..10, NEW db \in Channels(s), NEW p \in Seq(Byte), NEW j \in Int
  PROVE  Slot(Passed(db, p), j) = (db.ctr + Len(p) + j - 1) % s /\ Slot(Passed(db, p), j) = Slot(db, Len(p) + j)
<1>1. Passed(db, p) \in Channels(s) /\ Passed(db, p).ctr = (db.ctr + Len(p)) % s
  BY PassedIs
<1>2. Slot(Passed(db, p), j) = (Passed(db, p).ctr + j - 1) % s
  BY <1>1, ChannelFacts
<1>3. db.ctr \in Int /\ Len(p) \in Int /\ s \in Nat \ {0} /\ db.ctr + Len(p) \in Int /\ j - 1 \in Int
  <2>1. db.ctr \in Int
    BY ChannelFacts
  <2>2. Len(p) \in Nat
    OBVIOUS
  <2> QED BY <2>1, <2>2
<1>4. (((db.ctr + Len(p)) % s) + (j - 1)) % s = ((db.ctr + Len(p)) + (j - 1)) % s
  BY <1>3, ModPlus
<1>5. (db.ctr + Len(p)) % s \in Int
  <2>1. (db.ctr + Len(p)) % s \in 0..s - 1
    BY <1>3, ModRange
  <2> QED BY <2>1
<1>6. ((db.ctr + Len(p)) % s) + (j - 1) = ((db.ctr + Len(p)) % s) + j - 1
  BY <1>3, <1>5
<1>7. (db.ctr + Len(p)) + (j - 1) = db.ctr + Len(p) + j - 1 /\ db.ctr + (Len(p) + j) - 1 = db.ctr + Len(p) + j - 1
  BY <1>3
<1>8. Len(p) + j \in Int
  BY <1>3
<1>9. Slot(db, Len(p) + j) = (db.ctr + (Len(p) + j) - 1) % s
  BY <1>8, ChannelFacts
<1> QED BY <1>1, <1>2, <1>4, <1>6, <1>7, <1>9

\* A slot returns only after a stride.
LEMMA SlotOnce ==
  ASSUME NEW s \in 1..10, NEW db \in Channels(s), NEW i \in Int, NEW k \in Int, i < k, k - i < s
  PROVE  Slot(db, i) # Slot(db, k)
<1>1. db.ctr \in Int /\ s \in Nat \ {0} /\ Slot(db, i) = (db.ctr + i - 1) % s /\ Slot(db, k) = (db.ctr + k - 1) % s
  <2>1. db.ctr \in 0..s - 1 /\ \A n \in Int : Slot(db, n) = (db.ctr + n - 1) % s
    BY ChannelFacts
  <2>2. db.ctr \in Int /\ s \in Nat \ {0}
    BY <2>1
  <2>3. Slot(db, i) = (db.ctr + i - 1) % s
    BY <2>1
  <2>4. Slot(db, k) = (db.ctr + k - 1) % s
    BY <2>1
  <2> QED BY <2>2, <2>3, <2>4
<1> DEFINE a == db.ctr + i - 1
           b == db.ctr + k - 1
<1>2. a \in Int /\ b \in Int /\ a - b < s /\ b - a < s /\ a # b
  BY <1>1
<1> HIDE DEF a, b
<1>3. a % s # b % s
  BY <1>1, <1>2, ModSame
<1> QED BY <1>1, <1>3 DEF a, b

LEMMA SlotAgain ==
  ASSUME NEW s \in 1..10, NEW db \in Channels(s), NEW k \in Int
  PROVE  Slot(db, k - s) = Slot(db, k)
<1>1. db.ctr \in Int /\ s \in Nat \ {0} /\ k - s \in Int
  BY ChannelFacts
<1>2. Slot(db, k) = (db.ctr + k - 1) % s /\ Slot(db, k - s) = (db.ctr + (k - s) - 1) % s
  BY <1>1, ChannelFacts
<1>3. db.ctr + (k - s) - 1 = (db.ctr + k - 1) - s /\ db.ctr + k - 1 \in Int
  BY <1>1
<1> QED BY <1>1, <1>2, <1>3, ModBack

\* f is p and then, up to j, g.
Goes(f, p, g, j) == (\A i \in 1..Len(p) : f[i] = p[i]) /\ (\A i \in 1..j - 1 : f[Len(p) + i] = g[i])

LEMMA EarlierOn ==
  ASSUME NEW s \in 1..10, NEW db \in Channels(s), NEW p \in Seq(Byte), NEW f, NEW g, NEW j \in Nat \ {0},
         Goes(f, p, g, j)
  PROVE  Earlier(db, f, Len(p) + j) = Earlier(Passed(db, p), g, j)
<1> DEFINE L == Len(p)
           on == Passed(db, p)
           c == Slot(db, L + j)
<1>0. (\A i \in 1..L : f[i] = p[i]) /\ (\A i \in 1..j - 1 : f[L + i] = g[i])
  BY DEF Goes
<1>1. L \in Nat /\ s \in Nat /\ j \in Nat /\ s >= 1 /\ j >= 1
  OBVIOUS
<1>2. /\ db.stride = s /\ db.ctr \in 0..s - 1
      /\ on \in Channels(s) /\ on.stride = s
  BY PassedIs, ChannelFacts
<1>3. L + j \in Int /\ c \in 0..9
  <2>1. L + j \in Int
    BY <1>1
  <2> QED BY <2>1, ChannelFacts
<1>4. Hears(db, p, c, on.arra[c])
  BY <1>3, PassedIs
<1>5. Earlier(db, f, L + j) = IF L + j > s THEN f[L + j - s] ELSE db.arra[c]
  BY <1>2 DEF Earlier, Slot
<1>6. Earlier(on, g, j) = IF j > s THEN g[j - s] ELSE on.arra[c]
  <2>1. Slot(on, j) = c
    <3>1. j \in Int
      BY <1>1
    <3> QED BY <3>1, SlotOn
  <2>2. Slot(on, j) = (on.ctr + j - 1) % on.stride
    BY DEF Slot
  <2> HIDE DEF c, on
  <2> QED BY <2>1, <2>2, <1>2 DEF Earlier
<1> HIDE DEF c, on
<1>7. CASE j > s
  <2>1. L + j > s /\ j - s \in 1..j - 1 /\ L + j - s = L + (j - s)
    BY <1>1, <1>7
  <2>2. f[L + (j - s)] = g[j - s]
    BY <1>0, <2>1
  <2>3. Earlier(db, f, L + j) = f[L + j - s]
    BY <1>5, <2>1, Zenon
  <2>4. Earlier(on, g, j) = g[j - s]
    BY <1>6, <1>7, Zenon
  <2>5. f[L + j - s] = f[L + (j - s)]
    BY <2>1
  <2> QED BY <2>2, <2>3, <2>4, <2>5, Zenon DEF L, on
<1>8. CASE j <= s /\ L + j > s
  <2> DEFINE i == L + j - s
  <2>1. i \in 1..L /\ i \in Int /\ ~(j > s)
    BY <1>1, <1>8
  <2>2. Slot(db, i) = c
    <3>1. Slot(db, (L + j) - s) = Slot(db, L + j)
      BY <1>3, SlotAgain, Zenon
    <3>2. i = (L + j) - s
      BY <1>1
    <3> QED BY <3>1, <3>2, Zenon DEF c
  <2>3. ASSUME NEW k \in i + 1..L PROVE Slot(db, k) # c
    <3>1. k \in Int /\ k < L + j /\ L + j - k < s
      BY <1>1, <1>8
    <3> QED BY <1>3, <3>1, SlotOnce DEF c
  <2>4. LastAt(db, p, c, i)
    BY <2>1, <2>2, <2>3 DEF LastAt
  <2>5. on.arra[c] = p[i]
    BY <1>4, <2>1, <2>4 DEF Hears
  <2>6. f[i] = p[i]
    BY <1>0, <2>1
  <2>7. Earlier(db, f, L + j) = f[i]
    BY <1>5, <1>8, Zenon
  <2>8. Earlier(on, g, j) = on.arra[c]
    BY <1>6, <2>1, Zenon
  <2> QED BY <2>5, <2>6, <2>7, <2>8, Zenon DEF L, on
<1>9. CASE j <= s /\ L + j <= s
  <2>1. ~(L + j > s) /\ ~(j > s)
    BY <1>1, <1>9
  <2>2. ASSUME NEW k \in 1..L PROVE Slot(db, k) # c
    <3>1. k \in Int /\ k < L + j /\ L + j - k < s
      BY <1>1, <1>9
    <3> QED BY <1>3, <3>1, SlotOnce DEF c
  <2>3. NeverAt(db, p, c)
    BY <2>2 DEF NeverAt
  <2>4. on.arra[c] = db.arra[c]
    BY <1>4, <2>3 DEF Hears
  <2>5. Earlier(db, f, L + j) = db.arra[c]
    BY <1>5, <2>1, Zenon
  <2>6. Earlier(on, g, j) = on.arra[c]
    BY <1>6, <2>1, Zenon
  <2> QED BY <2>4, <2>5, <2>6, Zenon DEF L, on
<1> QED BY <1>1, <1>7, <1>8, <1>9

LEMMA ChannelsSame ==
  ASSUME NEW s \in 1..10, NEW d \in Channels(s), NEW e \in Channels(s), d.ctr = e.ctr, \A c \in 0..9 : d.arra[c] = e.arra[c]
  PROVE  d = e
<1>1. d.stride = e.stride /\ d.arra \in [0..9 -> Byte] /\ e.arra \in [0..9 -> Byte]
  BY ChannelFacts
<1>2. d.arra = e.arra
  BY <1>1
<1>3. d = [stride |-> d.stride, ctr |-> d.ctr, arra |-> d.arra] /\ e = [stride |-> e.stride, ctr |-> e.ctr, arra |-> e.arra]
  BY DEF Channels
<1> QED BY <1>1, <1>2, <1>3

LEMMA LastOrNone ==
  ASSUME NEW s \in 1..10, NEW db \in Channels(s), NEW p \in Seq(Byte), NEW c
  PROVE  NeverAt(db, p, c) \/ \E i \in 1..Len(p) : LastAt(db, p, c, i)
<1> DEFINE S == {i \in 1..Len(p) : Slot(db, i) = c}
<1>1. Len(p) \in Nat /\ S \in SUBSET (0..Len(p))
  OBVIOUS
<1>2. CASE S = {}
  BY <1>2 DEF NeverAt
<1>3. CASE S # {}
  <2> DEFINE T == S
  <2>1. T \in SUBSET (0..Len(p)) /\ T # {}
    BY <1>1, <1>3
  <2> HIDE DEF T
  <2>2. PICK i \in T : \A j \in T : j <= i
    BY <1>1, <2>1, GreatestNat
  <2>3. i \in 1..Len(p) /\ Slot(db, i) = c
    BY <2>2 DEF T
  <2>4. ASSUME NEW j \in i + 1..Len(p) PROVE Slot(db, j) # c
    <3>1. j \in 1..Len(p) /\ ~(j <= i)
      BY <2>3, <1>1
    <3>2. j \notin T
      BY <2>2, <3>1
    <3> QED BY <3>1, <3>2 DEF T
  <2> QED BY <2>3, <2>4 DEF LastAt
<1> QED BY <1>2, <1>3

LEMMA PassedTwo ==
  ASSUME NEW s \in 1..10, NEW db \in Channels(s), NEW p \in Seq(Byte), NEW q \in Seq(Byte)
  PROVE  Passed(Passed(db, p), q) = Passed(db, p \o q)
<1> DEFINE on == Passed(db, p)
           r == p \o q
           L == Len(p)
           M == Len(q)
           twice == Passed(on, q)
           once == Passed(db, r)
<1>1. /\ r \in Seq(Byte) /\ Len(r) = L + M /\ L \in Nat /\ M \in Nat
      /\ \A i \in 1..L : r[i] = p[i]
      /\ \A i \in 1..M : r[L + i] = q[i]
  OBVIOUS
<1>2. on \in Channels(s) /\ on.ctr = (db.ctr + L) % s /\ \A c \in 0..9 : Hears(db, p, c, on.arra[c])
  BY PassedIs
<1>3. \A j \in Int : Slot(on, j) = Slot(db, L + j)
  BY SlotOn
<1> HIDE DEF on, r
<1>4. twice \in Channels(s) /\ twice.ctr = (on.ctr + M) % s /\ \A c \in 0..9 : Hears(on, q, c, twice.arra[c])
  BY <1>2, PassedIs
<1>5. once \in Channels(s) /\ once.ctr = (db.ctr + Len(r)) % s /\ \A c \in 0..9 : Hears(db, r, c, once.arra[c])
  BY <1>1, PassedIs
<1> HIDE DEF twice, once
<1>6. twice.ctr = once.ctr
  <2>1. db.ctr \in Int /\ s \in Nat \ {0}
    <3>1. db.ctr \in 0..s - 1
      BY ChannelFacts
    <3> QED BY <3>1
  <2>2. db.ctr + L \in Int /\ M \in Int
    BY <1>1, <2>1
  <2>3. (((db.ctr + L) % s) + M) % s = ((db.ctr + L) + M) % s
    BY <2>1, <2>2, ModPlus
  <2>4. (db.ctr + L) + M = db.ctr + Len(r)
    BY <1>1, <2>1
  <2> QED BY <1>2, <1>4, <1>5, <2>3, <2>4
<1>7. ASSUME NEW c \in 0..9 PROVE twice.arra[c] = once.arra[c]
  <2>1. CASE ~NeverAt(on, q, c)
    <3>1. PICK i \in 1..M : LastAt(on, q, c, i)
      BY <1>2, <2>1, LastOrNone
    <3>2. twice.arra[c] = q[i]
      BY <1>4, <3>1 DEF Hears
    <3>3. L + i \in 1..Len(r) /\ L + i \in Int
      BY <1>1
    <3>4. Slot(db, L + i) = c
      BY <1>3, <3>1 DEF LastAt
    <3>5. ASSUME NEW j \in (L + i) + 1..Len(r) PROVE Slot(db, j) # c
      <4>1. j - L \in i + 1..M /\ j - L \in Int /\ L + (j - L) = j
        BY <1>1
      <4>2. Slot(on, j - L) # c
        BY <3>1, <4>1 DEF LastAt
      <4> QED BY <1>3, <4>1, <4>2
    <3>6. LastAt(db, r, c, L + i)
      BY <3>3, <3>4, <3>5 DEF LastAt
    <3>7. once.arra[c] = r[L + i]
      BY <1>5, <3>3, <3>6 DEF Hears
    <3> QED BY <1>1, <3>2, <3>7
  <2>2. CASE NeverAt(on, q, c) /\ ~NeverAt(db, p, c)
    <3>1. PICK i \in 1..L : LastAt(db, p, c, i)
      BY <2>2, LastOrNone
    <3>2. on.arra[c] = p[i]
      BY <1>2, <3>1 DEF Hears
    <3>3. twice.arra[c] = on.arra[c]
      BY <1>4, <2>2 DEF Hears
    <3>4. i \in 1..Len(r) /\ i \in Int
      BY <1>1
    <3>5. ASSUME NEW j \in i + 1..Len(r) PROVE Slot(db, j) # c
      <4>1. CASE j \in i + 1..L
        BY <3>1, <4>1 DEF LastAt
      <4>2. CASE j > L
        <5>1. j - L \in 1..M /\ j - L \in Int /\ L + (j - L) = j
          BY <1>1, <4>2
        <5>2. Slot(on, j - L) # c
          BY <2>2, <5>1 DEF NeverAt
        <5> QED BY <1>3, <5>1, <5>2
      <4> QED BY <1>1, <4>1, <4>2
    <3>6. LastAt(db, r, c, i)
      BY <3>1, <3>4, <3>5 DEF LastAt
    <3>7. once.arra[c] = r[i]
      BY <1>5, <3>4, <3>6 DEF Hears
    <3> QED BY <1>1, <3>2, <3>3, <3>7
  <2>3. CASE NeverAt(on, q, c) /\ NeverAt(db, p, c)
    <3>1. on.arra[c] = db.arra[c]
      BY <1>2, <2>3 DEF Hears
    <3>2. twice.arra[c] = on.arra[c]
      BY <1>4, <2>3 DEF Hears
    <3>3. ASSUME NEW j \in 1..Len(r) PROVE Slot(db, j) # c
      <4>1. CASE j \in 1..L
        BY <2>3, <4>1 DEF NeverAt
      <4>2. CASE j > L
        <5>1. j - L \in 1..M /\ j - L \in Int /\ L + (j - L) = j
          BY <1>1, <4>2
        <5>2. Slot(on, j - L) # c
          BY <2>3, <5>1 DEF NeverAt
        <5> QED BY <1>3, <5>1, <5>2
      <4> QED BY <1>1, <4>1, <4>2
    <3>4. NeverAt(db, r, c)
      BY <3>3 DEF NeverAt
    <3>5. once.arra[c] = db.arra[c]
      BY <1>5, <3>4 DEF Hears
    <3> QED BY <3>1, <3>2, <3>5
  <2> QED BY <2>1, <2>2, <2>3
<1>8. twice = once
  BY <1>4, <1>5, <1>6, <1>7, ChannelsSame
<1> QED BY <1>8 DEF twice, once, on, r

LEMMA EarlierFacts ==
  ASSUME NEW s \in 1..10, NEW db \in Channels(s), NEW i \in Nat \ {0}, NEW f
  PROVE  /\ (\A k \in 1..i - 1 : f[k] \in Byte) => Earlier(db, f, i) \in Byte
         /\ \A g : (\A k \in 1..i - 1 : f[k] = g[k]) => Earlier(db, f, i) = Earlier(db, g, i)
<1>1. db.stride = s /\ s \in Nat \ {0} /\ db.arra \in [0..9 -> Byte] /\ Slot(db, i) \in 0..9
  BY ChannelFacts
<1>2. \A g : Earlier(db, g, i) = IF i > s THEN g[i - s] ELSE db.arra[Slot(db, i)]
  BY <1>1 DEF Earlier, Slot
<1>3. CASE i > s
  <2>1. i - s \in 1..i - 1
    BY <1>1, <1>3
  <2>2. \A g : Earlier(db, g, i) = g[i - s]
    BY <1>2, <1>3
  <2> QED BY <2>1, <2>2
<1>4. CASE ~(i > s)
  <2>1. \A g : Earlier(db, g, i) = db.arra[Slot(db, i)]
    BY <1>2, <1>4
  <2>2. db.arra[Slot(db, i)] \in Byte
    BY <1>1
  <2> QED BY <2>1, <2>2
<1> QED BY <1>3, <1>4

LEMMA WrappedByte ==
  ASSUME NEW a \in Int
  PROVE  Wrapped(a) \in Byte
<1>1. a % 256 \in 0..256 - 1
  BY ModRange
<1> QED BY <1>1 DEF Wrapped, Byte

LEMMA ByteInt ==
  ASSUME NEW b \in Byte
  PROVE  b \in Int
BY DEF Byte

LEMMA DifferencesAreBytes ==
  ASSUME NEW s \in 1..10, NEW db \in Channels(s), NEW p \in Seq(Byte)
  PROVE  DeltaOf(db, p).out \in Seq(Byte) /\ Len(DeltaOf(db, p).out) = Len(p)
<1> DEFINE o == [i \in 1..Len(p) |-> Wrapped(p[i] - Earlier(db, p, i))]
<1>1. Len(p) \in Nat /\ DOMAIN p = 1..Len(p) /\ \A i \in 1..Len(p) : p[i] \in Byte
  OBVIOUS
<1>2. ASSUME NEW i \in 1..Len(p) PROVE Wrapped(p[i] - Earlier(db, p, i)) \in Byte
  <2>1. i \in Nat \ {0} /\ \A k \in 1..i - 1 : p[k] \in Byte
    BY <1>1
  <2>2. Earlier(db, p, i) \in Byte
    BY <2>1, EarlierFacts
  <2>3. p[i] - Earlier(db, p, i) \in Int
    BY <1>1, <2>2, ByteInt
  <2> QED BY <2>3, WrappedByte
<1>3. o \in [1..Len(p) -> Byte] /\ DeltaOf(db, p).out = o
  BY <1>1, <1>2 DEF DeltaOf
<1> HIDE DEF o
<1>4. o \in Seq(Byte) /\ Len(o) = Len(p)
  BY <1>1, <1>3
<1> QED BY <1>3, <1>4

PlainIs(db, p, f) == f = [i \in 1..Len(p) |-> Wrapped(p[i] + Earlier(db, f, i))]
UpTo(db, p, n, f) == f \in [1..n -> Byte] /\ \A i \in 1..n : f[i] = Wrapped(p[i] + Earlier(db, f, i))

LEMMA PlainExists ==
  ASSUME NEW s \in 1..10, NEW db \in Channels(s), NEW p \in Seq(Byte)
  PROVE  \E f : PlainIs(db, p, f) /\ f \in [1..Len(p) -> Byte]
<1> DEFINE S == {n \in 0..Len(p) : \E f : UpTo(db, p, n, f)}
<1>1. Len(p) \in Nat /\ \A i \in 1..Len(p) : p[i] \in Byte
  OBVIOUS
<1>2. 0 \in S
  <2>1. [i \in 1..0 |-> 0] \in [1..0 -> Byte]
    OBVIOUS
  <2>2. UpTo(db, p, 0, [i \in 1..0 |-> 0])
    BY <2>1 DEF UpTo
  <2> QED BY <1>1, <2>2
<1>3. ASSUME NEW n \in 1..Len(p), n - 1 \in S PROVE n \in S
  <2>1. PICK f : UpTo(db, p, n - 1, f)
    BY <1>3
  <2> DEFINE b == Wrapped(p[n] + Earlier(db, f, n))
             g == [i \in 1..n |-> IF i < n THEN f[i] ELSE b]
  <2>2. n \in Nat \ {0} /\ \A k \in 1..n - 1 : f[k] \in Byte /\ f[k] = Wrapped(p[k] + Earlier(db, f, k))
    BY <2>1 DEF UpTo
  <2>3. b \in Byte
    <3>1. Earlier(db, f, n) \in Byte
      BY <2>2, EarlierFacts
    <3>2. p[n] + Earlier(db, f, n) \in Int
      BY <1>1, <3>1, ByteInt
    <3> QED BY <3>2, WrappedByte
  <2> HIDE DEF b
  <2>4. (\A k \in 1..n - 1 : g[k] = f[k]) /\ g[n] = b /\ g \in [1..n -> Byte]
    BY <2>2, <2>3
  <2> HIDE DEF g
  <2>5. ASSUME NEW i \in 1..n PROVE g[i] = Wrapped(p[i] + Earlier(db, g, i))
    <3>1. i \in Nat \ {0} /\ \A k \in 1..i - 1 : f[k] = g[k]
      BY <2>2, <2>4
    <3>2. Earlier(db, f, i) = Earlier(db, g, i)
      BY <3>1, EarlierFacts
    <3>3. g[i] = Wrapped(p[i] + Earlier(db, f, i))
      <4>1. CASE i = n
        BY <2>4, <4>1 DEF b
      <4>2. CASE i \in 1..n - 1
        BY <2>2, <2>4, <4>2
      <4> QED BY <4>1, <4>2
    <3> QED BY <3>2, <3>3
  <2>6. UpTo(db, p, n, g)
    BY <2>4, <2>5 DEF UpTo
  <2> QED BY <2>6
<1> HIDE DEF S
<1>9. \A n \in 1..Len(p) : n - 1 \in S => n \in S
  BY <1>3
<1>4. Len(p) \in S
  <2> DEFINE L == Len(p)
  <2>1. L \in Nat /\ \A n \in 1..L : n - 1 \in S => n \in S
    BY <1>1, <1>9
  <2> HIDE DEF L
  <2>2. \A n \in 0..L : n \in S
    BY <1>2, <2>1, CountUp
  <2>3. L \in S
    BY <2>1, <2>2
  <2> QED BY <2>3 DEF L
<1>5. PICK f : UpTo(db, p, Len(p), f)
  BY <1>4 DEF S
<1>6. f \in [1..Len(p) -> Byte] /\ f = [i \in 1..Len(p) |-> f[i]]
  BY <1>5 DEF UpTo
<1>7. [i \in 1..Len(p) |-> f[i]] = [i \in 1..Len(p) |-> Wrapped(p[i] + Earlier(db, f, i))]
  BY <1>5 DEF UpTo
<1>8. PlainIs(db, p, f)
  BY <1>6, <1>7, Zenon DEF PlainIs
<1> QED BY <1>6, <1>8

\* What precedes does not depend on what follows.
LEMMA PlainSame ==
  ASSUME NEW s \in 1..10, NEW db \in Channels(s), NEW p \in Seq(Byte), NEW q \in Seq(Byte),
         NEW f, PlainIs(db, p, f), NEW g, PlainIs(db, q, g),
         NEW n \in Nat, n <= Len(p), n <= Len(q), \A i \in 1..n : p[i] = q[i]
  PROVE  \A i \in 1..n : f[i] = g[i]
<1> DEFINE S == {i \in 1..n : f[i] # g[i]}
<1>1. ASSUME S # {} PROVE FALSE
  <2>1. S \in SUBSET Nat
    OBVIOUS
  <2>2. PICK i \in S : \A y \in S : i <= y
    BY <1>1, <2>1, LeastNat
  <2>3. i \in 1..n /\ f[i] # g[i] /\ i \in Nat \ {0} /\ i \in 1..Len(p) /\ i \in 1..Len(q)
    OBVIOUS
  <2>4. ASSUME NEW k \in 1..i - 1 PROVE f[k] = g[k]
    <3>1. k \in 1..n /\ ~(i <= k)
      BY <2>3
    <3> QED BY <2>2, <3>1
  <2>5. Earlier(db, f, i) = Earlier(db, g, i)
    BY <2>3, <2>4, EarlierFacts
  <2>6. f[i] = Wrapped(p[i] + Earlier(db, f, i))
    BY <2>3 DEF PlainIs
  <2>7. g[i] = Wrapped(q[i] + Earlier(db, g, i))
    BY <2>3 DEF PlainIs
  <2> QED BY <2>3, <2>5, <2>6, <2>7
<1> QED BY <1>1

LEMMA UnDeltaIs ==
  ASSUME NEW s \in 1..10, NEW db \in Channels(s), NEW p \in Seq(Byte)
  PROVE  LET u == UnDelta(db, p)
         IN  u.out \in Seq(Byte) /\ Len(u.out) = Len(p) /\ PlainIs(db, p, u.out) /\ u.db = Passed(db, u.out)
<1> DEFINE plain == CHOOSE f : f = [i \in DOMAIN p |-> Wrapped(p[i] + Earlier(db, f, i))]
<1>1. DOMAIN p = 1..Len(p) /\ Len(p) \in Nat
  OBVIOUS
<1>2. PICK f : PlainIs(db, p, f) /\ f \in [1..Len(p) -> Byte]
  BY PlainExists
<1>3. plain = [i \in DOMAIN p |-> Wrapped(p[i] + Earlier(db, plain, i))]
  <2>1. f = [i \in DOMAIN p |-> Wrapped(p[i] + Earlier(db, f, i))]
    BY <1>1, <1>2 DEF PlainIs
  <2> QED BY <2>1, Zenon
<1>4. UnDelta(db, p) = [db |-> Passed(db, plain), out |-> [i \in DOMAIN p |-> plain[i]]]
  BY DEF UnDelta
<1> HIDE DEF plain
<1>5. PlainIs(db, p, plain)
  BY <1>1, <1>3 DEF PlainIs
<1>6. \A i \in 1..Len(p) : plain[i] = f[i]
  BY <1>1, <1>2, <1>5, PlainSame
<1>7. plain = [i \in 1..Len(p) |-> plain[i]]
  BY <1>1, <1>3
<1>8. plain \in [1..Len(p) -> Byte]
  BY <1>2, <1>6, <1>7
<1>9. plain \in Seq(Byte) /\ Len(plain) = Len(p)
  BY <1>1, <1>8
<1>10. UnDelta(db, p).out = plain /\ UnDelta(db, p).db = Passed(db, plain)
  BY <1>1, <1>4, <1>7
<1> QED BY <1>5, <1>9, <1>10

LEMMA UnDeltaTwo ==
  ASSUME NEW s \in 1..10, NEW db \in Channels(s), NEW p \in Seq(Byte), NEW q \in Seq(Byte)
  PROVE  LET u == UnDelta(db, p)
             v == UnDelta(u.db, q)
             w == UnDelta(db, p \o q)
         IN  u.db \in Channels(s) /\ w.out = u.out \o v.out /\ w.db = v.db
<1> DEFINE r == p \o q
           L == Len(p)
           M == Len(q)
           a == UnDelta(db, p).out
           on == UnDelta(db, p).db
           b == UnDelta(on, q).out
           c == UnDelta(db, r).out
<1>1. /\ r \in Seq(Byte) /\ Len(r) = L + M /\ L \in Nat /\ M \in Nat
      /\ \A i \in 1..L : r[i] = p[i]
      /\ \A i \in 1..M : r[L + i] = q[i]
  OBVIOUS
<1>2. a \in Seq(Byte) /\ Len(a) = L /\ PlainIs(db, p, a) /\ on = Passed(db, a)
  BY UnDeltaIs
<1> HIDE DEF r, a, on
<1>3. on \in Channels(s)
  BY <1>2, PassedIs
<1>4. b \in Seq(Byte) /\ Len(b) = M /\ PlainIs(on, q, b) /\ UnDelta(on, q).db = Passed(on, b)
  BY <1>3, UnDeltaIs
<1>5. c \in Seq(Byte) /\ Len(c) = L + M /\ PlainIs(db, r, c) /\ UnDelta(db, r).db = Passed(db, c)
  BY <1>1, UnDeltaIs
<1> HIDE DEF b, c
<1>6. \A i \in 1..L : c[i] = a[i]
  <2>1. L <= Len(r) /\ L <= Len(p) /\ L \in Nat
    BY <1>1
  <2>2. \A i \in 1..L : r[i] = p[i]
    BY <1>1
  <2>3. r \in Seq(Byte) /\ PlainIs(db, r, c) /\ PlainIs(db, p, a)
    BY <1>1, <1>2, <1>5
  <2> HIDE DEF L
  <2> QED BY <2>1, <2>2, <2>3, PlainSame, SMTT(30)
<1>7. \A j \in 1..M : c[L + j] = b[j]
  <2> DEFINE S == {j \in 1..M : c[L + j] # b[j]}
  <2>1. ASSUME S # {} PROVE FALSE
    <3>1. S \in SUBSET Nat
      OBVIOUS
    <3>2. PICK j \in S : \A y \in S : j <= y
      BY <2>1, <3>1, LeastNat
    <3>3. j \in 1..M /\ c[L + j] # b[j] /\ j \in Nat \ {0} /\ L + j \in 1..Len(r)
      BY <1>1
    <3>4. ASSUME NEW k \in 1..j - 1 PROVE c[L + k] = b[k]
      <4>1. k \in 1..M /\ ~(j <= k)
        BY <3>3
      <4> QED BY <3>2, <4>1
    <3>5. Earlier(db, c, Len(a) + j) = Earlier(Passed(db, a), b, j)
      <4>1. \A i \in 1..Len(a) : c[i] = a[i]
        BY <1>2, <1>6
      <4>2. \A i \in 1..j - 1 : c[Len(a) + i] = b[i]
        BY <1>2, <3>4
      <4>3. a \in Seq(Byte) /\ j \in Nat \ {0}
        BY <1>2, <3>3
      <4>4. Goes(c, a, b, j)
        BY <4>1, <4>2 DEF Goes
      <4> QED BY <4>3, <4>4, EarlierOn
    <3>6. c[L + j] = Wrapped(r[L + j] + Earlier(db, c, L + j))
      BY <3>3, <1>5 DEF PlainIs
    <3>7. b[j] = Wrapped(q[j] + Earlier(on, b, j))
      BY <3>3, <1>4 DEF PlainIs
    <3>8. Earlier(db, c, L + j) = Earlier(on, b, j)
      BY <1>2, <3>5
    <3>9. r[L + j] = q[j]
      BY <1>1, <3>3
    <3> QED BY <3>3, <3>6, <3>7, <3>8, <3>9
  <2> QED BY <2>1
<1>8. c = a \o b
  <2> DEFINE d == a \o b
  <2>1. /\ d \in Seq(Byte) /\ Len(d) = L + M
        /\ \A i \in 1..L : d[i] = a[i]
        /\ \A i \in 1..M : d[L + i] = b[i]
    BY <1>2, <1>4
  <2> HIDE DEF d
  <2>2. ASSUME NEW i \in 1..L + M PROVE c[i] = d[i]
    <3>1. CASE i \in 1..L
      BY <1>6, <2>1, <3>1
    <3>2. CASE i > L
      <4>1. i - L \in 1..M /\ L + (i - L) = i
        BY <1>1, <3>2
      <4> QED BY <1>7, <2>1, <4>1
    <3> QED BY <1>1, <3>1, <3>2
  <2>3. c = d
    BY <1>1, <1>5, <2>1, <2>2, SeqEqual
  <2> QED BY <2>3 DEF d
<1>9. Passed(on, b) = Passed(db, c)
  BY <1>2, <1>4, <1>8, PassedTwo
<1>10. UnDelta(db, r).db = UnDelta(on, q).db
  BY <1>4, <1>5, <1>9
<1> QED BY <1>3, <1>8, <1>10 DEF a, b, c, on, r

Undone(s, p) == IF s = 0 THEN p ELSE UnDelta(InitDelta(s), p).out
Heard(s, p) == IF s = 0 THEN InitDelta(1) ELSE UnDelta(InitDelta(s), p).db

LEMMA InitChannels ==
  ASSUME NEW s \in 1..10
  PROVE  InitDelta(s) \in Channels(s)
<1>1. [i \in 0..9 |-> 0] \in [0..9 -> Byte]
  BY DEF Byte
<1>2. 0 \in 0..s - 1
  OBVIOUS
<1> QED BY <1>1, <1>2 DEF InitDelta, Channels

LEMMA UndoneIs ==
  ASSUME NEW s \in 0..10, NEW p \in Seq(Byte)
  PROVE  Undone(s, p) \in Seq(Byte) /\ Len(Undone(s, p)) = Len(p)
<1>1. CASE s = 0
  BY <1>1 DEF Undone
<1>2. CASE s # 0
  <2>1. s \in 1..10
    BY <1>2
  <2>2. InitDelta(s) \in Channels(s)
    BY <2>1, InitChannels
  <2> QED BY <1>2, <2>1, <2>2, UnDeltaIs DEF Undone
<1> QED BY <1>1, <1>2

LEMMA UndoneTwo ==
  ASSUME NEW s \in 0..10, NEW p \in Seq(Byte), NEW q \in Seq(Byte)
  PROVE  /\ Undone(s, p \o q) = Undone(s, p) \o (IF s = 0 THEN q ELSE UnDelta(Heard(s, p), q).out)
         /\ Heard(s, p \o q) = IF s = 0 THEN Heard(s, p) ELSE UnDelta(Heard(s, p), q).db
<1>1. CASE s = 0
  BY <1>1 DEF Undone, Heard
<1>2. CASE s # 0
  <2>1. s \in 1..10
    BY <1>2
  <2>2. InitDelta(s) \in Channels(s)
    BY <2>1, InitChannels
  <2>3. /\ UnDelta(InitDelta(s), p \o q).out = UnDelta(InitDelta(s), p).out \o UnDelta(UnDelta(InitDelta(s), p).db, q).out
        /\ UnDelta(InitDelta(s), p \o q).db = UnDelta(UnDelta(InitDelta(s), p).db, q).db
    BY <2>1, <2>2, UnDeltaTwo
  <2> QED BY <1>2, <2>3 DEF Undone, Heard
<1> QED BY <1>1, <1>2

-----------------------------------------------------------------------------
(***************************************************************************)
(* The data of tokens, one token after the other.                          *)
(***************************************************************************)
Base(content) == [data |-> content, good |-> TRUE]
Stages(content, ts, f) == f = [n \in 0..Len(ts) |-> IF n = 0 THEN Base(content) ELSE Further(f[n - 1], ts[n])]
Staged(content, ts) == CHOOSE f : Stages(content, ts, f)
StagesTo(content, ts, n, f) ==
    /\ f = [i \in 0..n |-> f[i]]
    /\ f[0] = Base(content)
    /\ \A i \in 1..n : f[i] = Further(f[i - 1], ts[i])

LEMMA StagesExist ==
  ASSUME NEW content, NEW ts \in Seq(StreamToken)
  PROVE  \E f : Stages(content, ts, f)
<1> DEFINE S == {n \in 0..Len(ts) : \E f : StagesTo(content, ts, n, f)}
           L == Len(ts)
<1>1. L \in Nat
  OBVIOUS
<1>2. 0 \in S
  <2> DEFINE f == [i \in 0..0 |-> Base(content)]
  <2>1. f = [i \in 0..0 |-> f[i]] /\ f[0] = Base(content) /\ \A i \in 1..0 : f[i] = Further(f[i - 1], ts[i])
    OBVIOUS
  <2> HIDE DEF f
  <2>2. StagesTo(content, ts, 0, f)
    BY <2>1 DEF StagesTo
  <2> QED BY <1>1, <2>2
<1>3. ASSUME NEW n \in 1..L, n - 1 \in S PROVE n \in S
  <2>1. PICK f : StagesTo(content, ts, n - 1, f)
    BY <1>3
  <2> DEFINE b == Further(f[n - 1], ts[n])
             g == [i \in 0..n |-> IF i < n THEN f[i] ELSE b]
  <2>2. n \in Nat \ {0} /\ f[0] = Base(content) /\ \A i \in 1..n - 1 : f[i] = Further(f[i - 1], ts[i])
    <3>1. f[0] = Base(content) /\ \A i \in 1..n - 1 : f[i] = Further(f[i - 1], ts[i])
      BY <2>1, Zenon DEF StagesTo
    <3>2. n \in Nat \ {0}
      OBVIOUS
    <3> QED BY <3>1, <3>2, Zenon
  <2>3. (\A i \in 0..n - 1 : g[i] = f[i]) /\ g[n] = b /\ g = [i \in 0..n |-> g[i]]
    BY <2>2
  <2>4. b = Further(f[n - 1], ts[n])
    OBVIOUS
  <2> HIDE DEF b, g
  <2>5. ASSUME NEW i \in 1..n PROVE g[i] = Further(g[i - 1], ts[i])
    <3>1. g[i - 1] = f[i - 1]
      <4>1. i - 1 \in 0..n - 1
        BY <2>2
      <4> QED BY <2>3, <4>1, Zenon
    <3>2. CASE i = n
      <4>1. g[i] = b /\ b = Further(f[i - 1], ts[i])
        BY <2>3, <2>4, <3>2
      <4> QED BY <3>1, <4>1
    <3>3. CASE i \in 1..n - 1
      <4>2. i \in 0..n - 1
        BY <2>2, <3>3
      <4>3. g[i] = f[i]
        BY <2>3, <4>2, Zenon
      <4>4. f[i] = Further(f[i - 1], ts[i])
        BY <2>2, <3>3, Zenon
      <4>1. g[i] = f[i] /\ f[i] = Further(f[i - 1], ts[i])
        BY <4>3, <4>4
      <4> QED BY <3>1, <4>1
    <3> QED BY <3>2, <3>3
  <2>6. g[0] = Base(content)
    <3>1. 0 \in 0..n - 1
      BY <2>2
    <3>2. g[0] = f[0]
      BY <2>3, <3>1, Zenon
    <3> QED BY <2>2, <3>2
  <2>7. StagesTo(content, ts, n, g)
    BY <2>3, <2>5, <2>6 DEF StagesTo
  <2>8. n \in 0..L
    BY <1>1
  <2> QED BY <2>7, <2>8
<1>4. \A n \in 1..L : n - 1 \in S => n \in S
  BY <1>3
<1> HIDE DEF S, L
<1>5. L \in S
  <2>1. \A n \in 0..L : n \in S
    BY <1>1, <1>2, <1>4, CountUp
  <2> QED BY <1>1, <2>1
<1>6. PICK f : StagesTo(content, ts, L, f)
  BY <1>5 DEF S
<1>7. f = [i \in 0..L |-> f[i]]
  BY <1>6 DEF StagesTo
<1>8. \A i \in 0..L : f[i] = IF i = 0 THEN Base(content) ELSE Further(f[i - 1], ts[i])
  <2> TAKE i \in 0..L
  <2>1. CASE i = 0
    BY <1>6, <2>1 DEF StagesTo
  <2>2. CASE i # 0
    <3>1. i \in 1..L
      BY <1>1, <2>2
    <3> QED BY <1>6, <2>2, <3>1 DEF StagesTo
  <2> QED BY <2>1, <2>2
<1>9. f = [n \in 0..L |-> IF n = 0 THEN Base(content) ELSE Further(f[n - 1], ts[n])]
  BY <1>7, <1>8
<1> QED BY <1>9 DEF Stages, L

LEMMA AfterIs ==
  ASSUME NEW content, NEW ts \in Seq(StreamToken)
  PROVE  /\ Staged(content, ts)[0] = Base(content)
         /\ \A n \in 1..Len(ts) : Staged(content, ts)[n] = Further(Staged(content, ts)[n - 1], ts[n])
         /\ Unpack(content, ts) = Staged(content, ts)[Len(ts)]
<1> DEFINE a == Staged(content, ts)
<1>1. a = [n \in 0..Len(ts) |-> IF n = 0 THEN Base(content) ELSE Further(a[n - 1], ts[n])]
  <2>1. Stages(content, ts, a)
    BY StagesExist DEF Staged
  <2> QED BY <2>1 DEF Stages
<1>2. Unpack(content, ts) = a[Len(ts)]
  BY DEF Unpack, Staged, Stages, Base
<1>3. Len(ts) \in Nat
  OBVIOUS
<1> HIDE DEF a
<1>4. a[0] = Base(content)
  BY <1>1, <1>3
<1>5. ASSUME NEW n \in 1..Len(ts) PROVE a[n] = Further(a[n - 1], ts[n])
  <2>1. n \in 0..Len(ts) /\ n # 0
    BY <1>3
  <2> QED BY <1>1, <2>1
<1> QED BY <1>2, <1>4, <1>5 DEF a

Unpacked == [data : Seq(Byte), good : BOOLEAN]

LEMMA BroughtIs ==
  ASSUME NEW content \in Seq(Byte), NEW t \in StreamToken, Sensible(content, t)
  PROVE  /\ Brought(content, t) \in Seq(Byte)
         /\ Len(Brought(content, t)) = IF t.dist = 0 THEN 1 ELSE t.len
         /\ t.dist = 0 => Brought(content, t)[1] = t.byte
         /\ t.dist > 0 => \A k \in 1..t.len : Brought(content, t)[k] = content[Len(content) - t.dist + 1 + ((k - 1) % t.dist)]
<1>1. t.dist \in Nat /\ t.len \in Nat /\ t.byte \in Byte /\ Len(content) \in Nat
  BY DEF StreamToken
<1>2. CASE t.dist = 0
  <2>1. Brought(content, t) = <<t.byte>>
    BY <1>2 DEF Brought
  <2> QED BY <1>1, <1>2, <2>1
<1>3. CASE t.dist > 0
  <2> DEFINE d == t.dist
             N == Len(content)
             new == [k \in 1..t.len |-> content[N - d + 1 + ((k - 1) % d)]]
  <2>1. Brought(content, t) = new
    BY <1>1, <1>3 DEF Brought
  <2>2. d <= N
    BY <1>3 DEF Sensible
  <2>3. ASSUME NEW k \in 1..t.len PROVE new[k] \in Byte
    <3>1. k - 1 \in Int /\ d \in Nat \ {0}
      BY <1>1, <1>3
    <3>2. (k - 1) % d \in 0..d - 1
      BY <3>1, ModRange
    <3>3. N - d + 1 + ((k - 1) % d) \in 1..N
      BY <1>1, <2>2, <3>1, <3>2
    <3> QED BY <3>3
  <2>4. new \in [1..t.len -> Byte]
    BY <2>3
  <2>5. \A k \in 1..t.len : new[k] = content[N - d + 1 + ((k - 1) % d)]
    OBVIOUS
  <2> HIDE DEF new
  <2>6. new \in Seq(Byte) /\ Len(new) = t.len
    BY <1>1, <2>4
  <2> QED BY <1>1, <1>3, <2>1, <2>5, <2>6
<1> QED BY <1>1, <1>2, <1>3

LEMMA FurtherIs ==
  ASSUME NEW u \in Unpacked, NEW t \in StreamToken
  PROVE  /\ Further(u, t) \in Unpacked
         /\ (u.good /\ Sensible(u.data, t)) => Further(u, t) = Base(u.data \o Brought(u.data, t))
         /\ ~(u.good /\ Sensible(u.data, t)) => Further(u, t).data = u.data /\ ~Further(u, t).good
<1>1. u.data \in Seq(Byte) /\ u.good \in BOOLEAN /\ u = [data |-> u.data, good |-> u.good]
  BY DEF Unpacked
<1>2. CASE u.good /\ Sensible(u.data, t)
  <2>1. Further(u, t) = Base(u.data \o Brought(u.data, t))
    BY <1>2 DEF Further, Base
  <2>2. Brought(u.data, t) \in Seq(Byte)
    BY <1>1, <1>2, BroughtIs
  <2>3. u.data \o Brought(u.data, t) \in Seq(Byte)
    BY <1>1, <2>2
  <2> QED BY <1>2, <2>1, <2>3 DEF Unpacked, Base
<1>3. CASE ~(u.good /\ Sensible(u.data, t))
  <2>1. Further(u, t) = [u EXCEPT !.good = FALSE]
    BY <1>3 DEF Further
  <2>2. Further(u, t) = [data |-> u.data, good |-> FALSE]
    BY <1>1, <2>1
  <2> QED BY <1>1, <1>3, <2>2 DEF Unpacked
<1> QED BY <1>2, <1>3

LEMMA AfterType ==
  ASSUME NEW content \in Seq(Byte), NEW ts \in Seq(StreamToken)
  PROVE  \A n \in 0..Len(ts) : Staged(content, ts)[n] \in Unpacked
<1> DEFINE a == Staged(content, ts)
           L == Len(ts)
           S == {n \in 0..L : a[n] \in Unpacked}
<1>1. L \in Nat /\ \A n \in 1..L : ts[n] \in StreamToken
  OBVIOUS
<1>2. a[0] = Base(content) /\ \A n \in 1..L : a[n] = Further(a[n - 1], ts[n])
  BY AfterIs
<1> HIDE DEF a, L
<1>3. 0 \in S
  <2>1. Base(content) \in Unpacked
    BY DEF Base, Unpacked
  <2>2. a[0] \in Unpacked
    BY <1>2, <2>1, Zenon
  <2> QED BY <1>1, <2>2
<1>4. ASSUME NEW n \in 1..L, n - 1 \in S PROVE n \in S
  <2>1. Further(a[n - 1], ts[n]) \in Unpacked
    BY <1>1, <1>4, FurtherIs
  <2>2. n \in 0..L
    BY <1>1
  <2> QED BY <1>2, <2>1, <2>2
<1>5. \A n \in 1..L : n - 1 \in S => n \in S
  BY <1>4
<1> HIDE DEF S
<1>6. \A n \in 0..L : n \in S
  BY <1>1, <1>3, <1>5, CountUp
<1>7. \A n \in 0..L : a[n] \in Unpacked
  BY <1>6 DEF S
<1> QED BY <1>7 DEF a, L

\* What has been decoded stays a beginning of all, and is all of it once a
\* token has referred to nothing.
Begins(p, q) == Len(p) <= Len(q) /\ \A i \in 1..Len(p) : p[i] = q[i]

LEMMA AfterGrows ==
  ASSUME NEW content \in Seq(Byte), NEW ts \in Seq(StreamToken), NEW n \in 0..Len(ts)
  PROVE  LET a == Staged(content, ts)
             z == Unpack(content, ts)
         IN  /\ z \in Unpacked
             /\ Begins(a[n].data, z.data)
             /\ ~a[n].good => z = a[n]
<1> DEFINE a == Staged(content, ts)
           L == Len(ts)
           Kept(i) == Begins(a[n].data, a[i].data) /\ (~a[n].good => a[i] = a[n])
           S == {i \in 0..L : i >= n => Kept(i)}
<1>1. L \in Nat /\ \A i \in 1..L : ts[i] \in StreamToken
  OBVIOUS
<1>2. a[0] = Base(content) /\ (\A i \in 1..L : a[i] = Further(a[i - 1], ts[i])) /\ Unpack(content, ts) = a[L]
  BY AfterIs
<1>3. \A i \in 0..L : a[i] \in Unpacked
  BY AfterType
<1>4. n \in 0..L
  OBVIOUS
<1> HIDE DEF a, L
<1>5. \A i \in 0..L : a[i].data \in Seq(Byte) /\ a[i].good \in BOOLEAN /\ a[i] = [data |-> a[i].data, good |-> a[i].good]
  BY <1>3 DEF Unpacked
<1>6. Kept(n)
  <2>1. Len(a[n].data) \in Nat
    BY <1>4, <1>5
  <2> QED BY <2>1 DEF Begins
<1>7. ASSUME NEW i \in 1..L, Kept(i - 1) PROVE Kept(i)
  <2> DEFINE u == a[i - 1]
             t == ts[i]
  <2>1. u \in Unpacked /\ t \in StreamToken /\ a[i] = Further(u, t) /\ u.data \in Seq(Byte) /\ u.good \in BOOLEAN
        /\ u = [data |-> u.data, good |-> u.good]
    <3>1. i - 1 \in 0..L
      BY <1>1
    <3> QED BY <1>1, <1>2, <1>3, <1>5, <3>1
  <2>2. Begins(a[n].data, u.data) /\ (~a[n].good => u = a[n])
    BY <1>7
  <2> HIDE DEF u, t
  <2>3. a[n].data \in Seq(Byte) /\ a[i].data \in Seq(Byte) /\ a[i] = [data |-> a[i].data, good |-> a[i].good] /\ a[i].good \in BOOLEAN
    <3>1. i \in 0..L
      BY <1>1
    <3> QED BY <1>4, <1>5, <3>1
  <2>4. CASE u.good /\ Sensible(u.data, t)
    <3> DEFINE b == Brought(u.data, t)
    <3>1. b \in Seq(Byte)
      BY <2>1, <2>4, BroughtIs
    <3>2. a[i] = Base(u.data \o b)
      BY <2>1, <2>4, FurtherIs
    <3> HIDE DEF b
    <3>3. a[i].data = u.data \o b
      BY <3>2 DEF Base
    <3>4. Len(u.data) <= Len(a[i].data) /\ \A k \in 1..Len(u.data) : a[i].data[k] = u.data[k]
      BY <2>1, <3>1, <3>3
    <3>5. Begins(a[n].data, a[i].data)
      BY <2>1, <2>2, <2>3, <3>4 DEF Begins
    <3>6. a[n].good
      BY <2>2, <2>4
    <3> QED BY <3>5, <3>6
  <2>5. CASE ~(u.good /\ Sensible(u.data, t))
    <3>1. a[i].data = u.data /\ ~a[i].good
      BY <2>1, <2>5, FurtherIs
    <3>2. Begins(a[n].data, a[i].data)
      BY <2>2, <3>1
    <3>3. ASSUME ~a[n].good PROVE a[i] = a[n]
      <4>1. u = a[n]
        BY <2>2, <3>3
      <4>2. ~u.good
        BY <3>3, <4>1
      <4>3. u = [data |-> u.data, good |-> FALSE]
        BY <2>1, <4>2
      <4>4. a[i] = [data |-> u.data, good |-> FALSE]
        BY <2>3, <3>1
      <4> QED BY <4>1, <4>3, <4>4
    <3> QED BY <3>2, <3>3
  <2> QED BY <2>4, <2>5
<1> HIDE DEF Kept
<1>8. 0 \in S
  <2>1. 0 >= n => n = 0
    BY <1>1, <1>4
  <2> QED BY <1>1, <1>6, <2>1
<1>9. ASSUME NEW i \in 1..L, i - 1 \in S PROVE i \in S
  <2>1. i \in 0..L
    BY <1>1
  <2>2. CASE i - 1 >= n
    BY <1>7, <1>9, <2>1, <2>2
  <2>3. CASE ~(i - 1 >= n)
    <3>1. i >= n => i = n
      BY <1>1, <1>4, <2>3
    <3> QED BY <1>6, <2>1, <3>1
  <2> QED BY <2>2, <2>3
<1>10. \A i \in 1..L : i - 1 \in S => i \in S
  BY <1>9
<1> HIDE DEF S
<1>11. \A i \in 0..L : i \in S
  BY <1>1, <1>8, <1>10, CountUp
<1>12. L \in 0..L /\ L >= n
  BY <1>1, <1>4
<1>13. Kept(L)
  BY <1>11, <1>12 DEF S
<1>14. a[L] \in Unpacked
  BY <1>3, <1>12
<1> QED BY <1>2, <1>13, <1>14 DEF Kept, a

-----------------------------------------------------------------------------
(***************************************************************************)
(* The ring.                                                               *)
(***************************************************************************)
LEMMA ModMinus ==
  ASSUME NEW B \in Nat \ {0}, NEW a \in Int, NEW b \in Int
  PROVE  (a - (b % B)) % B = (a - b) % B
<1> DEFINE q == b \div B
           r == b % B
           c == a - r
           v == (a - b) \div B
           m == (a - b) % B
<1>1. q \in Int /\ r \in Int /\ b = B * q + r
  BY ModRange
<1> DEFINE d == a - b
<1>2. d \in Int
  OBVIOUS
<1>3. d \div B \in Int /\ d % B \in 0..B - 1 /\ d = B * (d \div B) + (d % B)
  <2> HIDE DEF d
  <2> QED BY <1>2, ModRange
<1>4. v \in Int /\ m \in 0..B - 1 /\ d = B * v + m
  BY <1>3
<1> HIDE DEF q, r, v, m
<1> DEFINE u == q + v
<1>5. u \in Int /\ B * u = B * q + B * v
  BY <1>1, <1>4
<1> HIDE DEF u
<1>6. c \in Int /\ c = B * u + m
  BY <1>1, <1>4, <1>5
<1> HIDE DEF c
<1>7. c % B = m
  BY <1>4, <1>5, <1>6, ModUnique
<1> QED BY <1>7 DEF c, m, r

LEMMA ModAdd ==
  ASSUME NEW B \in Nat \ {0}, NEW a \in Int, NEW i \in Nat, (a % B) + i < B
  PROVE  (a + i) % B = (a % B) + i
<1> DEFINE q == a \div B
           r == a % B
           m == r + i
           e == a + i
<1>1. q \in Int /\ r \in 0..B - 1 /\ a = B * q + r
  BY ModRange
<1>2. r + i < B
  OBVIOUS
<1> HIDE DEF q, r
<1>3. m \in 0..B - 1 /\ e \in Int /\ e = B * q + m
  BY <1>1, <1>2
<1> HIDE DEF m, e
<1>4. e % B = m
  BY <1>1, <1>3, ModUnique
<1> QED BY <1>4 DEF m, e, r

LEMMA WindowNumbers ==
  /\ WINDOW \in Nat \ {0} /\ HALF \in Nat /\ HALF > 0 /\ WINDOW = HALF + HALF
  /\ MARGIN \in Nat /\ MARGIN < WINDOW
<1>1. WINDOW \in Nat \ {0} /\ WINDOW % 2 = 0 /\ MARGIN \in Nat /\ MARGIN < WINDOW
  BY WindowAssumption DEF WindowAssumption
<1>2. WINDOW \div 2 \in Int /\ WINDOW = 2 * (WINDOW \div 2) + (WINDOW % 2)
  BY <1>1, ModRange
<1> QED BY <1>1, <1>2 DEF HALF

\* The last bytes of all the data lie in the ring.
RingOf(win, all) ==
    /\ DOMAIN win = 0..WINDOW - 1
    /\ \A k \in 0..Len(all) - 1 : Len(all) - k <= WINDOW => win[k % WINDOW] = all[k + 1]
RingIs(all) ==
    /\ RingOf(window, all)
    /\ tail = Len(all) % WINDOW
    /\ produced = IF Len(all) < WINDOW THEN Len(all) ELSE WINDOW

ReadFrom(win, F, n) == [i \in 1..n |-> win[(F % WINDOW) + i - 1]]

LEMMA RingRead ==
  ASSUME NEW all \in Seq(Byte), NEW win, RingOf(win, all), NEW F \in 0..Len(all), NEW n \in Nat,
         F + n <= Len(all), Len(all) - F <= WINDOW, (F % WINDOW) + n <= WINDOW
  PROVE  ReadFrom(win, F, n) = SubSeq(all, F + 1, F + n)
<1> DEFINE N == Len(all)
           W == WINDOW
           r == F % W
           p == SubSeq(all, F + 1, F + n)
           w == [i \in 1..n |-> win[r + i - 1]]
<1>1. N \in Nat /\ W \in Nat \ {0} /\ F \in Nat
  BY WindowNumbers
<1>2. p \in Seq(Byte) /\ Len(p) = n /\ \A i \in 1..n : p[i] = all[F + i]
  <2>1. F + 1 \in 1..N + 1 /\ F + n \in F..N
    BY <1>1
  <2>2. \A i \in 1..n : F + 1 + i - 1 = F + i
    BY <1>1
  <2> QED BY <1>1, <2>1, <2>2
<1>3. r \in 0..W - 1
  BY <1>1, ModRange
<1>4. ASSUME NEW i \in 1..n PROVE win[r + i - 1] = all[F + i]
  <2> DEFINE k == F + (i - 1)
  <2>1. i - 1 \in Nat /\ r + (i - 1) < W
    BY <1>1, <1>3
  <2>2. k % W = r + (i - 1)
    BY <1>1, <2>1, ModAdd
  <2>3. k \in 0..N - 1 /\ N - k <= W /\ k + 1 = F + i /\ r + (i - 1) = r + i - 1
    BY <1>1, <1>3
  <2> HIDE DEF k
  <2>4. win[k % W] = all[k + 1]
    BY <2>3 DEF RingOf
  <2> QED BY <2>2, <2>3, <2>4
<1>5. w = [i \in 1..n |-> p[i]]
  BY <1>2, <1>4
<1> HIDE DEF p
<1>6. p = [i \in 1..n |-> p[i]]
  BY <1>2
<1>7. w = p
  BY <1>5, <1>6
<1> QED BY <1>7 DEF p, ReadFrom

\* The bytes a token spreads.
Spreads(t, n, f) ==
    f = [i \in 0..n - 1 |->
            IF t.dist = 0 THEN t.byte
            ELSE IF i >= t.dist THEN f[i - t.dist] ELSE window[(tail + i - t.dist) % WINDOW]]

LEMMA SpreadBytes ==
  ASSUME NEW all \in Seq(Byte), RingIs(all), NEW t \in StreamToken, Sensible(all, t), t.dist <= WINDOW,
         NEW n, n = (IF t.dist = 0 THEN 1 ELSE t.len), NEW f, f = CHOOSE g : Spreads(t, n, g)
  PROVE  n \in Nat \ {0} /\ \A i \in 0..n - 1 : f[i] = Brought(all, t)[i + 1]
<1> DEFINE W == WINDOW
           N == Len(all)
           d == t.dist
           new == Brought(all, t)
           g == [i \in 0..n - 1 |-> new[i + 1]]
<1>1. W \in Nat \ {0} /\ N \in Nat /\ d \in Nat /\ t.len \in Nat
  BY WindowNumbers DEF StreamToken
<1>2. n \in Nat \ {0} /\ (d > 0 => n = t.len /\ d <= N)
  BY <1>1 DEF Sensible
<1>3. /\ d = 0 => new[1] = t.byte
      /\ d > 0 => \A k \in 1..n : new[k] = all[N - d + 1 + ((k - 1) % d)]
  BY <1>2, BroughtIs
<1>4. RingOf(window, all) /\ tail = N % W
  BY DEF RingIs
<1> HIDE DEF new
<1>5. ASSUME d > 0, NEW i \in 0..n - 1, i < d
      PROVE  window[(tail + i - d) % W] = new[i + 1]
  <2> DEFINE k == N + (i - d)
  <2>1. i - d \in Int /\ tail + (i - d) = tail + i - d /\ N \in Int
    <3>1. N % W \in 0..W - 1
      BY <1>1, ModRange
    <3> QED BY <1>1, <1>4, <3>1
  <2>2. ((N % W) + (i - d)) % W = k % W
    BY <1>1, <2>1, ModPlus
  <2>3. k \in 0..N - 1 /\ N - k <= W /\ k + 1 = N - d + 1 + i
    BY <1>1, <1>2, <1>5
  <2> HIDE DEF k
  <2>4. window[k % W] = all[k + 1]
    BY <1>4, <2>3 DEF RingOf
  <2>5. i % d = i
    <3>1. d \in Nat \ {0} /\ i \in 0..d - 1
      BY <1>1, <1>2, <1>5
    <3> QED BY <3>1, ModLess
  <2>6. i + 1 \in 1..n /\ (i + 1) - 1 = i
    BY <1>2
  <2>7. new[i + 1] = all[N - d + 1 + (((i + 1) - 1) % d)]
    BY <1>3, <1>5, <2>6
  <2>8. (tail + i - d) % W = k % W
    BY <1>4, <2>1, <2>2
  <2> QED BY <2>3, <2>4, <2>5, <2>6, <2>7, <2>8
<1>6. ASSUME d > 0, NEW i \in 0..n - 1, i >= d
      PROVE  i - d \in 0..n - 1 /\ new[(i - d) + 1] = new[i + 1]
  <2>1. i - d \in 0..n - 1 /\ (i - d) + 1 \in 1..n /\ i + 1 \in 1..n /\ ((i - d) + 1) - 1 = i - d /\ (i + 1) - 1 = i /\ i \in Int
    <3>1. d \in Nat /\ n \in Nat
      BY <1>1, <1>2
    <3> HIDE DEF new, d
    <3>2. i \in Int /\ i - d >= 0 /\ i - d <= i /\ i < n
      BY <1>6, <3>1
    <3> QED BY <3>1, <3>2
  <2>2. d \in Nat \ {0}
    BY <1>1, <1>6
  <2>3. (i - d) % d = i % d
    BY <2>1, <2>2, ModBack
  <2>4. new[(i - d) + 1] = all[N - d + 1 + ((((i - d) + 1) - 1) % d)]
    BY <1>3, <1>6, <2>1
  <2>5. new[i + 1] = all[N - d + 1 + (((i + 1) - 1) % d)]
    BY <1>3, <1>6, <2>1
  <2> QED BY <2>1, <2>3, <2>4, <2>5
<1>7. ASSUME NEW i \in 0..n - 1
      PROVE  g[i] = IF d = 0 THEN t.byte ELSE IF i >= d THEN g[i - d] ELSE window[(tail + i - d) % W]
  <2>1. g[i] = new[i + 1]
    OBVIOUS
  <2>2. CASE d = 0
    <3>1. i = 0
      BY <1>2, <2>2
    <3>2. new[i + 1] = t.byte
      BY <1>3, <2>2, <3>1
    <3> HIDE DEF g
    <3> QED BY <2>1, <2>2, <3>2
  <2>3. CASE d > 0 /\ i >= d
    <3>1. i - d \in 0..n - 1 /\ new[(i - d) + 1] = new[i + 1]
      BY <1>6, <2>3
    <3>2. g[i - d] = new[(i - d) + 1]
      BY <3>1
    <3>3. d # 0
      BY <1>1, <2>3
    <3> HIDE DEF g
    <3> QED BY <2>1, <2>3, <3>1, <3>2, <3>3
  <2>4. CASE d > 0 /\ i < d
    <3>1. window[(tail + i - d) % W] = new[i + 1]
      BY <1>5, <2>4
    <3>2. d # 0 /\ ~(i >= d)
      BY <1>1, <1>2, <2>4
    <3> HIDE DEF g
    <3> QED BY <2>1, <3>1, <3>2
  <2> QED BY <1>1, <1>2, <2>2, <2>3, <2>4
<1>8. g = [i \in 0..n - 1 |-> g[i]]
  OBVIOUS
<1>9. \A i \in 0..n - 1 : g[i] = new[i + 1]
  OBVIOUS
<1> HIDE DEF g
<1>10. [i \in 0..n - 1 |-> g[i]] =
         [i \in 0..n - 1 |-> IF d = 0 THEN t.byte ELSE IF i >= d THEN g[i - d] ELSE window[(tail + i - d) % W]]
  BY <1>7
<1>11. Spreads(t, n, g)
  BY <1>8, <1>10 DEF Spreads
<1>12. Spreads(t, n, f)
  BY <1>11, Zenon
<1>13. \A i \in 0..n - 1 : f[i] = IF d = 0 THEN t.byte ELSE IF i >= d THEN f[i - d] ELSE window[(tail + i - d) % W]
  BY <1>12 DEF Spreads
<1> DEFINE S == {i \in 0..n - 1 : f[i] # g[i]}
<1>14. ASSUME S # {} PROVE FALSE
  <2>1. S \in SUBSET Nat
    OBVIOUS
  <2>2. PICK i \in S : \A y \in S : i <= y
    BY <1>14, <2>1, LeastNat
  <2>3. i \in 0..n - 1 /\ f[i] # g[i]
    OBVIOUS
  <2>4. CASE d > 0 /\ i >= d
    <3>1. i - d \in 0..n - 1 /\ ~(i <= i - d)
      BY <1>1, <1>2, <2>3, <2>4
    <3>2. f[i - d] = g[i - d]
      BY <2>2, <3>1
    <3>3. d # 0
      BY <1>1, <2>4
    <3>4. f[i] = f[i - d] /\ g[i] = g[i - d]
      BY <1>7, <1>13, <2>3, <2>4, <3>3, Zenon
    <3> QED BY <2>3, <3>2, <3>4
  <2>5. CASE ~(d > 0 /\ i >= d)
    <3>1. d = 0 \/ ~(i >= d)
      BY <1>1, <2>5
    <3>2. f[i] = g[i]
      BY <1>7, <1>13, <2>3, <3>1
    <3> QED BY <2>3, <3>2
  <2> QED BY <2>4, <2>5
<1>15. \A i \in 0..n - 1 : f[i] = g[i]
  BY <1>14
<1> QED BY <1>2, <1>9, <1>15 DEF new

LEMMA SpreadKeepsRing ==
  ASSUME NEW all \in Seq(Byte), RingIs(all), NEW t \in StreamToken, Sensible(all, t), t.dist <= WINDOW, t.len <= WINDOW,
         Spread(t)
  PROVE  RingIs(all \o Brought(all, t))'
<1> DEFINE W == WINDOW
           N == Len(all)
           new == Brought(all, t)
           n == IF t.dist = 0 THEN 1 ELSE t.len
           f == CHOOSE g : Spreads(t, n, g)
           more == all \o new
<1>1. W \in Nat \ {0} /\ N \in Nat /\ n \in Nat \ {0} /\ n <= W
  <2>1. W \in Nat \ {0} /\ N \in Nat /\ t.dist \in Nat /\ t.len \in Nat
    BY WindowNumbers DEF StreamToken
  <2> QED BY <2>1 DEF Sensible
<1>2. \A i \in 0..n - 1 : f[i] = new[i + 1]
  <2> HIDE DEF n, f, new
  <2>1. n = (IF t.dist = 0 THEN 1 ELSE t.len) /\ f = CHOOSE g : Spreads(t, n, g)
    BY Zenon DEF n, f
  <2>2. \A i \in 0..n - 1 : f[i] = Brought(all, t)[i + 1]
    BY <2>1, SpreadBytes
  <2> QED BY <2>2 DEF new
<1>3. /\ window' = [p \in DOMAIN window |-> LET i == (p - tail) % W IN IF i < n THEN f[i] ELSE window[p]]
      /\ tail' = (tail + n) % W
      /\ produced' = IF produced + n < W THEN produced + n ELSE W
  BY Zenon DEF Spread, Spreads
<1>4. new \in Seq(Byte) /\ Len(new) = n
  BY BroughtIs
<1>5. RingOf(window, all) /\ tail = N % W /\ produced = IF N < W THEN N ELSE W
  BY DEF RingIs
<1> HIDE DEF n, f, new
<1>6. Len(more) = N + n /\ (\A i \in 1..N : more[i] = all[i]) /\ \A i \in 1..n : more[N + i] = new[i]
  BY <1>1, <1>4
<1> HIDE DEF more
<1>7. tail' = Len(more) % W
  <2>1. N \in Int /\ n \in Int
    BY <1>1
  <2>2. ((N % W) + n) % W = (N + n) % W
    BY <1>1, <2>1, ModPlus
  <2> QED BY <1>3, <1>5, <1>6, <2>2
<1>8. produced' = IF Len(more) < W THEN Len(more) ELSE W
  BY <1>1, <1>3, <1>5, <1>6
<1>9. DOMAIN window' = 0..W - 1
  BY <1>3, <1>5 DEF RingOf
<1>10. ASSUME NEW k \in 0..Len(more) - 1, Len(more) - k <= W
       PROVE  window'[k % W] = more[k + 1]
  <2> DEFINE p == k % W
             i == (k - N) % W
  <2>1. k \in Int /\ N \in Int /\ k - N \in Int
    BY <1>1, <1>6
  <2>2. p \in 0..W - 1
    BY <1>1, <2>1, ModRange
  <2>3. (p - tail) % W = i
    <3> DEFINE b == 0 - (N % W)
    <3>1. N % W \in 0..W - 1
      BY <1>1, <2>1, ModRange
    <3>2. b \in Int /\ (k % W) + b = p - tail /\ k + b = k - (N % W)
      BY <1>5, <2>1, <2>2, <3>1
    <3> HIDE DEF b
    <3>3. ((k % W) + b) % W = (k + b) % W
      BY <1>1, <2>1, <3>2, ModPlus
    <3>4. (k - (N % W)) % W = (k - N) % W
      BY <1>1, <2>1, ModMinus
    <3> QED BY <3>2, <3>3, <3>4
  <2>4. window'[p] = IF i < n THEN f[i] ELSE window[p]
    <3>1. p \in DOMAIN window
      BY <1>5, <2>2 DEF RingOf
    <3>2. window'[p] = IF (p - tail) % W < n THEN f[(p - tail) % W] ELSE window[p]
      BY <1>3, <3>1
    <3> QED BY <2>3, <3>2
  <2>5. CASE k >= N
    <3>1. k - N \in 0..n - 1 /\ k - N \in 0..W - 1
      BY <1>1, <1>6, <2>5
    <3>2. i = k - N
      BY <1>1, <3>1, ModLess
    <3> HIDE DEF i, p
    <3>3. window'[p] = f[k - N]
      BY <1>1, <2>4, <3>1, <3>2
    <3>4. f[k - N] = new[(k - N) + 1] /\ (k - N) + 1 \in 1..n /\ N + ((k - N) + 1) = k + 1
      BY <1>1, <1>2, <2>1, <3>1
    <3>5. more[N + ((k - N) + 1)] = new[(k - N) + 1]
      BY <1>6, <3>4
    <3>6. window'[p] = more[k + 1]
      BY <3>3, <3>4, <3>5
    <3> QED BY <3>6 DEF p
  <2>6. CASE k < N
    <3>1. (k - N) + W \in n..W - 1 /\ (k - N) + W \in 0..W - 1 /\ ((k - N) + W) - W = k - N /\ (k - N) + W \in Int
      BY <1>1, <1>6, <1>10, <2>1, <2>6
    <3>2. i = (k - N) + W
      <4> DEFINE e == (k - N) + W
      <4>1. e \in 0..W - 1 /\ e \in Int /\ e - W = k - N
        BY <3>1
      <4> HIDE DEF e
      <4>2. (e - W) % W = e % W /\ e % W = e
        BY <1>1, <4>1, ModBack, ModLess
      <4> QED BY <4>1, <4>2 DEF e
    <3> HIDE DEF i, p
    <3>3. ~(i < n)
      BY <1>1, <3>1, <3>2
    <3>4. window'[p] = window[p]
      BY <2>4, <3>3
    <3>5. k \in 0..N - 1 /\ N - k <= W /\ k + 1 \in 1..N
      BY <1>1, <1>6, <1>10, <2>6
    <3>6. window[k % W] = all[k + 1]
      BY <1>5, <3>5 DEF RingOf
    <3>7. more[k + 1] = all[k + 1]
      BY <1>6, <3>5
    <3> QED BY <3>4, <3>6, <3>7 DEF p
  <2> QED BY <1>1, <2>1, <2>5, <2>6
<1>11. RingOf(window', more)
  BY <1>9, <1>10 DEF RingOf
<1> QED BY <1>7, <1>8, <1>11 DEF RingIs, more, new

-----------------------------------------------------------------------------
(***************************************************************************)
(* What has been written.                                                  *)
(***************************************************************************)
LEMMA SubSeqTwo ==
  ASSUME NEW all \in Seq(Byte), NEW a \in Nat, NEW b \in Nat, NEW c \in Nat, a <= b, b <= c, c <= Len(all)
  PROVE  /\ SubSeq(all, a + 1, b) \in Seq(Byte) /\ Len(SubSeq(all, a + 1, b)) = b - a
         /\ \A i \in 1..b - a : SubSeq(all, a + 1, b)[i] = all[a + i]
         /\ SubSeq(all, a + 1, c) = SubSeq(all, a + 1, b) \o SubSeq(all, b + 1, c)
<1> DEFINE P(x, y) == SubSeq(all, x + 1, y)
<1>1. Len(all) \in Nat
  OBVIOUS
<1>2. ASSUME NEW x \in Nat, NEW y \in Nat, x <= y, y <= Len(all)
      PROVE  P(x, y) \in Seq(Byte) /\ Len(P(x, y)) = y - x /\ \A i \in 1..y - x : P(x, y)[i] = all[x + i]
  <2>1. x + 1 \in 1..Len(all) + 1 /\ y \in (x + 1) - 1..Len(all)
    BY <1>1, <1>2
  <2>2. \A i \in 1..y - x : (x + 1) + i - 1 = x + i
    OBVIOUS
  <2>3. y - x \in Nat /\ y - (x + 1) + 1 = y - x
    BY <1>2
  <2> QED BY <1>1, <1>2, <2>1, <2>2, <2>3
<1> HIDE DEF P
<1>3. P(a, b) \in Seq(Byte) /\ Len(P(a, b)) = b - a /\ \A i \in 1..b - a : P(a, b)[i] = all[a + i]
  <2>1. b <= Len(all)
    BY <1>1
  <2> QED BY <1>2, <2>1, Zenon
<1>4. P(b, c) \in Seq(Byte) /\ Len(P(b, c)) = c - b /\ \A i \in 1..c - b : P(b, c)[i] = all[b + i]
  BY <1>2, Zenon
<1>5. P(a, c) \in Seq(Byte) /\ Len(P(a, c)) = c - a /\ \A i \in 1..c - a : P(a, c)[i] = all[a + i]
  <2>1. a <= c
    OBVIOUS
  <2> QED BY <1>1, <1>2, <2>1
<1> DEFINE x == P(a, b)
           y == P(b, c)
           d == x \o y
<1>9. x \in Seq(Byte) /\ y \in Seq(Byte) /\ Len(x) = b - a /\ Len(y) = c - b
  BY <1>3, <1>4
<1> HIDE DEF x, y
<1>6. /\ d \in Seq(Byte) /\ Len(d) = c - a
      /\ \A i \in 1..b - a : d[i] = x[i]
      /\ \A i \in 1..c - b : d[(b - a) + i] = y[i]
  <2>1. d \in Seq(Byte) /\ Len(d) = Len(x) + Len(y)
    BY <1>9
  <2>2. Len(d) = c - a
    BY <1>9, <2>1
  <2>3. \A i \in 1..Len(x) : d[i] = x[i]
    BY <1>9
  <2>4. \A i \in 1..Len(y) : d[Len(x) + i] = y[i]
    BY <1>9
  <2> QED BY <1>9, <2>1, <2>2, <2>3, <2>4, Zenon
<1> HIDE DEF d
<1>7. ASSUME NEW i \in 1..c - a PROVE P(a, c)[i] = d[i]
  <2>1. CASE i <= b - a
    <3>1. i \in 1..b - a
      BY <2>1
    <3> QED BY <1>3, <1>5, <1>6, <3>1 DEF x
  <2>2. CASE i > b - a
    <3>1. i - (b - a) \in 1..c - b /\ (b - a) + (i - (b - a)) = i /\ b + (i - (b - a)) = a + i
      BY <2>2
    <3>2. d[(b - a) + (i - (b - a))] = P(b, c)[i - (b - a)]
      BY <1>6, <3>1 DEF y
    <3>3. P(b, c)[i - (b - a)] = all[b + (i - (b - a))]
      BY <1>4, <3>1
    <3> QED BY <1>5, <3>1, <3>2, <3>3
  <2> QED BY <2>1, <2>2
<1>8. P(a, c) = d
  BY <1>5, <1>6, <1>7, SeqEqual
<1> QED BY <1>3, <1>8 DEF P, d, x, y

\* A piece, and all the pieces before it.
Piece(all, M, F) == SubSeq(all, M + 1, F)

LEMMA PieceIs ==
  ASSUME NEW s \in 0..10, NEW all \in Seq(Byte), NEW M \in Nat, NEW F \in M..Len(all)
  PROVE  /\ Piece(all, M, F) \in Seq(Byte) /\ Len(Piece(all, M, F)) = F - M
         /\ Undone(s, Piece(all, M, F)) \in Seq(Byte) /\ Len(Undone(s, Piece(all, M, F))) = F - M
<1>1. F \in Nat /\ M <= F /\ F <= Len(all)
  OBVIOUS
<1>2. Piece(all, M, F) \in Seq(Byte) /\ Len(Piece(all, M, F)) = F - M
  BY <1>1, SubSeqTwo DEF Piece
<1> QED BY <1>2, UndoneIs

LEMMA PieceOn ==
  ASSUME NEW s \in 0..10, NEW all \in Seq(Byte), NEW M \in Nat, NEW F \in M..Len(all), NEW n \in Nat, F + n <= Len(all)
  PROVE  LET p == SubSeq(all, F + 1, F + n)
         IN  /\ Undone(s, Piece(all, M, F + n)) = Undone(s, Piece(all, M, F)) \o (IF s = 0 THEN p ELSE UnDelta(Heard(s, Piece(all, M, F)), p).out)
             /\ Heard(s, Piece(all, M, F + n)) = IF s = 0 THEN Heard(s, Piece(all, M, F)) ELSE UnDelta(Heard(s, Piece(all, M, F)), p).db
<1> DEFINE G == F + n
<1>1. F \in Nat /\ G \in Nat /\ M <= F /\ F <= G /\ G <= Len(all)
  OBVIOUS
<1> HIDE DEF G
<1>2. Piece(all, M, F) \in Seq(Byte) /\ Piece(all, M, G) = Piece(all, M, F) \o SubSeq(all, F + 1, G)
  BY <1>1, SubSeqTwo DEF Piece
<1>3. SubSeq(all, F + 1, G) \in Seq(Byte)
  <2>1. Len(all) \in Nat
    OBVIOUS
  <2> QED BY <1>1, <2>1, SubSeqTwo
<1>4. /\ Undone(s, Piece(all, M, G)) = Undone(s, Piece(all, M, F)) \o (IF s = 0 THEN SubSeq(all, F + 1, G) ELSE UnDelta(Heard(s, Piece(all, M, F)), SubSeq(all, F + 1, G)).out)
      /\ Heard(s, Piece(all, M, G)) = IF s = 0 THEN Heard(s, Piece(all, M, F)) ELSE UnDelta(Heard(s, Piece(all, M, F)), SubSeq(all, F + 1, G)).db
  <2> DEFINE x == Piece(all, M, F)
             y == SubSeq(all, F + 1, G)
  <2>1. x \in Seq(Byte) /\ y \in Seq(Byte) /\ Piece(all, M, G) = x \o y
    BY <1>2, <1>3
  <2> HIDE DEF x, y
  <2>2. /\ Undone(s, x \o y) = Undone(s, x) \o (IF s = 0 THEN y ELSE UnDelta(Heard(s, x), y).out)
        /\ Heard(s, x \o y) = IF s = 0 THEN Heard(s, x) ELSE UnDelta(Heard(s, x), y).db
    BY <2>1, UndoneTwo
  <2> QED BY <2>1, <2>2, Zenon DEF x, y
<1> QED BY <1>4 DEF G

\* What is undone of a beginning is a beginning of what is undone of all.
LEMMA PieceBegins ==
  ASSUME NEW s \in 0..10, NEW z \in Seq(Byte), NEW all \in Seq(Byte), Begins(all, z), NEW M \in Nat, NEW F \in M..Len(all)
  PROVE  LET w == Undone(s, Piece(z, M, Len(z)))
         IN  /\ Len(w) = Len(z) - M /\ F - M <= Len(w)
             /\ Undone(s, Piece(all, M, F)) = SubSeq(w, 1, F - M)
<1> DEFINE L == Len(z)
           u == Undone(s, Piece(z, M, F))
           w == Undone(s, Piece(z, M, L))
<1>1. L \in Nat /\ Len(all) \in Nat /\ Len(all) <= L /\ F \in Nat /\ M <= F /\ F <= L /\ F <= Len(all)
  BY DEF Begins
<1>2. Piece(all, M, F) = Piece(z, M, F)
  <2> DEFINE a == Piece(all, M, F)
             b == Piece(z, M, F)
  <2>1. a \in Seq(Byte) /\ Len(a) = F - M /\ \A i \in 1..F - M : a[i] = all[M + i]
    BY <1>1, SubSeqTwo DEF Piece
  <2>2. b \in Seq(Byte) /\ Len(b) = F - M /\ \A i \in 1..F - M : b[i] = z[M + i]
    BY <1>1, SubSeqTwo DEF Piece
  <2> HIDE DEF a, b
  <2>3. ASSUME NEW i \in 1..F - M PROVE a[i] = b[i]
    <3>1. M + i \in 1..Len(all)
      BY <1>1
    <3>2. all[M + i] = z[M + i]
      BY <3>1 DEF Begins
    <3> QED BY <2>1, <2>2, <3>2
  <2>4. a = b
    BY <1>1, <2>1, <2>2, <2>3, SeqEqual
  <2> QED BY <2>4 DEF a, b
<1>3. F \in M..Len(z) /\ L \in M..Len(z)
  BY <1>1
<1>4. u \in Seq(Byte) /\ Len(u) = F - M
  BY <1>3, PieceIs
<1>5. w \in Seq(Byte) /\ Len(w) = L - M
  <2> HIDE DEF L
  <2> QED BY <1>3, PieceIs
<1> DEFINE n == L - F
           p == SubSeq(z, F + 1, F + n)
           v == IF s = 0 THEN p ELSE UnDelta(Heard(s, Piece(z, M, F)), p).out
<1>6. w = u \o v
  <2>1. n \in Nat /\ F + n <= Len(z) /\ F + n = L
    BY <1>1
  <2>2. Undone(s, Piece(z, M, F + n)) = u \o v
    <3> HIDE DEF n
    <3> QED BY <1>3, <2>1, PieceOn
  <2> QED BY <2>1, <2>2
<1>7. \A i \in 1..F - M : w[i] = u[i]
  <2> DEFINE y == Piece(z, M, F)
             x == SubSeq(z, F + 1, L)
  <2>1. y \in Seq(Byte)
    BY <1>3, PieceIs
  <2>2. p \in Seq(Byte)
    <3>1. L <= Len(z) /\ F + n = L
      BY <1>1
    <3>2. SubSeq(z, F + 1, L) \in Seq(Byte)
      BY <1>1, <3>1, SubSeqTwo
    <3> QED BY <3>1, <3>2
  <2>3. v \in Seq(Byte)
    <3>1. CASE s = 0
      BY <2>2, <3>1
    <3>2. CASE s # 0
      <4>1. s \in 1..10
        BY <3>2
      <4>2. InitDelta(s) \in Channels(s)
        BY <4>1, InitChannels
      <4>3. Heard(s, y) \in Channels(s)
        <5>1. Heard(s, y) = UnDelta(InitDelta(s), y).db
          BY <3>2 DEF Heard
        <5> QED BY <2>1, <4>1, <4>2, <5>1, UnDeltaTwo, ZenonT(30)
      <4> HIDE DEF p, y
      <4>4. UnDelta(Heard(s, y), p).out \in Seq(Byte)
        BY <2>2, <4>1, <4>3, UnDeltaIs DEF p
      <4> QED BY <3>2, <4>4 DEF y
    <3> QED BY <3>1, <3>2
  <2> HIDE DEF u, v, w
  <2> QED BY <1>4, <1>6, <2>3
<1> HIDE DEF u, v, w
<1>8. F - M \in Nat /\ F - M <= Len(w)
  BY <1>1, <1>5
<1>9. SubSeq(w, 1, F - M) = u
  <2> DEFINE b == SubSeq(w, 1, F - M)
  <2>1. b \in Seq(Byte) /\ Len(b) = F - M /\ \A i \in 1..F - M : b[i] = w[i]
    BY <1>5, <1>8
  <2> HIDE DEF b
  <2>2. b = u
    BY <1>4, <1>7, <2>1, SeqEqual
  <2> QED BY <2>2 DEF b
<1> QED BY <1>2, <1>5, <1>8, <1>9 DEF u, w

\* Told: the data of the first n tokens.
Told == Staged(Loaded(member, Stride), member.tokens)
Final == Unpack(Loaded(member, Stride), member.tokens)
Before == Len(member.master)
Wanted == Undone(Stride, Piece(Final.data, Before, Len(Final.data)))

ReadUpTo(n, all) ==
    /\ Told[n].good /\ all = Told[n].data
    /\ \/ tokens = SubSeq(member.tokens, n + 1, Len(member.tokens))
       \/ /\ tokens = <<>> /\ n < Len(member.tokens) /\ ~Told[n + 1].good
          /\ program # "original" /\ (program = "raw" => status = "Damaged")
Sent(all, F) ==
    /\ F \in Before..Len(all)
    /\ out = Undone(Stride, Piece(all, Before, F))
    /\ delta = Heard(Stride, Piece(all, Before, F))
    /\ limit = member.size - (F - Before) /\ limit >= 0
ByRing(all, F) ==
    /\ flushed = F % WINDOW
    /\ Len(all) - F < WINDOW
    /\ status = "Decode" => Len(all) - F + MARGIN < WINDOW
\* H: where the half that is being filled begins.
ByHalves(all, F, H) ==
    /\ F = H + skip /\ skip \in 0..HALF - 1
    /\ comp \in {0, HALF} /\ H % WINDOW = HALF - comp
    /\ status = "Decode" => Len(all) < H + HALF
    /\ status = "Flush" => H + HALF <= Len(all) /\ Len(all) < H + WINDOW
Ending(all, F) ==
    /\ status = "Done" => tokens = <<>> /\ F = Len(all)
    /\ status = "Damaged" => program = "raw" /\ (~Final.good \/ Len(all) - Before > member.size)
UnderWay(n, all, F) ==
    /\ ReadUpTo(n, all) /\ RingIs(all) /\ Sent(all, F) /\ Ending(all, F)
    /\ IsLibrary => ByRing(all, F)
    /\ (~IsLibrary /\ status # "Done") => \E H \in 0..Len(all) : ByHalves(all, F, H)
Going == \E n \in 0..Len(member.tokens) : \E all \in {Told[n].data} : \E F \in Before..Len(all) : UnderWay(n, all, F)
\* All the bytes that were asked for are written, and nothing more will be.
Full == /\ program # "raw" /\ limit = 0 /\ status # "Damaged" /\ (program = "original" => status = "Done")
        /\ tokens \in Seq(StreamToken) /\ tail \in 0..WINDOW - 1 /\ (IsLibrary => flushed \in 0..WINDOW - 1)
        /\ member.size <= Len(Wanted) /\ out = SubSeq(Wanted, 1, member.size)
\* A decoder is under way, at some token and with some point written, or has given
\* all the bytes that were asked for.
WindowsInv ==
    /\ member \in Members /\ program \in {"library", "raw", "original"}
    /\ status \in {"Decode", "Flush", "Done", "Damaged"}
    /\ program = "original" => Trusted(member, Stride)
    /\ Going \/ Full

LEMMA MemberFacts ==
  ASSUME member \in Members, program \in {"library", "raw", "original"}
  PROVE  /\ Stride \in 0..10 /\ Stride = Compressor(member.method).stride
         /\ member.master \in Seq(Byte) /\ Before \in Nat /\ Before < WINDOW /\ member.size \in Nat
         /\ member.tokens \in Seq(StreamToken)
         /\ \A i \in 1..Len(member.tokens) : member.tokens[i].len <= MARGIN /\ member.tokens[i].dist <= WINDOW
         /\ Loaded(member, Stride) \in Seq(Byte) /\ Len(Loaded(member, Stride)) = Before
<1>1. /\ member.method \in (1..9) \cup (21..49)
      /\ member.master \in Seq(Byte) /\ Len(member.master) < WINDOW
      /\ member.tokens \in Seq(StreamToken) /\ \A i \in DOMAIN member.tokens : member.tokens[i].len <= MARGIN /\ member.tokens[i].dist <= WINDOW
      /\ member.size \in Nat
  BY WindowAssumption DEF WindowAssumption
<1>2. Stride \in 0..10 /\ Stride = Compressor(member.method).stride
  <2> DEFINE m == member.method
  <2>8. m \in (1..9) \cup (21..49)
    BY <1>1
  <2>2. Stride = IF m \in 1..9 THEN 0 ELSE IF m \in 30..39 THEN m - 29 ELSE IF m \in 40..49 THEN m - 39 ELSE 1
    BY DEF Stride, Decompressor, decompressor
  <2>3. Compressor(m).stride = IF m \in 21..29 THEN 1 ELSE IF m \in 30..39 THEN m - 29 ELSE IF m \in 40..49 THEN m - 39
                               ELSE IF m \in 50..59 THEN m - 49 ELSE IF m \in 60..69 THEN m - 59 ELSE 0
    BY DEF Compressor
  <2> HIDE DEF m
  <2>1. m \in (1..9) \cup (21..49) /\ m \in Int
    BY <2>8
  <2>4. CASE m \in 1..9
    BY <2>2, <2>3, <2>4 DEF m
  <2>5. CASE m \in 21..29
    BY <2>2, <2>3, <2>5 DEF m
  <2>6. CASE m \in 30..39
    BY <2>2, <2>3, <2>6 DEF m
  <2>7. CASE m \in 40..49
    BY <2>2, <2>3, <2>7 DEF m
  <2> QED BY <2>1, <2>4, <2>5, <2>6, <2>7
<1>3. Loaded(member, Stride) \in Seq(Byte) /\ Len(Loaded(member, Stride)) = Before
  <2>1. CASE Stride = 0 \/ member.super
    BY <1>1, <2>1 DEF Loaded, Before
  <2>2. CASE ~(Stride = 0 \/ member.super)
    <3>1. Stride \in 1..10
      BY <1>2, <2>2
    <3>2. InitDelta(Stride) \in Channels(Stride)
      BY <3>1, InitChannels
    <3>3. Loaded(member, Stride) = DeltaOf(InitDelta(Stride), member.master).out
      BY <2>2 DEF Loaded
    <3> QED BY <1>1, <3>1, <3>2, <3>3, DifferencesAreBytes DEF Before
  <2> QED BY <2>1, <2>2
<1>4. Before \in Nat /\ Before < WINDOW
  BY <1>1 DEF Before
<1>5. DOMAIN member.tokens = 1..Len(member.tokens)
  BY <1>1
<1> QED BY <1>1, <1>2, <1>3, <1>4, <1>5

LEMMA ToldFacts ==
  ASSUME member \in Members, program \in {"library", "raw", "original"}
  PROVE  /\ Told[0] = Base(Loaded(member, Stride))
         /\ \A n \in 1..Len(member.tokens) : Told[n] = Further(Told[n - 1], member.tokens[n])
         /\ Final = Told[Len(member.tokens)] /\ Final \in Unpacked
         /\ \A n \in 0..Len(member.tokens) : /\ Told[n] \in Unpacked /\ Told[n].data \in Seq(Byte)
                                             /\ Begins(Told[n].data, Final.data)
                                             /\ ~Told[n].good => Final = Told[n]
<1> DEFINE content == Loaded(member, Stride)
           ts == member.tokens
<1>1. content \in Seq(Byte) /\ ts \in Seq(StreamToken)
  BY MemberFacts
<1>2. Told = Staged(content, ts) /\ Final = Unpack(content, ts)
  BY DEF Told, Final
<1> HIDE DEF content, ts
<1>3. /\ Told[0] = Base(content)
      /\ \A n \in 1..Len(ts) : Told[n] = Further(Told[n - 1], ts[n])
      /\ Final = Told[Len(ts)]
  BY <1>1, <1>2, AfterIs
<1>4. \A n \in 0..Len(ts) : Told[n] \in Unpacked
  BY <1>1, <1>2, AfterType
<1>5. ASSUME NEW n \in 0..Len(ts)
      PROVE  Final \in Unpacked /\ Begins(Told[n].data, Final.data) /\ (~Told[n].good => Final = Told[n])
  BY <1>1, <1>2, AfterGrows
<1>6. Len(ts) \in Nat
  BY <1>1
<1>7. Final \in Unpacked
  BY <1>5, <1>6
<1>8. \A n \in 0..Len(ts) : Told[n].data \in Seq(Byte)
  BY <1>4 DEF Unpacked
<1> QED BY <1>3, <1>4, <1>5, <1>7, <1>8 DEF content, ts

LEMMA TrustedFacts ==
  ASSUME member \in Members, program \in {"library", "raw", "original"}, Trusted(member, Stride)
  PROVE  /\ \A n \in 0..Len(member.tokens) : Told[n].good
         /\ \A i \in 1..Len(member.tokens) : member.tokens[i].len <= HALF
<1>1. Final.good /\ \A i \in DOMAIN member.tokens : member.tokens[i].len <= HALF
  BY DEF Trusted, Final
<1>2. \A n \in 0..Len(member.tokens) : ~Told[n].good => Final = Told[n]
  BY ToldFacts
<1>3. DOMAIN member.tokens = 1..Len(member.tokens)
  BY MemberFacts
<1> QED BY <1>1, <1>2, <1>3

LEMMA RingDistance ==
  ASSUME NEW N \in Nat, NEW F \in Nat, F <= N, N - F < WINDOW
  PROVE  ((N % WINDOW) - (F % WINDOW)) % WINDOW = N - F
<1> DEFINE W == WINDOW
           r == N % W
           b == 0 - (F % W)
           d == N - F
<1>1. W \in Nat \ {0}
  BY WindowNumbers
<1>2. r \in 0..W - 1 /\ F % W \in 0..W - 1
  BY <1>1, ModRange
<1>3. b \in Int /\ r + b = r - (F % W) /\ N + b = N - (F % W) /\ N \in Int /\ F \in Int
  BY <1>2
<1>4. (r + b) % W = (N + b) % W
  <2> HIDE DEF b
  <2> QED BY <1>1, <1>3, ModPlus
<1>5. (N - (F % W)) % W = (N - F) % W
  BY <1>1, <1>3, ModMinus
<1>6. d % W = d
  <2>1. d \in 0..W - 1
    BY <1>1
  <2> HIDE DEF d
  <2> QED BY <1>1, <2>1, ModLess
<1> QED BY <1>3, <1>4, <1>5, <1>6

LEMMA Frame ==
  ASSUME UNCHANGED <<member, program>>
  PROVE  /\ Stride' = Stride /\ Told' = Told /\ Final' = Final /\ Before' = Before /\ Wanted' = Wanted
         /\ IsLibrary' = IsLibrary /\ Trusted(member, Stride)' = Trusted(member, Stride)
<1>1. member' = member /\ program' = program
  OBVIOUS
<1>2. Stride' = Stride /\ Before' = Before /\ IsLibrary' = IsLibrary
  BY <1>1 DEF Stride, Before, IsLibrary
<1>3. Told' = Told /\ Final' = Final
  BY <1>1, <1>2 DEF Told, Final
<1>4. Wanted' = Wanted
  BY <1>2, <1>3 DEF Wanted
<1>5. Trusted(member, Stride)' = Trusted(member, Stride)
  BY <1>1, <1>2 DEF Trusted
<1> QED BY <1>2, <1>3, <1>4, <1>5

LEMMA WriteOn ==
  ASSUME member \in Members, program \in {"library", "raw", "original"},
         NEW all \in Seq(Byte), NEW F, Sent(all, F), RingIs(all), NEW n \in Nat,
         (F % WINDOW) + n <= WINDOW, F + n <= Len(all), Len(all) - F <= WINDOW, n <= limit,
         Write(F % WINDOW, n), UNCHANGED <<member, program>>
  PROVE  Sent(all, F + n)'
<1> DEFINE p == [i \in 1..n |-> window[(F % WINDOW) + i - 1]]
           M == Before
           s == Stride
<1>1. s \in 0..10 /\ M \in Nat /\ member.size \in Nat
  BY MemberFacts
<1>2. /\ F \in M..Len(all) /\ out = Undone(s, Piece(all, M, F)) /\ delta = Heard(s, Piece(all, M, F))
      /\ limit = member.size - (F - M)
  BY DEF Sent
<1>3. p = SubSeq(all, F + 1, F + n)
  <2>1. RingOf(window, all) /\ F \in 0..Len(all)
    BY <1>1, <1>2 DEF RingIs
  <2>2. F + n <= Len(all) /\ Len(all) - F <= WINDOW /\ (F % WINDOW) + n <= WINDOW
    OBVIOUS
  <2>3. ReadFrom(window, F, n) = SubSeq(all, F + 1, F + n)
    BY <2>1, <2>2, RingRead
  <2> QED BY <2>3, Zenon DEF ReadFrom
<1>4. /\ out' = out \o (IF s = 0 THEN p ELSE UnDelta(delta, p).out)
      /\ delta' = IF s = 0 THEN delta ELSE UnDelta(delta, p).db
      /\ limit' = limit - n
  BY Zenon DEF Write
<1>5. Stride' = s /\ Before' = M /\ member' = member
  BY Frame
<1> HIDE DEF p, M, s
<1>6. /\ Undone(s, Piece(all, M, F + n)) = Undone(s, Piece(all, M, F)) \o (IF s = 0 THEN p ELSE UnDelta(Heard(s, Piece(all, M, F)), p).out)
      /\ Heard(s, Piece(all, M, F + n)) = IF s = 0 THEN Heard(s, Piece(all, M, F)) ELSE UnDelta(Heard(s, Piece(all, M, F)), p).db
  BY <1>1, <1>2, <1>3, PieceOn, ZenonT(40)
<1>7. out' = Undone(s, Piece(all, M, F + n)) /\ delta' = Heard(s, Piece(all, M, F + n))
  BY <1>2, <1>4, <1>6, Zenon
<1>8. F + n \in M..Len(all) /\ limit' = member.size - ((F + n) - M) /\ limit' >= 0
  <2>1. F + n <= Len(all) /\ n <= limit
    OBVIOUS
  <2>2. M <= F /\ F \in Int
    BY <1>1, <1>2
  <2> QED BY <1>1, <1>2, <1>4, <2>1, <2>2
<1> DEFINE G == F + n
<1>9. /\ G \in Before'..Len(all) /\ out' = Undone(Stride', Piece(all, Before', G))
      /\ delta' = Heard(Stride', Piece(all, Before', G))
      /\ limit' = member'.size - (G - Before') /\ limit' >= 0
  BY <1>5, <1>7, <1>8
<1> HIDE DEF G
<1>10. Sent(all, G)'
  BY <1>9 DEF Sent
<1> QED BY <1>10 DEF G

\* The next token, while there is one.
LEMMA NextToken ==
  ASSUME member \in Members, program \in {"library", "raw", "original"},
         NEW n \in 0..Len(member.tokens), NEW all, ReadUpTo(n, all), tokens # <<>>
  PROVE  LET t == Head(tokens)
         IN  /\ n + 1 \in 1..Len(member.tokens) /\ t = member.tokens[n + 1] /\ t \in StreamToken
             /\ t.len <= MARGIN /\ t.dist <= WINDOW /\ t.len \in Nat /\ t.dist \in Nat
             /\ Tail(tokens) = SubSeq(member.tokens, (n + 1) + 1, Len(member.tokens))
             /\ Told[n] \in Unpacked /\ Told[n].good /\ all = Told[n].data /\ all \in Seq(Byte)
             /\ Told[n + 1] = Further(Told[n], t)
<1> DEFINE mt == member.tokens
           K == Len(mt)
           t == Head(tokens)
<1>1. mt \in Seq(StreamToken) /\ K \in Nat /\ n \in Nat
  BY MemberFacts
<1>2. tokens = SubSeq(mt, n + 1, K) /\ Told[n].good /\ all = Told[n].data
  BY DEF ReadUpTo
<1>3. n < K
  <2>1. SUFFICES ASSUME n = K PROVE FALSE
    BY <1>1
  <2>2. SubSeq(mt, n + 1, K) = <<>>
    BY <1>1, <2>1
  <2> QED BY <1>2, <2>2
<1>4. t = mt[n + 1] /\ Tail(tokens) = SubSeq(mt, (n + 1) + 1, K)
  <2> DEFINE a == SubSeq(mt, n + 1, K)
             b == SubSeq(mt, (n + 1) + 1, K)
  <2>1. a \in Seq(StreamToken) /\ Len(a) = K - n /\ \A i \in 1..K - n : a[i] = mt[n + i]
    <3>1. n + 1 \in 1..K + 1 /\ K \in (n + 1) - 1..K /\ K - (n + 1) + 1 = K - n
      BY <1>1, <1>3
    <3>2. \A i \in 1..K - n : (n + 1) + i - 1 = n + i
      BY <1>1
    <3> QED BY <1>1, <3>1, <3>2
  <2>2. b \in Seq(StreamToken) /\ Len(b) = K - n - 1 /\ \A i \in 1..K - n - 1 : b[i] = mt[n + 1 + i]
    <3>1. (n + 1) + 1 \in 1..K + 1 /\ K \in ((n + 1) + 1) - 1..K /\ K - ((n + 1) + 1) + 1 = K - n - 1
      BY <1>1, <1>3
    <3>2. \A i \in 1..K - n - 1 : ((n + 1) + 1) + i - 1 = n + 1 + i
      BY <1>1
    <3> QED BY <1>1, <3>1, <3>2
  <2> HIDE DEF a, b
  <2>3. Head(a) = mt[n + 1]
    BY <1>1, <1>3, <2>1
  <2>4. Tail(a) \in Seq(StreamToken) /\ Len(Tail(a)) = K - n - 1 /\ \A i \in 1..K - n - 1 : Tail(a)[i] = a[i + 1]
    BY <1>1, <1>3, <2>1
  <2>5. ASSUME NEW i \in 1..K - n - 1 PROVE Tail(a)[i] = b[i]
    <3>1. i + 1 \in 1..K - n /\ n + (i + 1) = n + 1 + i
      BY <1>1
    <3> QED BY <2>1, <2>2, <2>4, <3>1
  <2>6. Tail(a) = b
    BY <2>2, <2>4, <2>5, SeqEqual
  <2> QED BY <1>2, <2>3, <2>6 DEF a, b
<1>5. n + 1 \in 1..K /\ (n + 1) - 1 = n
  BY <1>1, <1>3
<1>6. t \in StreamToken /\ t.len <= MARGIN /\ t.dist <= WINDOW
  BY <1>1, <1>4, <1>5, MemberFacts
<1>7. Told[n + 1] = Further(Told[n], t)
  <2>1. Told[n + 1] = Further(Told[(n + 1) - 1], mt[n + 1])
    BY <1>5, ToldFacts
  <2> QED BY <1>4, <1>5, <2>1
<1>8. Told[n] \in Unpacked /\ Told[n].data \in Seq(Byte)
  BY ToldFacts
<1>9. t.len \in Nat /\ t.dist \in Nat
  BY <1>6 DEF StreamToken
<1> QED BY <1>2, <1>4, <1>5, <1>6, <1>7, <1>8, <1>9

LEMMA GoingOn ==
  ASSUME UNCHANGED <<member, program>>, NEW n \in 0..Len(member.tokens), NEW all, all = Told[n].data,
         NEW F \in Before..Len(all), UnderWay(n, all, F)'
  PROVE  Going'
<1>1. Told' = Told /\ Before' = Before /\ member' = member
  BY Frame
<1>2. n \in 0..Len(member'.tokens) /\ all \in {Told'[n].data} /\ F \in Before'..Len(all)
  BY <1>1
<1> QED BY <1>2 DEF Going

LEMMA HeardNone ==
  ASSUME NEW s \in 0..10
  PROVE  Undone(s, <<>>) = <<>> /\ Heard(s, <<>>) = InitDelta(IF s = 0 THEN 1 ELSE s)
<1>1. <<>> \in Seq(Byte) /\ Len(<<>>) = 0
  OBVIOUS
<1>2. Undone(s, <<>>) \in Seq(Byte) /\ Len(Undone(s, <<>>)) = 0
  BY <1>1, UndoneIs
<1>3. Undone(s, <<>>) = <<>>
  BY <1>2
<1>4. CASE s = 0
  BY <1>3, <1>4 DEF Heard
<1>5. CASE s # 0
  <2> DEFINE db == InitDelta(s)
             e == Passed(db, <<>>)
             o == UnDelta(db, <<>>).out
  <2>1. s \in 1..10 /\ s \in Nat \ {0}
    BY <1>5
  <2>2. db \in Channels(s) /\ db.ctr = 0
    <3>1. db \in Channels(s)
      BY <2>1, InitChannels
    <3> QED BY <3>1 DEF InitDelta
  <2> HIDE DEF db
  <2>3. o = <<>> /\ UnDelta(db, <<>>).db = e
    <3>1. o \in Seq(Byte) /\ Len(o) = Len(<<>>) /\ UnDelta(db, <<>>).db = Passed(db, o)
      BY <1>1, <2>1, <2>2, UnDeltaIs
    <3>2. o = <<>>
      BY <1>1, <3>1
    <3> QED BY <3>1, <3>2
  <2>4. /\ e \in Channels(s) /\ e.ctr = (db.ctr + Len(<<>>)) % s
        /\ \A c \in 0..9 : Hears(db, <<>>, c, e.arra[c])
    BY <1>1, <2>1, <2>2, PassedIs
  <2> HIDE DEF e
  <2>5. e.ctr = db.ctr
    <3>1. 0 \in 0..s - 1
      BY <2>1
    <3>2. 0 % s = 0
      BY <2>1, <3>1, ModLess
    <3> QED BY <1>1, <2>2, <2>4, <3>2
  <2>6. ASSUME NEW c \in 0..9 PROVE e.arra[c] = db.arra[c]
    <3>1. NeverAt(db, <<>>, c)
      BY <1>1 DEF NeverAt
    <3> QED BY <2>4, <3>1 DEF Hears
  <2>7. e = db
    BY <2>1, <2>2, <2>4, <2>5, <2>6, ChannelsSame
  <2>8. Heard(s, <<>>) = UnDelta(InitDelta(s), <<>>).db
    BY <1>5 DEF Heard
  <2> QED BY <1>3, <1>5, <2>3, <2>7, <2>8 DEF db
<1> QED BY <1>4, <1>5

LEMMA WindowsStart ==
  ASSUME WindowsInit
  PROVE  WindowsInv
<1>1. /\ member \in Members /\ program \in {"library", "raw", "original"}
      /\ program = "original" => Trusted(member, Stride)
      /\ status = "Decode" /\ tokens = member.tokens /\ out = <<>> /\ limit = member.size
      /\ delta = InitDelta(IF Stride = 0 THEN 1 ELSE Stride)
      /\ window = WindowOf(member, Stride) /\ tail = Before /\ flushed = Before /\ produced = Before
      /\ skip = IF Before >= HALF THEN Before - HALF ELSE Before
      /\ comp = IF Before >= HALF THEN 0 ELSE HALF
  BY DEF WindowsInit, Before
<1> DEFINE all == Loaded(member, Stride)
           s == Stride
           K == Len(member.tokens)
<1>2. s \in 0..10 /\ Before \in Nat /\ Before < WINDOW /\ member.size \in Nat /\ member.tokens \in Seq(StreamToken)
      /\ all \in Seq(Byte) /\ Len(all) = Before
  BY <1>1, MemberFacts
<1>3. K \in Nat /\ Told[0] = Base(all)
  BY <1>1, <1>2, ToldFacts
<1>4. WINDOW \in Nat \ {0} /\ HALF \in Nat /\ HALF > 0 /\ WINDOW = HALF + HALF /\ MARGIN < WINDOW /\ MARGIN \in Nat
  BY WindowNumbers
<1>5. ASSUME NEW k \in 0..WINDOW - 1 PROVE k % WINDOW = k
  BY <1>4, ModLess
<1>6. ReadUpTo(0, all)
  <2>1. SubSeq(member.tokens, 0 + 1, K) = member.tokens
    BY <1>2
  <2> QED BY <1>1, <1>3, <2>1 DEF ReadUpTo, Base
<1>7. RingIs(all)
  <2>1. window = [i \in 0..WINDOW - 1 |-> IF i < Before THEN all[i + 1] ELSE 0]
    BY <1>1 DEF WindowOf, Before
  <2> HIDE DEF all
  <2>2. ASSUME NEW k \in 0..Len(all) - 1 PROVE window[k % WINDOW] = all[k + 1]
    <3>1. k \in 0..WINDOW - 1 /\ k < Before
      BY <1>2, <1>4
    <3>2. k % WINDOW = k
      BY <1>5, <3>1
    <3>3. window[k] = all[k + 1]
      BY <2>1, <3>1
    <3> QED BY <3>2, <3>3
  <2>3. RingOf(window, all)
    BY <2>1, <2>2 DEF RingOf
  <2>4. Before \in 0..WINDOW - 1
    BY <1>2, <1>4
  <2>5. tail = Len(all) % WINDOW
    BY <1>1, <1>2, <1>5, <2>4
  <2>6. produced = IF Len(all) < WINDOW THEN Len(all) ELSE WINDOW
    BY <1>1, <1>2
  <2> QED BY <2>3, <2>5, <2>6 DEF RingIs
<1>8. Sent(all, Before)
  <2>1. Piece(all, Before, Before) = <<>>
    <3>1. Piece(all, Before, Before) \in Seq(Byte) /\ Len(Piece(all, Before, Before)) = 0
      <4>1. Before \in Before..Len(all)
        BY <1>2
      <4>2. Len(Piece(all, Before, Before)) = Before - Before
        BY <1>2, <4>1, PieceIs
      <4>3. Piece(all, Before, Before) \in Seq(Byte)
        BY <1>2, <4>1, PieceIs
      <4> QED BY <1>2, <4>2, <4>3
    <3> QED BY <3>1
  <2>2. out = Undone(Stride, Piece(all, Before, Before)) /\ delta = Heard(Stride, Piece(all, Before, Before))
    BY <1>1, <1>2, <2>1, HeardNone
  <2> QED BY <1>1, <1>2, <2>2 DEF Sent
<1>9. ByRing(all, Before)
  <2>1. Before \in 0..WINDOW - 1
    BY <1>2, <1>4
  <2>2. Before % WINDOW = Before
    BY <1>5, <2>1
  <2> QED BY <1>1, <1>2, <1>4, <2>2 DEF ByRing
<1>10. \E H \in 0..Len(all) : ByHalves(all, Before, H)
  <2> DEFINE H == IF Before >= HALF THEN HALF ELSE 0
  <2>1. H \in 0..Len(all) /\ Before = H + skip /\ skip \in 0..HALF - 1 /\ comp \in {0, HALF} /\ H = HALF - comp
        /\ H \in 0..WINDOW - 1 /\ Len(all) < H + HALF
    BY <1>1, <1>2, <1>4
  <2> HIDE DEF H
  <2>2. H % WINDOW = H
    BY <1>5, <2>1
  <2>3. ByHalves(all, Before, H)
    BY <1>1, <2>1, <2>2 DEF ByHalves
  <2> QED BY <2>1, <2>3
<1>11. Ending(all, Before)
  BY <1>1 DEF Ending
<1>12. UnderWay(0, all, Before)
  BY <1>6, <1>7, <1>8, <1>9, <1>10, <1>11 DEF UnderWay
<1>13. 0 \in 0..K /\ all \in {Told[0].data} /\ Before \in Before..Len(all)
  BY <1>2, <1>3 DEF Base
<1>14. Going
  <2> HIDE DEF all
  <2> QED BY <1>12, <1>13 DEF Going
<1> QED BY <1>1, <1>14 DEF WindowsInv

LEMMA Shorter ==
  ASSUME NEW w \in Seq(Byte), NEW a \in Nat, NEW b \in Nat, a <= b, b <= Len(w)
  PROVE  SubSeq(SubSeq(w, 1, b), 1, a) = SubSeq(w, 1, a) /\ Len(SubSeq(w, 1, a)) = a
<1> DEFINE x == SubSeq(w, 1, b)
           y == SubSeq(x, 1, a)
           z == SubSeq(w, 1, a)
<1>1. x \in Seq(Byte) /\ Len(x) = b /\ \A i \in 1..b : x[i] = w[i]
  OBVIOUS
<1> HIDE DEF x
<1>2. y \in Seq(Byte) /\ Len(y) = a /\ \A i \in 1..a : y[i] = x[i]
  BY <1>1
<1>3. z \in Seq(Byte) /\ Len(z) = a /\ \A i \in 1..a : z[i] = w[i]
  <2>1. a <= Len(w)
    OBVIOUS
  <2> QED BY <2>1
<1> HIDE DEF y, z
<1>4. \A i \in 1..a : y[i] = z[i]
  BY <1>1, <1>2, <1>3
<1>5. y = z
  BY <1>2, <1>3, <1>4, SeqEqual
<1> QED BY <1>3, <1>5 DEF x, y, z

LEMMA WantedIs ==
  ASSUME member \in Members, program \in {"library", "raw", "original"}
  PROVE  /\ Wanted \in Seq(Byte) /\ Wanted = Promised(member, Stride)
         /\ Len(Final.data) \in Nat /\ Before <= Len(Final.data) /\ Len(Wanted) = Len(Final.data) - Before
<1>1. Stride \in 0..10 /\ Before \in Nat /\ Loaded(member, Stride) \in Seq(Byte) /\ Len(Loaded(member, Stride)) = Before
      /\ member.tokens \in Seq(StreamToken)
  BY MemberFacts
<1>2. 0 \in 0..Len(member.tokens)
  BY <1>1
<1>3. Final \in Unpacked /\ Begins(Told[0].data, Final.data) /\ Told[0] = Base(Loaded(member, Stride))
  BY <1>2, ToldFacts
<1>4. Final.data \in Seq(Byte) /\ Before <= Len(Final.data)
  BY <1>1, <1>3 DEF Unpacked, Begins, Base
<1>5. Len(Final.data) \in Before..Len(Final.data)
  BY <1>1, <1>4
<1>6. Wanted \in Seq(Byte) /\ Len(Wanted) = Len(Final.data) - Before
  BY <1>1, <1>4, <1>5, PieceIs DEF Wanted
<1>7. Wanted = Promised(member, Stride)
  BY Zenon DEF Wanted, Promised, Undone, Piece, Final, Before
<1> QED BY <1>4, <1>6, <1>7

LEMMA SentBegins ==
  ASSUME member \in Members, program \in {"library", "raw", "original"},
         NEW n \in 0..Len(member.tokens), NEW all, all = Told[n].data, NEW F, Sent(all, F)
  PROVE  /\ all \in Seq(Byte) /\ Len(all) <= Len(Final.data) /\ F \in Nat /\ F >= Before /\ F <= Len(all)
         /\ F - Before \in Nat /\ F - Before <= Len(Wanted) /\ out = SubSeq(Wanted, 1, F - Before) /\ F - Before <= member.size
<1>1. Stride \in 0..10 /\ Before \in Nat /\ member.size \in Nat
  BY MemberFacts
<1>2. all \in Seq(Byte) /\ Begins(all, Final.data) /\ Final.data \in Seq(Byte)
  BY ToldFacts DEF Unpacked
<1>3. F \in Before..Len(all) /\ out = Undone(Stride, Piece(all, Before, F)) /\ limit = member.size - (F - Before) /\ limit >= 0
  BY DEF Sent
<1>4. Len(all) \in Nat
  BY <1>2
<1>5. /\ F - Before <= Len(Undone(Stride, Piece(Final.data, Before, Len(Final.data))))
      /\ Undone(Stride, Piece(all, Before, F)) = SubSeq(Undone(Stride, Piece(Final.data, Before, Len(Final.data))), 1, F - Before)
  BY <1>1, <1>2, <1>3, PieceBegins
<1>6. F - Before <= Len(Wanted) /\ out = SubSeq(Wanted, 1, F - Before)
  BY <1>3, <1>5 DEF Wanted
<1>7. F \in Nat /\ F >= Before /\ F <= Len(all) /\ F - Before \in Nat /\ F - Before <= member.size
  BY <1>1, <1>3, <1>4
<1>8. Len(all) <= Len(Final.data)
  BY <1>2 DEF Begins
<1> QED BY <1>2, <1>6, <1>7, <1>8

\* Once no token is left, all is decoded that will be.
LEMMA AllDecoded ==
  ASSUME member \in Members, program \in {"library", "raw", "original"},
         NEW n \in 0..Len(member.tokens), NEW all, ReadUpTo(n, all), tokens = <<>>
  PROVE  all = Final.data /\ (program = "raw" /\ status # "Damaged" => Final.good)
<1> DEFINE K == Len(member.tokens)
<1>1. K \in Nat /\ member.tokens \in Seq(StreamToken)
  BY MemberFacts
<1>2. /\ Final = Told[K]
      /\ \A i \in 1..K : Told[i] = Further(Told[i - 1], member.tokens[i])
      /\ \A i \in 0..K : Told[i] \in Unpacked /\ (~Told[i].good => Final = Told[i])
  BY ToldFacts
<1>3. Told[n].good /\ all = Told[n].data
  BY DEF ReadUpTo
<1>4. CASE tokens = SubSeq(member.tokens, n + 1, K)
  <2>1. n = K
    <3>1. SUFFICES ASSUME n < K PROVE FALSE
      BY <1>1
    <3>2. Len(SubSeq(member.tokens, n + 1, K)) = K - n
      BY <1>1, <3>1
    <3>3. Len(tokens) = 0
      OBVIOUS
    <3>4. Len(tokens) = Len(SubSeq(member.tokens, n + 1, K))
      BY <1>4, Zenon
    <3>5. K - n = 0
      BY <3>2, <3>3, <3>4, Zenon
    <3> HIDE DEF K
    <3> QED BY <1>1, <3>1, <3>5
  <2> QED BY <1>2, <1>3, <2>1
<1>5. CASE tokens # SubSeq(member.tokens, n + 1, K)
  <2>1. n < K /\ ~Told[n + 1].good /\ (program = "raw" => status = "Damaged")
    BY <1>5 DEF ReadUpTo
  <2>2. n + 1 \in 1..K /\ n + 1 \in 0..K /\ (n + 1) - 1 = n
    BY <1>1, <2>1
  <2>3. Told[n + 1] = Further(Told[n], member.tokens[n + 1]) /\ Final = Told[n + 1] /\ Told[n] \in Unpacked
    <3>1. Told[n + 1] = Further(Told[(n + 1) - 1], member.tokens[n + 1])
      BY <1>2, <2>2
    <3>2. Final = Told[n + 1]
      BY <1>2, <2>1, <2>2
    <3> QED BY <1>2, <2>2, <3>1, <3>2
  <2>4. member.tokens[n + 1] \in StreamToken
    BY <1>1, <2>2
  <2> DEFINE t == member.tokens[n + 1]
             u == Told[n]
  <2>5. Told[n + 1].data = Told[n].data
    <3>1. t \in StreamToken /\ u \in Unpacked /\ Told[n + 1] = Further(u, t)
      BY <2>3, <2>4
    <3> HIDE DEF t, u
    <3>2. ~(u.good /\ Sensible(u.data, t))
      <4>1. SUFFICES ASSUME u.good /\ Sensible(u.data, t) PROVE FALSE
        OBVIOUS
      <4>2. Further(u, t) = Base(u.data \o Brought(u.data, t))
        BY <3>1, <4>1, FurtherIs
      <4> QED BY <2>1, <3>1, <4>2 DEF Base
    <3>3. Further(u, t).data = u.data
      BY <3>1, <3>2, FurtherIs
    <3> QED BY <3>1, <3>3 DEF u
  <2> QED BY <1>3, <2>1, <2>3, <2>5
<1> QED BY <1>4, <1>5

LEMMA WindowsInvDelivers ==
  ASSUME WindowsInv
  PROVE  WindowsDeliver
<1>1. member \in Members /\ program \in {"library", "raw", "original"} /\ (Going \/ Full)
  BY DEF WindowsInv
<1>2. Stride = Compressor(member.method).stride /\ member.size \in Nat
  BY <1>1, MemberFacts
<1>3. /\ Wanted \in Seq(Byte) /\ Wanted = Promised(member, Stride)
      /\ Len(Final.data) \in Nat /\ Before <= Len(Final.data) /\ Len(Wanted) = Len(Final.data) - Before
  BY <1>1, WantedIs
<1> DEFINE L == IF Len(Wanted) < member.size THEN Len(Wanted) ELSE member.size
           want == SubSeq(Wanted, 1, L)
<1>4. L \in Nat /\ L <= Len(Wanted) /\ L <= member.size
  BY <1>2, <1>3
<1>5. SUFFICES /\ Len(out) <= Len(want)
               /\ out = SubSeq(want, 1, Len(out))
               /\ status = "Done" => out = want /\ (program = "raw" => Final.good)
               /\ status = "Damaged" => program = "raw" /\ (~Final.good \/ Len(Wanted) > member.size)
  BY <1>2, <1>3, Zenon DEF WindowsDeliver, Final
<1> HIDE DEF L
<1>6. Len(want) = L
  BY <1>3, <1>4, Shorter
<1> HIDE DEF want
<1>7. ASSUME NEW a \in Nat, a <= L, out = SubSeq(Wanted, 1, a)
      PROVE  Len(out) = a /\ Len(out) <= Len(want) /\ out = SubSeq(want, 1, Len(out))
  <2>1. a <= Len(Wanted)
    BY <1>3, <1>4, <1>7
  <2>2. SubSeq(SubSeq(Wanted, 1, L), 1, a) = SubSeq(Wanted, 1, a)
    BY <1>3, <1>4, <1>7, Shorter
  <2>3. Len(SubSeq(Wanted, 1, a)) = a
    BY <1>3, <2>1, Shorter
  <2> QED BY <1>6, <1>7, <2>2, <2>3 DEF want
<1>8. CASE Going
  <2>8. PICK n \in 0..Len(member.tokens) : \E all \in {Told[n].data} : \E F \in Before..Len(all) : UnderWay(n, all, F)
    BY <1>8 DEF Going
  <2>9. PICK all \in {Told[n].data} : \E F \in Before..Len(all) : UnderWay(n, all, F)
    BY <2>8
  <2>10. PICK F \in Before..Len(all) : UnderWay(n, all, F)
    BY <2>9
  <2>1. all = Told[n].data /\ UnderWay(n, all, F)
    BY <2>10
  <2>2. ReadUpTo(n, all) /\ Sent(all, F) /\ Ending(all, F)
    BY <2>1 DEF UnderWay
  <2>3. /\ all \in Seq(Byte) /\ Len(all) <= Len(Final.data) /\ F \in Nat /\ F >= Before /\ F <= Len(all)
        /\ F - Before \in Nat /\ F - Before <= Len(Wanted) /\ out = SubSeq(Wanted, 1, F - Before) /\ F - Before <= member.size
    BY <1>1, <2>1, <2>2, SentBegins
  <2>4. F - Before <= L
    BY <2>3 DEF L
  <2>5. Len(out) <= Len(want) /\ out = SubSeq(want, 1, Len(out))
    BY <1>7, <2>3, <2>4
  <2>6. ASSUME status = "Done" PROVE out = want /\ (program = "raw" => Final.good)
    <3>1. tokens = <<>> /\ F = Len(all)
      BY <2>2, <2>6 DEF Ending
    <3>2. all = Final.data /\ (program = "raw" => Final.good)
      BY <1>1, <2>2, <2>6, <3>1, AllDecoded
    <3>3. F - Before = Len(Wanted)
      BY <1>3, <3>1, <3>2
    <3>4. L = F - Before
      BY <1>2, <2>3, <3>3 DEF L
    <3> QED BY <2>3, <3>2, <3>4 DEF want
  <2>7. ASSUME status = "Damaged" PROVE program = "raw" /\ (~Final.good \/ Len(Wanted) > member.size)
    <3>1. program = "raw" /\ (~Final.good \/ Len(all) - Before > member.size)
      BY <2>2, <2>7 DEF Ending
    <3>2. Len(all) - Before <= Len(Wanted)
      BY <1>1, <1>3, <2>3, MemberFacts
    <3>3. Len(all) - Before > member.size => Len(Wanted) > member.size
      <4>1. Len(all) \in Int /\ Before \in Int /\ Len(Wanted) \in Int
        BY <1>1, <1>3, <2>3, MemberFacts
      <4> QED BY <1>2, <3>2, <4>1
    <3> QED BY <3>1, <3>3
  <2> QED BY <2>5, <2>6, <2>7
<1>9. CASE Full
  <2>1. program # "raw" /\ status # "Damaged" /\ member.size <= Len(Wanted) /\ out = SubSeq(Wanted, 1, member.size)
    BY <1>9 DEF Full
  <2>2. L = member.size
    BY <1>2, <1>3, <2>1 DEF L
  <2>3. out = want
    BY <2>1, <2>2 DEF want
  <2>5. member.size \in Nat /\ member.size <= L
    BY <1>2, <2>2
  <2>4. Len(out) <= Len(want) /\ out = SubSeq(want, 1, Len(out))
    BY <1>7, <2>1, <2>5
  <2> QED BY <2>1, <2>3, <2>4
<1> QED BY <1>1, <1>8, <1>9

-----------------------------------------------------------------------------
(***************************************************************************)
(* Every step keeps the invariant.                                         *)
(***************************************************************************)
Known == member \in Members /\ program \in {"library", "raw", "original"}

\* The facts of a state that is under way.
LEMMA UnderWayFacts ==
  ASSUME Known, NEW n \in 0..Len(member.tokens), NEW all, NEW F, all = Told[n].data, UnderWay(n, all, F)
  PROVE  /\ all \in Seq(Byte) /\ Len(all) \in Nat /\ F \in Nat /\ F <= Len(all)
         /\ Before \in Nat /\ Before <= F /\ F \in Before..Len(all) /\ Before < WINDOW
         /\ limit \in Nat /\ limit = member.size - (F - Before) /\ member.size \in Nat
         /\ tail = Len(all) % WINDOW /\ tail \in 0..WINDOW - 1 /\ F % WINDOW \in 0..WINDOW - 1
         /\ produced = (IF Len(all) < WINDOW THEN Len(all) ELSE WINDOW)
         /\ tokens \in Seq(StreamToken)
         /\ ReadUpTo(n, all) /\ RingIs(all) /\ Sent(all, F) /\ Ending(all, F)
<1>1. ReadUpTo(n, all) /\ RingIs(all) /\ Sent(all, F) /\ Ending(all, F)
  BY DEF UnderWay
<1>2. Before \in Nat /\ Before < WINDOW /\ member.size \in Nat /\ member.tokens \in Seq(StreamToken)
  BY MemberFacts DEF Known
<1>3. all \in Seq(Byte)
  BY ToldFacts DEF Known
<1>4. Len(all) \in Nat
  BY <1>3
<1>5. F \in Before..Len(all) /\ limit = member.size - (F - Before) /\ limit >= 0
  BY <1>1 DEF Sent
<1>6. F \in Nat /\ F <= Len(all) /\ Before <= F /\ limit \in Nat
  BY <1>2, <1>4, <1>5
<1>7. tail = Len(all) % WINDOW /\ produced = IF Len(all) < WINDOW THEN Len(all) ELSE WINDOW
  BY <1>1 DEF RingIs
<1>8. tail \in 0..WINDOW - 1 /\ F % WINDOW \in 0..WINDOW - 1
  <2>1. WINDOW \in Nat \ {0} /\ F \in Int /\ Len(all) \in Int
    BY <1>4, <1>6, WindowNumbers
  <2> QED BY <1>7, <2>1, ModRange
<1>9. tokens \in Seq(StreamToken)
  <2>1. CASE tokens = <<>>
    BY <2>1
  <2>2. CASE tokens = SubSeq(member.tokens, n + 1, Len(member.tokens))
    <3>1. n + 1 \in 1..Len(member.tokens) + 1
      BY <1>2
    <3>2. SubSeq(member.tokens, n + 1, Len(member.tokens)) \in Seq(StreamToken)
      BY <1>2, <3>1
    <3> QED BY <2>2, <3>2
  <2> QED BY <1>1, <2>1, <2>2 DEF ReadUpTo
<1> QED BY <1>1, <1>2, <1>3, <1>4, <1>5, <1>6, <1>7, <1>8, <1>9

\* A token the library does not refuse, and one the compressor wrote, refer
\* to data there are; one it refuses does not.
LEMMA RefusedOrSensible ==
  ASSUME Known, IsLibrary, status = "Decode", tokens # <<>>,
         NEW n \in 0..Len(member.tokens), NEW all, NEW F, all = Told[n].data, UnderWay(n, all, F)
  PROVE  /\ Have = Len(all) - F
         /\ Refused(Head(tokens)) <=> ~Sensible(all, Head(tokens))
<1> DEFINE t == Head(tokens)
           N == Len(all)
<1>1. /\ all \in Seq(Byte) /\ N \in Nat /\ F \in Nat /\ F <= N /\ tail = N % WINDOW
      /\ produced = (IF N < WINDOW THEN N ELSE WINDOW) /\ ReadUpTo(n, all)
  BY UnderWayFacts
<1>2. flushed = F % WINDOW /\ N - F < WINDOW /\ N - F + MARGIN < WINDOW
  BY DEF UnderWay, ByRing
<1>3. Have = N - F
  BY <1>1, <1>2, RingDistance DEF Have
<1>4. t.len <= MARGIN /\ t.dist <= WINDOW /\ t.len \in Nat /\ t.dist \in Nat
  BY <1>1, NextToken DEF Known
<1>5. Room = WINDOW - (N - F) - 1
  BY <1>3 DEF Room
<1>6. WINDOW \in Nat /\ MARGIN \in Nat
  BY WindowNumbers
<1> HIDE DEF t, N
<1>7. ~(t.len > Room)
  BY <1>1, <1>2, <1>4, <1>5, <1>6
<1>8. t.dist > produced <=> ~(t.dist <= N)
  BY <1>1, <1>4, <1>6
<1>9. Refused(t) <=> ~Sensible(all, t)
  BY <1>4, <1>7, <1>8 DEF Refused, Sensible, N
<1> QED BY <1>3, <1>9 DEF t, N

\* What is decoded further on changes nothing of what has been written.
LEMMA MoreSent ==
  ASSUME Before \in Nat, NEW all \in Seq(Byte), NEW more \in Seq(Byte), Len(all) <= Len(more), \A k \in 1..Len(all) : more[k] = all[k],
         NEW F, Sent(all, F), UNCHANGED <<member, program, limit, delta, out>>
  PROVE  Sent(more, F)'
<1> DEFINE N == Len(all)
           a == Piece(all, Before, F)
           c == Piece(more, Before, F)
<1>1. /\ F \in Before..N /\ out = Undone(Stride, a) /\ delta = Heard(Stride, a)
      /\ limit = member.size - (F - Before) /\ limit >= 0
  BY DEF Sent
<1>2. N \in Nat /\ Len(more) \in Nat /\ F \in Nat /\ Before <= F /\ F <= N /\ F <= Len(more)
  BY <1>1
<1>3. a \in Seq(Byte) /\ Len(a) = F - Before /\ \A i \in 1..F - Before : a[i] = all[Before + i]
  BY <1>2, SubSeqTwo DEF Piece
<1>4. c \in Seq(Byte) /\ Len(c) = F - Before /\ \A i \in 1..F - Before : c[i] = more[Before + i]
  BY <1>2, SubSeqTwo DEF Piece
<1> HIDE DEF a, c
<1>5. ASSUME NEW i \in 1..F - Before PROVE a[i] = c[i]
  <2>1. Before + i \in 1..N
    BY <1>2
  <2> QED BY <1>3, <1>4, <2>1
<1>6. a = c
  BY <1>3, <1>4, <1>5, SeqEqual
<1>7. Stride' = Stride /\ Before' = Before /\ member' = member
  BY Frame
<1>8. F \in Before..Len(more)
  BY <1>1, <1>2
<1>9. /\ F \in Before'..Len(more)
      /\ out' = Undone(Stride', Piece(more, Before', F)) /\ delta' = Heard(Stride', Piece(more, Before', F))
      /\ limit' = member'.size - (F - Before') /\ limit' >= 0
  BY <1>1, <1>6, <1>7, <1>8 DEF a, c
<1> QED BY <1>9 DEF Sent

LEMMA DecodeTokenKeeps ==
  ASSUME Known, NEW n \in 0..Len(member.tokens), NEW all, NEW F, all = Told[n].data, UnderWay(n, all, F), DecodeToken
  PROVE  Going'
<1> DEFINE N == Len(all)
<1>0. /\ status = "Decode" /\ IsLibrary /\ tokens # <<>> /\ ~Refused(Head(tokens)) /\ Spread(Head(tokens)) /\ tokens' = Tail(tokens)
      /\ status' = IF WINDOW - ((tail' - flushed) % WINDOW) - 1 < MARGIN THEN "Flush" ELSE "Decode"
      /\ UNCHANGED <<member, program, flushed, limit, delta, out>>
  BY DEF DecodeToken
<1>2. /\ all \in Seq(Byte) /\ N \in Nat /\ F \in Nat /\ F <= N /\ Before \in Nat /\ F \in Before..N
      /\ ReadUpTo(n, all) /\ RingIs(all) /\ Sent(all, F)
  BY UnderWayFacts
<1>3. flushed = F % WINDOW /\ N - F + MARGIN < WINDOW
  BY <1>0 DEF UnderWay, ByRing
<1>23. PICK t \in StreamToken : t = Head(tokens)
  BY <1>0, <1>2, NextToken DEF Known
<1>1. /\ status = "Decode" /\ IsLibrary /\ tokens # <<>> /\ ~Refused(t) /\ Spread(t) /\ tokens' = Tail(tokens)
      /\ status' = IF WINDOW - ((tail' - flushed) % WINDOW) - 1 < MARGIN THEN "Flush" ELSE "Decode"
      /\ UNCHANGED <<member, program, flushed, limit, delta, out>>
  BY <1>0, <1>23
<1>4. /\ n + 1 \in 1..Len(member.tokens) /\ t \in StreamToken /\ t.len <= MARGIN /\ t.dist <= WINDOW /\ t.len \in Nat /\ t.dist \in Nat
      /\ Tail(tokens) = SubSeq(member.tokens, (n + 1) + 1, Len(member.tokens))
      /\ Told[n] \in Unpacked /\ Told[n].good /\ Told[n + 1] = Further(Told[n], t)
  BY <1>0, <1>2, <1>23, NextToken DEF Known
<1>5. Sensible(all, t)
  BY <1>0, <1>23, RefusedOrSensible
<1>6. WINDOW \in Nat \ {0} /\ MARGIN \in Nat /\ MARGIN > 0 /\ MARGIN < WINDOW
  BY WindowNumbers, WindowAssumption DEF WindowAssumption
<1> DEFINE b == Brought(all, t)
           more == all \o b
           L == Len(b)
<1>7. Told[n + 1] = Base(more)
  <2> DEFINE u == Told[n]
  <2>1. u \in Unpacked /\ u.good /\ Sensible(u.data, t) /\ u.data = all
    BY <1>4, <1>5
  <2> HIDE DEF u
  <2>2. Further(u, t) = Base(u.data \o Brought(u.data, t))
    BY <1>4, <2>1, FurtherIs
  <2> QED BY <1>4, <2>1, <2>2 DEF u
<1>8. b \in Seq(Byte) /\ L = IF t.dist = 0 THEN 1 ELSE t.len
  BY <1>2, <1>4, <1>5, BroughtIs
<1>9. L \in Nat /\ L <= MARGIN
  BY <1>4, <1>6, <1>8
<1>25. b \in Seq(Byte)
  BY <1>8
<1>24. more = all \o Brought(all, t)
  OBVIOUS
<1> HIDE DEF b
<1>10. more \in Seq(Byte) /\ Len(more) = N + L
  BY <1>2, <1>25
<1>11. RingIs(more)'
  <2>1. t.len <= WINDOW
    BY <1>4, <1>6
  <2>2. RingIs(all \o Brought(all, t))'
    BY <1>1, <1>2, <1>4, <1>5, <2>1, SpreadKeepsRing
  <2> QED BY <1>24, <2>2
<1>12. \A k \in 1..N : more[k] = all[k]
  BY <1>2, <1>8
<1> HIDE DEF more, L
<1>13. Told' = Told /\ Stride' = Stride /\ Before' = Before /\ member' = member /\ IsLibrary' /\ program' = program
  BY <1>1, Frame
<1>14. ReadUpTo(n + 1, more)'
  <2>1. tokens' = SubSeq(member'.tokens, (n + 1) + 1, Len(member'.tokens))
    BY <1>1, <1>4, <1>13
  <2>2. Told'[n + 1].good /\ more = Told'[n + 1].data
    BY <1>7, <1>13 DEF Base
  <2> QED BY <2>1, <2>2 DEF ReadUpTo
<1>15. Sent(more, F)'
  <2>1. N <= Len(more)
    BY <1>2, <1>9, <1>10
  <2> QED BY <1>1, <1>2, <1>10, <1>12, <2>1, MoreSent
<1>16. tail' = Len(more) % WINDOW
  BY <1>11 DEF RingIs
<1>17. (tail' - flushed) % WINDOW = (N + L) - F
  <2>1. N + L \in Nat /\ F <= N + L /\ (N + L) - F < WINDOW
    BY <1>2, <1>3, <1>6, <1>9
  <2>2. (((N + L) % WINDOW) - (F % WINDOW)) % WINDOW = (N + L) - F
    BY <1>2, <2>1, RingDistance
  <2> QED BY <1>3, <1>10, <1>16, <2>2
<1>18. ByRing(more, F)'
  <2>1. flushed' = F % WINDOW /\ Len(more) - F < WINDOW
    BY <1>1, <1>2, <1>3, <1>6, <1>9, <1>10
  <2>2. status' = "Decode" => Len(more) - F + MARGIN < WINDOW
    <3>1. ASSUME status' = "Decode" PROVE ~(WINDOW - ((tail' - flushed) % WINDOW) - 1 < MARGIN)
      BY <1>1, <3>1
    <3> QED BY <1>2, <1>6, <1>9, <1>10, <1>17, <3>1
  <2> QED BY <2>1, <2>2 DEF ByRing
<1>19. status' \in {"Flush", "Decode"}
  BY <1>1, Zenon
<1>20. Ending(more, F)'
  BY <1>19 DEF Ending
<1>21. UnderWay(n + 1, more, F)'
  BY <1>11, <1>13, <1>14, <1>15, <1>18, <1>20 DEF UnderWay
<1>22. n + 1 \in 0..Len(member.tokens) /\ more = Told[n + 1].data /\ F \in Before..Len(more)
  <2>1. n + 1 \in 0..Len(member.tokens)
    <3>1. Len(member.tokens) \in Nat
      BY MemberFacts DEF Known
    <3> QED BY <1>4, <3>1
  <2>2. more = Told[n + 1].data
    BY <1>7 DEF Base
  <2>3. F \in Before..Len(more)
    BY <1>2, <1>9, <1>10
  <2> QED BY <2>1, <2>2, <2>3, Zenon
<1> QED BY <1>1, <1>21, <1>22, GoingOn

LEMMA RefuseTokenKeeps ==
  ASSUME Known, NEW n \in 0..Len(member.tokens), NEW all, NEW F, all = Told[n].data, UnderWay(n, all, F), RefuseToken
  PROVE  Going'
<1> DEFINE t == Head(tokens)
           N == Len(all)
<1>1. /\ status = "Decode" /\ IsLibrary /\ tokens # <<>> /\ Refused(t) /\ tokens' = <<>>
      /\ status' = IF program = "raw" THEN "Damaged" ELSE "Flush"
      /\ UNCHANGED <<member, program, window, tail, flushed, produced, limit, delta, out>>
  BY DEF RefuseToken
<1>2. F \in Before..N /\ ReadUpTo(n, all) /\ RingIs(all) /\ Sent(all, F)
  BY UnderWayFacts
<1>3. flushed = F % WINDOW /\ N - F < WINDOW
  BY <1>1 DEF UnderWay, ByRing
<1>4. /\ n + 1 \in 1..Len(member.tokens) /\ t \in StreamToken
      /\ Told[n] \in Unpacked /\ Told[n].good /\ Told[n + 1] = Further(Told[n], t)
  BY <1>1, <1>2, NextToken DEF Known
<1>5. ~Sensible(all, t)
  BY <1>1, RefusedOrSensible
<1> HIDE DEF t
<1>6. ~Told[n + 1].good
  <2> DEFINE u == Told[n]
  <2>1. u \in Unpacked /\ u.data = all
    BY <1>4
  <2> HIDE DEF u
  <2>2. ~Further(u, t).good
    BY <1>4, <1>5, <2>1, FurtherIs
  <2> QED BY <1>4, <2>2 DEF u
<1>7. Told' = Told /\ Final' = Final /\ Stride' = Stride /\ Before' = Before /\ member' = member /\ IsLibrary' /\ program' = program
  BY <1>1, Frame
<1>8. n < Len(member.tokens) /\ n + 1 \in 0..Len(member.tokens)
  <2>1. Len(member.tokens) \in Nat
    BY MemberFacts DEF Known
  <2> QED BY <1>4, <2>1
<1>9. ~Final.good
  BY <1>6, <1>8, ToldFacts DEF Known
<1>10. program # "original"
  BY <1>1 DEF IsLibrary
<1>11. status' # "Done" /\ status' # "Decode" /\ (program = "raw" => status' = "Damaged") /\ (status' = "Damaged" => program = "raw")
  BY <1>1, Zenon
<1>12. ReadUpTo(n, all)'
  <2>1. Told'[n].good /\ all = Told'[n].data /\ ~Told'[n + 1].good
    BY <1>4, <1>6, <1>7
  <2>2. tokens' = <<>> /\ n < Len(member'.tokens) /\ program' # "original" /\ (program' = "raw" => status' = "Damaged")
    BY <1>1, <1>7, <1>8, <1>10, <1>11
  <2> QED BY <2>1, <2>2, Zenon DEF ReadUpTo
<1>13. RingIs(all)'
  BY <1>1, <1>2 DEF RingIs
<1>14. Sent(all, F)'
  BY <1>1, <1>2, <1>7 DEF Sent
<1>15. Ending(all, F)'
  BY <1>7, <1>9, <1>11 DEF Ending
<1>16. ByRing(all, F)'
  BY <1>1, <1>3, <1>11 DEF ByRing
<1>17. UnderWay(n, all, F)'
  BY <1>7, <1>12, <1>13, <1>14, <1>15, <1>16 DEF UnderWay
<1> QED BY <1>1, <1>2, <1>17, GoingOn

LEMMA EndOfBlockKeeps ==
  ASSUME Known, NEW n \in 0..Len(member.tokens), NEW all, NEW F, all = Told[n].data, UnderWay(n, all, F), EndOfBlock
  PROVE  Going'
<1>1. /\ status = "Decode" /\ IsLibrary /\ tokens = <<>> /\ status' = "Flush"
      /\ UNCHANGED <<member, program, window, tail, flushed, produced, limit, tokens, delta, out>>
  BY DEF EndOfBlock
<1>2. F \in Before..Len(all) /\ ReadUpTo(n, all) /\ RingIs(all) /\ Sent(all, F)
  BY UnderWayFacts
<1>3. flushed = F % WINDOW /\ Len(all) - F < WINDOW
  BY <1>1 DEF UnderWay, ByRing
<1>4. Told' = Told /\ Stride' = Stride /\ Before' = Before /\ member' = member /\ IsLibrary' /\ program' = program
  BY <1>1, Frame
<1>5. ReadUpTo(n, all)'
  <2>1. program = "raw" /\ status = "Decode" => status # "Damaged"
    OBVIOUS
  <2> QED BY <1>1, <1>2, <1>4, <2>1 DEF ReadUpTo
<1>6. RingIs(all)' /\ Sent(all, F)'
  BY <1>1, <1>2, <1>4 DEF RingIs, Sent
<1>7. Ending(all, F)'
  BY <1>1 DEF Ending
<1>8. ByRing(all, F)'
  BY <1>1, <1>3 DEF ByRing
<1>9. UnderWay(n, all, F)'
  BY <1>4, <1>5, <1>6, <1>7, <1>8 DEF UnderWay
<1> QED BY <1>1, <1>2, <1>9, GoingOn

\* All that was asked for has been written.
LEMMA ReachesFull ==
  ASSUME Known, NEW n \in 0..Len(member.tokens), NEW all, all = Told[n].data, NEW F,
         Sent(all, F)', limit' = 0, UNCHANGED <<member, program>>, program # "raw",
         status' # "Damaged", program = "original" => status' = "Done",
         tokens' \in Seq(StreamToken), tail' \in 0..WINDOW - 1, IsLibrary => flushed' \in 0..WINDOW - 1
  PROVE  Full'
<1>1. Told' = Told /\ Wanted' = Wanted /\ Final' = Final /\ Stride' = Stride /\ Before' = Before /\ member' = member /\ program' = program
      /\ IsLibrary' = IsLibrary
  BY Frame
<1>2. Stride \in 0..10 /\ Before \in Nat /\ member.size \in Nat
  BY MemberFacts DEF Known
<1>3. all \in Seq(Byte) /\ Begins(all, Final.data) /\ Final.data \in Seq(Byte)
  BY ToldFacts DEF Unpacked, Known
<1>4. F \in Before..Len(all) /\ out' = Undone(Stride, Piece(all, Before, F)) /\ 0 = member.size - (F - Before)
  BY <1>1 DEF Sent
<1>5. /\ F - Before <= Len(Undone(Stride, Piece(Final.data, Before, Len(Final.data))))
      /\ Undone(Stride, Piece(all, Before, F)) = SubSeq(Undone(Stride, Piece(Final.data, Before, Len(Final.data))), 1, F - Before)
  <2> DEFINE z == Final.data
             M == Before
  <2>1. Stride \in 0..10 /\ z \in Seq(Byte) /\ all \in Seq(Byte) /\ Begins(all, z) /\ M \in Nat /\ F \in M..Len(all)
    BY <1>2, <1>3, <1>4
  <2> HIDE DEF z, M
  <2>2. /\ F - M <= Len(Undone(Stride, Piece(z, M, Len(z))))
        /\ Undone(Stride, Piece(all, M, F)) = SubSeq(Undone(Stride, Piece(z, M, Len(z))), 1, F - M)
    BY <2>1, PieceBegins
  <2> QED BY <2>2 DEF z, M
<1>6. F - Before = member.size
  <2>1. Len(all) \in Nat
    BY <1>3
  <2> QED BY <1>2, <1>4, <2>1
<1>7. member.size <= Len(Wanted) /\ out' = SubSeq(Wanted, 1, member.size)
  BY <1>4, <1>5, <1>6 DEF Wanted
<1> QED BY <1>1, <1>7 DEF Full

LEMMA CbufFlushKeeps ==
  ASSUME Known, NEW n \in 0..Len(member.tokens), NEW all, NEW F, all = Told[n].data, UnderWay(n, all, F), cbuf_flush
  PROVE  Going' \/ Full'
<1> DEFINE N == Len(all)
           d == N - F
           r == F % WINDOW
           m == IF d > WINDOW - r THEN WINDOW - r ELSE d
           cut == IF limit < m THEN limit ELSE m
           goesOn == IF tokens = <<>> THEN "Done" ELSE "Decode"
<1>1. /\ all \in Seq(Byte) /\ N \in Nat /\ F \in Nat /\ F <= N /\ Before \in Nat /\ F \in Before..N
      /\ limit \in Nat /\ limit = member.size - (F - Before) /\ member.size \in Nat
      /\ tail = N % WINDOW /\ tail \in 0..WINDOW - 1 /\ r \in 0..WINDOW - 1 /\ tokens \in Seq(StreamToken)
      /\ ReadUpTo(n, all) /\ RingIs(all) /\ Sent(all, F)
  BY UnderWayFacts
<1>2. status = "Flush" /\ IsLibrary /\ UNCHANGED <<member, program, window, tail, produced, tokens>>
  BY DEF cbuf_flush
<1>3. flushed = r /\ d < WINDOW /\ d \in Nat
  BY <1>1, <1>2 DEF UnderWay, ByRing
<1>4. Have = d
  BY <1>1, <1>3, RingDistance DEF Have
<1>5. \/ d = 0 /\ status' = goesOn /\ UNCHANGED <<flushed, limit, delta, out>>
      \/ d > 0 /\ program = "raw" /\ limit < d /\ status' = "Damaged" /\ UNCHANGED <<flushed, limit, delta, out>>
      \/ /\ d > 0 /\ ~(program = "raw" /\ limit < d) /\ Write(r, cut) /\ flushed' = (r + cut) % WINDOW
         /\ status' = IF limit' = 0 THEN goesOn ELSE "Flush"
  BY <1>3, <1>4, Zenon DEF cbuf_flush
<1>6. Told' = Told /\ Final' = Final /\ Stride' = Stride /\ Before' = Before /\ member' = member /\ program' = program
      /\ IsLibrary' /\ tokens' = tokens
  BY <1>2, Frame
<1>7. WINDOW \in Nat \ {0} /\ MARGIN \in Nat /\ MARGIN < WINDOW
  BY WindowNumbers
<1>8. goesOn \in {"Done", "Decode"} /\ (goesOn = "Done" => tokens = <<>>)
  OBVIOUS
<1> HIDE DEF goesOn
<1>9. \/ tokens = SubSeq(member.tokens, n + 1, Len(member.tokens)) /\ ReadUpTo(n, all)'
      \/ program # "raw" /\ ReadUpTo(n, all)'
  <2>1. /\ Told[n].good /\ all = Told[n].data
        /\ \/ tokens = SubSeq(member.tokens, n + 1, Len(member.tokens))
           \/ tokens = <<>> /\ n < Len(member.tokens) /\ ~Told[n + 1].good /\ program # "original" /\ program # "raw"
    BY <1>1, <1>2 DEF ReadUpTo
  <2> QED BY <1>6, <2>1 DEF ReadUpTo
<1>10. ReadUpTo(n, all)'
  BY <1>9
<1>11. RingIs(all)'
  BY <1>1, <1>2 DEF RingIs
<1>12. CASE d = 0 /\ status' = goesOn /\ UNCHANGED <<flushed, limit, delta, out>>
  <2>1. Sent(all, F)'
    BY <1>1, <1>6, <1>12 DEF Sent
  <2>2. Ending(all, F)'
    <3>1. F = N
      BY <1>1, <1>12
    <3>2. status' # "Damaged" /\ (status' = "Done" => tokens' = <<>>)
      BY <1>6, <1>8, <1>12
    <3> QED BY <3>1, <3>2 DEF Ending
  <2>3. ByRing(all, F)'
    <3>1. flushed' = F % WINDOW /\ N - F < WINDOW /\ N - F + MARGIN < WINDOW
      BY <1>1, <1>3, <1>7, <1>12
    <3> QED BY <3>1 DEF ByRing
  <2>4. UnderWay(n, all, F)'
    BY <1>6, <1>10, <1>11, <2>1, <2>2, <2>3 DEF UnderWay
  <2>5. Going'
    BY <1>1, <1>2, <2>4, GoingOn
  <2> QED BY <2>5
<1>13. CASE d > 0 /\ program = "raw" /\ limit < d /\ status' = "Damaged" /\ UNCHANGED <<flushed, limit, delta, out>>
  <2>1. Sent(all, F)'
    BY <1>1, <1>6, <1>13 DEF Sent
  <2>2. Ending(all, F)'
    <3>1. N - Before > member.size
      <4>1. limit < N - F /\ limit = member.size - (F - Before)
        BY <1>1, <1>13
      <4>2. N \in Nat /\ F \in Nat /\ Before \in Nat /\ member.size \in Nat
        BY <1>1
      <4> HIDE DEF N
      <4> QED BY <4>1, <4>2
    <3>2. program' = "raw" /\ Len(all) - Before' > member'.size
      BY <1>6, <1>13, <3>1
    <3>3. status' # "Done"
      BY <1>13
    <3> QED BY <3>2, <3>3 DEF Ending
  <2>3. ByRing(all, F)'
    <3>1. flushed' = F % WINDOW /\ N - F < WINDOW /\ status' # "Decode"
      BY <1>1, <1>3, <1>13
    <3> QED BY <3>1 DEF ByRing
  <2>4. UnderWay(n, all, F)'
    BY <1>6, <1>10, <1>11, <2>1, <2>2, <2>3 DEF UnderWay
  <2>5. Going'
    BY <1>1, <1>2, <2>4, GoingOn
  <2> QED BY <2>5
<1>14. CASE /\ d > 0 /\ ~(program = "raw" /\ limit < d) /\ Write(r, cut) /\ flushed' = (r + cut) % WINDOW
            /\ status' = IF limit' = 0 THEN goesOn ELSE "Flush"
  <2>20. d \in Nat /\ d > 0 /\ r \in 0..WINDOW - 1 /\ WINDOW \in Nat
    BY <1>1, <1>3, <1>7, <1>14
  <2>1. m \in Nat \ {0} /\ m <= d /\ m <= WINDOW - r
    <3> HIDE DEF d, r
    <3> QED BY <2>20
  <2>21. F \in Nat /\ N \in Nat /\ Before \in Nat /\ Before <= F /\ F <= N /\ N - F < WINDOW /\ WINDOW \in Nat
         /\ limit \in Nat
    BY <1>1, <1>3, <1>7
  <2> HIDE DEF m
  <2>2. cut \in Nat /\ cut <= limit /\ cut <= m /\ (cut = limit \/ cut = m)
    BY <1>1, <2>1
  <2>19. PICK c \in Nat : c = cut
    BY <2>2
  <2> HIDE DEF cut
  <2>3. r + c <= WINDOW /\ F + c <= N /\ N - F <= WINDOW /\ c <= limit /\ c <= m /\ (c = limit \/ c = m)
    <3>1. c <= limit /\ c <= m /\ (c = limit \/ c = m)
      BY <2>2, <2>19
    <3>2. d = N - F
      OBVIOUS
    <3> HIDE DEF d, r
    <3>3. r + c <= WINDOW
      BY <2>1, <2>20, <3>1
    <3>4. F + c <= N /\ N - F <= WINDOW
      BY <2>1, <2>20, <2>21, <3>1, <3>2
    <3> QED BY <3>1, <3>3, <3>4
  <2>4. Write(r, c)
    BY <1>14, <2>19
  <2>5. Sent(all, F + c)'
    BY <1>1, <1>2, <2>3, <2>4, WriteOn DEF Known
  <2>6. limit' = limit - c
    BY <2>4 DEF Write
  <2>7. flushed' = (F + c) % WINDOW /\ flushed' \in 0..WINDOW - 1
    <3>1. F \in Int /\ c \in Int /\ F + c \in Int
      BY <1>1
    <3>2. ((F % WINDOW) + c) % WINDOW = (F + c) % WINDOW
      BY <1>7, <3>1, ModPlus
    <3>3. (F + c) % WINDOW \in 0..WINDOW - 1
      BY <1>7, <3>1, ModRange
    <3> QED BY <1>14, <2>19, <3>2, <3>3
  <2>8. F + c \in Before..N /\ N - (F + c) < WINDOW
    <3> HIDE DEF N
    <3> QED BY <2>3, <2>21
  <2>9. CASE limit' # 0
    <3>1. status' = "Flush"
      BY <1>14, <2>9
    <3>2. ByRing(all, F + c)'
      BY <2>7, <2>8, <3>1 DEF ByRing
    <3>3. Ending(all, F + c)'
      BY <3>1 DEF Ending
    <3>4. UnderWay(n, all, F + c)'
      BY <1>6, <1>10, <1>11, <2>5, <3>2, <3>3 DEF UnderWay
    <3>5. Going'
      BY <1>2, <2>8, <3>4, GoingOn
    <3> QED BY <3>5
  <2>10. CASE limit' = 0 /\ program = "raw"
    <3>1. F + c = N
      <4>1. ~(limit < N - F) /\ limit - c = 0 /\ c <= N - F
        BY <1>14, <2>1, <2>3, <2>6, <2>10, <2>20
      <4> HIDE DEF N
      <4> QED BY <2>21, <4>1
    <3>2. status' = goesOn
      BY <1>14, <2>10
    <3>3. status' # "Damaged" /\ (status' = "Done" => tokens' = <<>>)
      BY <1>6, <1>8, <3>2
    <3>4. ByRing(all, F + c)'
      <4>1. N - (F + c) = 0 /\ N - (F + c) + MARGIN < WINDOW
        BY <1>1, <1>7, <3>1
      <4> QED BY <2>7, <2>8, <4>1 DEF ByRing
    <3>5. Ending(all, F + c)'
      BY <3>1, <3>3 DEF Ending
    <3>6. UnderWay(n, all, F + c)'
      BY <1>6, <1>10, <1>11, <2>5, <3>4, <3>5 DEF UnderWay
    <3>7. Going'
      BY <1>2, <2>8, <3>6, GoingOn
    <3> QED BY <3>7
  <2>11. CASE limit' = 0 /\ program # "raw"
    <3>1. status' = goesOn
      BY <1>14, <2>11
    <3>2. status' # "Damaged"
      BY <1>8, <3>1
    <3>3. program # "original"
      BY <1>2 DEF IsLibrary
    <3>4. tokens' \in Seq(StreamToken) /\ tail' \in 0..WINDOW - 1
      BY <1>1, <1>2
    <3>5. Full'
      BY <1>2, <2>5, <2>7, <2>11, <3>2, <3>3, <3>4, ReachesFull
    <3> QED BY <3>5
  <2> QED BY <2>9, <2>10, <2>11
<1> QED BY <1>5, <1>12, <1>13, <1>14

LEMMA FullStays ==
  ASSUME Known, status \in {"Decode", "Flush", "Done", "Damaged"}, Full, WindowsNext
  PROVE  Full'
<1>1. /\ program # "raw" /\ limit = 0 /\ status # "Damaged" /\ (program = "original" => status = "Done")
      /\ tokens \in Seq(StreamToken) /\ tail \in 0..WINDOW - 1 /\ (IsLibrary => flushed \in 0..WINDOW - 1)
      /\ member.size <= Len(Wanted) /\ out = SubSeq(Wanted, 1, member.size)
  BY DEF Full
<1>2. WINDOW \in Nat \ {0}
  BY WindowNumbers
<1>3. \A a \in Int : a % WINDOW \in 0..WINDOW - 1
  BY <1>2, ModRange
<1>4. CASE DecodeToken
  <2>1. /\ tokens # <<>> /\ Spread(Head(tokens)) /\ tokens' = Tail(tokens)
        /\ UNCHANGED <<member, program, flushed, limit, out>>
    BY <1>4 DEF DecodeToken
  <2>2. status' \in {"Flush", "Decode"}
    BY <1>4, Zenon DEF DecodeToken
  <2>3. IsLibrary
    BY <1>4 DEF DecodeToken
  <2>4. tokens' \in Seq(StreamToken) /\ Head(tokens) \in StreamToken
    BY <1>1, <2>1
  <2>5. tail' \in 0..WINDOW - 1
    <3> DEFINE k == IF Head(tokens).dist = 0 THEN 1 ELSE Head(tokens).len
    <3>1. tail' = (tail + k) % WINDOW
      BY <2>1 DEF Spread
    <3>2. tail + k \in Int
      BY <1>1, <2>4 DEF StreamToken
    <3> HIDE DEF k
    <3> QED BY <1>3, <3>1, <3>2
  <2>6. Wanted' = Wanted
    BY <2>1, Frame
  <2> QED BY <1>1, <2>1, <2>2, <2>3, <2>4, <2>5, <2>6 DEF Full, IsLibrary
<1>5. CASE RefuseToken
  <2>1. /\ tokens' = <<>> /\ IsLibrary /\ UNCHANGED <<member, program, tail, flushed, limit, out>>
    BY <1>5 DEF RefuseToken
  <2>2. status' = "Flush"
    BY <1>1, <1>5 DEF RefuseToken
  <2>3. Wanted' = Wanted
    BY <2>1, Frame
  <2>4. <<>> \in Seq(StreamToken)
    OBVIOUS
  <2> QED BY <1>1, <2>1, <2>2, <2>3, <2>4 DEF Full, IsLibrary
<1>6. CASE EndOfBlock
  <2>1. status' = "Flush" /\ IsLibrary /\ UNCHANGED <<member, program, tail, flushed, limit, tokens, out>>
    BY <1>6 DEF EndOfBlock
  <2>2. Wanted' = Wanted
    BY <2>1, Frame
  <2> QED BY <1>1, <2>1, <2>2 DEF Full, IsLibrary
<1>7. CASE cbuf_flush
  <2>1. IsLibrary /\ UNCHANGED <<member, program, tail, tokens>>
    BY <1>7 DEF cbuf_flush
  <2>2. Wanted' = Wanted
    BY <2>1, Frame
  <2> DEFINE m == IF Have > WINDOW - flushed THEN WINDOW - flushed ELSE Have
             cut == IF limit < m THEN limit ELSE m
             goesOn == IF tokens = <<>> THEN "Done" ELSE "Decode"
  <2>7. flushed \in 0..WINDOW - 1
    BY <1>1, <2>1
  <2>3. \/ Have = 0 /\ status' = goesOn /\ UNCHANGED <<flushed, limit, delta, out>>
        \/ Have > 0 /\ Write(flushed, cut) /\ flushed' = (flushed + cut) % WINDOW /\ status' = IF limit' = 0 THEN goesOn ELSE "Flush"
    <3>1. ~(program = "raw")
      BY <1>1
    <3> QED BY <1>7, <3>1, Zenon DEF cbuf_flush
  <2>4. goesOn \in {"Done", "Decode"}
    OBVIOUS
  <2> HIDE DEF goesOn
  <2>5. CASE Have = 0 /\ status' = goesOn /\ UNCHANGED <<flushed, limit, delta, out>>
    BY <1>1, <2>1, <2>2, <2>4, <2>5 DEF Full, IsLibrary
  <2>6. CASE Have > 0 /\ Write(flushed, cut) /\ flushed' = (flushed + cut) % WINDOW /\ status' = IF limit' = 0 THEN goesOn ELSE "Flush"
    <3>1. m \in Int /\ m > 0
      <4>1. Have \in Int
        <5>1. tail - flushed \in Int
          BY <1>1, <2>7
        <5>2. (tail - flushed) % WINDOW \in 0..WINDOW - 1
          BY <1>3, <5>1
        <5> QED BY <5>2 DEF Have
      <4> HIDE DEF Have
      <4> QED BY <1>2, <2>6, <2>7, <4>1
    <3>2. cut = 0
      <4> HIDE DEF m
      <4> QED BY <1>1, <3>1
    <3> HIDE DEF cut
    <3>3. Write(flushed, 0)
      BY <2>6, <3>2
    <3>4. [i \in 1..0 |-> window[flushed + i - 1]] = <<>>
      OBVIOUS
    <3>5. UnDelta(delta, <<>>).out = <<>>
      <4>1. DOMAIN <<>> = {}
        OBVIOUS
      <4> DEFINE plain == CHOOSE f : f = [i \in DOMAIN <<>> |-> Wrapped(<<>>[i] + Earlier(delta, f, i))]
      <4>2. UnDelta(delta, <<>>) = [db |-> Passed(delta, plain), out |-> [i \in DOMAIN <<>> |-> plain[i]]]
        BY DEF UnDelta
      <4> HIDE DEF plain
      <4>3. [i \in DOMAIN <<>> |-> plain[i]] = <<>>
        BY <4>1
      <4> QED BY <4>2, <4>3
    <3>6. out' = out \o (IF Stride = 0 THEN [i \in 1..0 |-> window[flushed + i - 1]]
                         ELSE UnDelta(delta, [i \in 1..0 |-> window[flushed + i - 1]]).out) /\ limit' = limit - 0
      BY <3>3, Zenon DEF Write
    <3>11. (IF Stride = 0 THEN [i \in 1..0 |-> window[flushed + i - 1]]
            ELSE UnDelta(delta, [i \in 1..0 |-> window[flushed + i - 1]]).out) = <<>>
      BY <3>4, <3>5, Zenon
    <3>12. out' = out \o <<>>
      BY <3>6, <3>11, Zenon
    <3>7. out' = out \o <<>> /\ limit' = 0
      <4>1. limit' = limit - 0 /\ limit = 0
        BY <1>1, <3>6, Zenon
      <4>2. limit' = 0
        BY <4>1
      <4> QED BY <3>12, <4>2
    <3>8. out' = out
      <4>1. Wanted \in Seq(Byte) /\ member.size \in Nat
        BY WantedIs, MemberFacts DEF Known
      <4>2. out \in Seq(Byte)
        BY <1>1, <4>1
      <4> QED BY <3>7, <4>2
    <3>9. flushed' \in 0..WINDOW - 1
      <4>1. flushed + cut \in Int
        BY <2>7, <3>2
      <4> QED BY <1>3, <2>6, <4>1
    <3>10. status' = goesOn
      BY <2>6, <3>7
    <3> QED BY <1>1, <2>1, <2>2, <2>4, <3>7, <3>8, <3>9, <3>10 DEF Full, IsLibrary
  <2> QED BY <2>3, <2>5, <2>6
<1>8. CASE nuke1
  <2>1. program = "original" /\ status = "Decode"
    BY <1>8 DEF nuke1
  <2> QED BY <1>1, <2>1
<1>9. CASE FlushIt
  <2>1. program = "original" /\ status = "Flush"
    BY <1>9 DEF FlushIt
  <2> QED BY <1>1, <2>1
<1>10. CASE FlushAll
  <2>1. program = "original" /\ status = "Decode"
    BY <1>10 DEF FlushAll
  <2> QED BY <1>1, <2>1
<1> QED BY <1>4, <1>5, <1>6, <1>7, <1>8, <1>9, <1>10 DEF WindowsNext

LEMMA Nuke1Keeps ==
  ASSUME Known, Trusted(member, Stride),
         NEW n \in 0..Len(member.tokens), NEW all, NEW F, all = Told[n].data, UnderWay(n, all, F), nuke1
  PROVE  Going'
<1> DEFINE N == Len(all)
<1>1. /\ status = "Decode" /\ program = "original" /\ tokens # <<>> /\ Spread(Head(tokens)) /\ tokens' = Tail(tokens)
      /\ status' = IF InHalf(tail') = comp THEN "Flush" ELSE "Decode"
      /\ UNCHANGED <<member, program, flushed, skip, comp, limit, delta, out>>
  BY DEF nuke1
<1>2. /\ all \in Seq(Byte) /\ N \in Nat /\ F \in Nat /\ F <= N /\ Before \in Nat /\ Before <= F /\ F \in Before..N
      /\ ReadUpTo(n, all) /\ RingIs(all) /\ Sent(all, F)
  BY UnderWayFacts
<1>3. ~IsLibrary
  BY <1>1 DEF IsLibrary
<1>4. PICK H \in 0..N : ByHalves(all, F, H)
  BY <1>1, <1>3 DEF UnderWay
<1>5. /\ F = H + skip /\ skip \in 0..HALF - 1 /\ comp \in {0, HALF} /\ H % WINDOW = HALF - comp /\ N < H + HALF
  BY <1>1, <1>4 DEF ByHalves
<1>6. PICK t \in StreamToken : t = Head(tokens)
  BY <1>1, <1>2, NextToken DEF Known
<1>7. /\ n + 1 \in 1..Len(member.tokens) /\ t.dist <= WINDOW /\ t.len \in Nat /\ t.dist \in Nat /\ t = member.tokens[n + 1]
      /\ Tail(tokens) = SubSeq(member.tokens, (n + 1) + 1, Len(member.tokens))
      /\ Told[n] \in Unpacked /\ Told[n].good /\ Told[n + 1] = Further(Told[n], t)
  BY <1>1, <1>2, <1>6, NextToken DEF Known
<1>8. n + 1 \in 0..Len(member.tokens)
  <2>1. Len(member.tokens) \in Nat
    BY MemberFacts DEF Known
  <2> QED BY <1>7, <2>1
<1>9. Told[n + 1].good /\ t.len <= HALF
  BY <1>7, <1>8, TrustedFacts DEF Known
<1>10. WINDOW \in Nat \ {0} /\ HALF \in Nat /\ HALF > 0 /\ WINDOW = HALF + HALF
  BY WindowNumbers
<1> DEFINE new == Brought(all, t)
           more == all \o new
           L == Len(new)
<1>11. Sensible(all, t) /\ Told[n + 1] = Base(more)
  <2> DEFINE u == Told[n]
  <2>1. u \in Unpacked /\ u.good /\ u.data = all /\ Further(u, t).good
    BY <1>7, <1>9
  <2> HIDE DEF u
  <2>2. u.good /\ Sensible(u.data, t)
    BY <2>1, FurtherIs
  <2>3. Further(u, t) = Base(u.data \o Brought(u.data, t))
    BY <2>1, <2>2, FurtherIs
  <2> QED BY <1>7, <2>1, <2>2, <2>3 DEF u
<1>12. new \in Seq(Byte) /\ L = IF t.dist = 0 THEN 1 ELSE t.len
  BY <1>2, <1>11, BroughtIs
<1>13. L \in Nat /\ L <= HALF
  <2>1. L = IF t.dist = 0 THEN 1 ELSE t.len
    BY <1>12
  <2> HIDE DEF L
  <2> QED BY <1>7, <1>9, <1>10, <2>1
<1>14. new \in Seq(Byte)
  BY <1>12
<1>15. RingIs(more)'
  <2>1. t.len <= WINDOW /\ Spread(t)
    BY <1>1, <1>6, <1>7, <1>9, <1>10
  <2>2. RingIs(all \o Brought(all, t))'
    BY <1>2, <1>7, <1>11, <2>1, SpreadKeepsRing
  <2> QED BY <2>2
<1> HIDE DEF new
<1>16. more \in Seq(Byte) /\ Len(more) = N + L
  BY <1>2, <1>14
<1>17. \A k \in 1..N : more[k] = all[k]
  BY <1>2, <1>14
<1> HIDE DEF more, L
<1>18. Told' = Told /\ Stride' = Stride /\ Before' = Before /\ member' = member /\ ~IsLibrary' /\ program' = program
  BY <1>1, <1>3, Frame
<1>19. ReadUpTo(n + 1, more)'
  <2>1. tokens' = SubSeq(member'.tokens, (n + 1) + 1, Len(member'.tokens))
    BY <1>1, <1>7, <1>18
  <2>2. Told'[n + 1].good /\ more = Told'[n + 1].data
    BY <1>11, <1>18 DEF Base
  <2> QED BY <2>1, <2>2 DEF ReadUpTo
<1>20. Sent(more, F)'
  <2>1. N <= Len(more)
    BY <1>2, <1>13, <1>16
  <2> QED BY <1>1, <1>2, <1>16, <1>17, <2>1, MoreSent
<1>21. tail' = Len(more) % WINDOW
  BY <1>15 DEF RingIs
<1> DEFINE x == H % WINDOW
           e == (N + L) - H
<1>22. x \in {0, HALF} /\ x = HALF - comp /\ e \in 0..WINDOW - 1
  <2>1. x = HALF - comp /\ comp \in {0, HALF}
    BY <1>5
  <2>2. x \in {0, HALF}
    BY <1>10, <2>1
  <2>3. N \in Nat /\ L \in Nat /\ L <= HALF /\ H \in 0..N /\ N < H + HALF
    BY <1>2, <1>5, <1>13
  <2> HIDE DEF N
  <2>4. e \in 0..WINDOW - 1
    BY <1>10, <2>3
  <2> QED BY <2>1, <2>2, <2>4
<1>23. tail' = (x + e) % WINDOW
  <2>1. H \in Int /\ e \in Int /\ H + e = N + L
    BY <1>2, <1>13
  <2> HIDE DEF e
  <2>2. ((H % WINDOW) + e) % WINDOW = (H + e) % WINDOW
    BY <1>10, <2>1, ModPlus
  <2> QED BY <1>16, <1>21, <2>1, <2>2
<1> HIDE DEF x, e
<1>24. InHalf(tail') = comp <=> e >= HALF
  <2>1. CASE x + e < WINDOW
    <3>1. x + e \in 0..WINDOW - 1
      BY <1>10, <1>22, <2>1
    <3>2. tail' = x + e
      BY <1>10, <1>23, <3>1, ModLess
    <3> QED BY <1>5, <1>10, <1>22, <2>1, <3>2 DEF InHalf
  <2>2. CASE x + e >= WINDOW
    <3> DEFINE y == x + e
    <3>1. y \in Int /\ y - WINDOW \in 0..WINDOW - 1
      BY <1>10, <1>22, <2>2
    <3>2. y % WINDOW = (y - WINDOW) % WINDOW
      <4> HIDE DEF y
      <4> QED BY <1>10, <3>1, ModBack
    <3>3. (y - WINDOW) % WINDOW = y - WINDOW
      <4> DEFINE v == y - WINDOW
      <4> HIDE DEF v
      <4>1. v \in 0..WINDOW - 1
        BY <3>1 DEF v
      <4>2. v % WINDOW = v
        BY <1>10, <4>1, ModLess
      <4> QED BY <4>2 DEF v
    <3>5. tail' = y % WINDOW
      BY <1>23
    <3> HIDE DEF y
    <3>4. tail' = y - WINDOW
      BY <3>2, <3>3, <3>5
    <3>6. tail' = (x + e) - WINDOW
      BY <3>4 DEF y
    <3> QED BY <1>5, <1>10, <1>22, <2>2, <3>6 DEF InHalf
  <2> QED BY <1>10, <1>22, <2>1, <2>2
<1>25. status' \in {"Flush", "Decode"} /\ (status' = "Flush" <=> e >= HALF)
  BY <1>1, <1>24, Zenon
<1>26. ByHalves(more, F, H)'
  <2>1. F = H + skip' /\ skip' \in 0..HALF - 1 /\ comp' \in {0, HALF} /\ H % WINDOW = HALF - comp'
    BY <1>1, <1>5
  <2>2. status' = "Decode" => Len(more) < H + HALF
    <3>1. status' = "Decode" => ~(e >= HALF)
      BY <1>25
    <3> QED BY <1>2, <1>10, <1>13, <1>16, <3>1 DEF e
  <2>3. status' = "Flush" => H + HALF <= Len(more) /\ Len(more) < H + WINDOW
    <3>1. status' = "Flush" => e >= HALF
      BY <1>25
    <3> QED BY <1>2, <1>5, <1>10, <1>13, <1>16, <3>1 DEF e
  <2> QED BY <2>1, <2>2, <2>3 DEF ByHalves
<1>27. Ending(more, F)'
  BY <1>25 DEF Ending
<1>28. H \in 0..Len(more)
  BY <1>2, <1>13, <1>16
<1>29. UnderWay(n + 1, more, F)'
  BY <1>15, <1>18, <1>19, <1>20, <1>26, <1>27, <1>28 DEF UnderWay
<1>30. more = Told[n + 1].data /\ F \in Before..Len(more)
  BY <1>2, <1>11, <1>13, <1>16 DEF Base
<1> QED BY <1>1, <1>8, <1>29, <1>30, GoingOn

LEMMA FlushItKeeps ==
  ASSUME Known, NEW n \in 0..Len(member.tokens), NEW all, NEW F, all = Told[n].data, UnderWay(n, all, F), FlushIt
  PROVE  Going' \/ Full'
<1> DEFINE N == Len(all)
           tot == HALF - skip
           cut == IF tot > limit THEN limit ELSE tot
<1>1. /\ status = "Flush" /\ program = "original" /\ comp' = HALF - comp
      /\ UNCHANGED <<member, program, window, tail, flushed, produced, tokens>>
  BY DEF FlushIt
<1>2. /\ all \in Seq(Byte) /\ N \in Nat /\ F \in Nat /\ F <= N /\ Before \in Nat /\ Before <= F /\ F \in Before..N
      /\ limit \in Nat /\ tail \in 0..WINDOW - 1 /\ tokens \in Seq(StreamToken)
      /\ ReadUpTo(n, all) /\ RingIs(all) /\ Sent(all, F)
  BY UnderWayFacts
<1>3. ~IsLibrary
  BY <1>1 DEF IsLibrary
<1>4. PICK H \in 0..N : ByHalves(all, F, H)
  BY <1>1, <1>3 DEF UnderWay
<1>5. /\ F = H + skip /\ skip \in 0..HALF - 1 /\ comp \in {0, HALF} /\ H % WINDOW = HALF - comp
      /\ H + HALF <= N /\ N < H + WINDOW /\ H \in Nat
  BY <1>1, <1>2, <1>4 DEF ByHalves
<1>6. WINDOW \in Nat \ {0} /\ HALF \in Nat /\ HALF > 0 /\ WINDOW = HALF + HALF
  BY WindowNumbers
<1>7. ~(skip >= HALF) /\ tot \in Nat
  BY <1>5, <1>6
<1>8. /\ Write(comp' + skip, cut) /\ skip' = 0
      /\ status' = IF tot > limit THEN "Done" ELSE "Decode"
  BY <1>7, Zenon DEF FlushIt
<1>9. comp' + skip = F % WINDOW /\ comp' \in {0, HALF} /\ H % WINDOW = comp'
  <2>1. (H % WINDOW) + skip < WINDOW /\ skip \in Nat /\ H \in Int
    BY <1>5, <1>6
  <2>2. (H + skip) % WINDOW = (H % WINDOW) + skip
    BY <1>6, <2>1, ModAdd
  <2>3. comp' \in {0, HALF}
    BY <1>1, <1>5, <1>6
  <2> QED BY <1>1, <1>5, <2>2, <2>3
<1>10. cut \in Nat /\ cut <= limit /\ cut <= tot
  BY <1>2, <1>7
<1>11. PICK c \in Nat : c = cut
  BY <1>10
<1>12. tot > limit => c = limit
  BY <1>11
<1>13. ~(tot > limit) => c = tot
  BY <1>11
<1>14. Write(F % WINDOW, c) /\ c <= limit /\ c <= tot
  BY <1>8, <1>9, <1>10, <1>11
<1> HIDE DEF cut
<1>15. (F % WINDOW) + c <= WINDOW /\ F + c <= N /\ N - F <= WINDOW
  <2>1. F % WINDOW = comp' + skip
    BY <1>9
  <2>5. comp' \in Nat /\ comp' <= HALF
    BY <1>6, <1>9
  <2>6. skip \in Nat /\ c <= HALF - skip
    BY <1>5, <1>6, <1>14
  <2>2. (comp' + skip) + c <= HALF + HALF
    <3> DEFINE k == comp'
    <3>1. k \in Nat /\ k <= HALF /\ skip \in Nat /\ c \in Nat /\ c <= HALF - skip /\ HALF \in Nat
      BY <1>6, <2>5, <2>6
    <3> HIDE DEF k
    <3>2. (k + skip) + c <= HALF + HALF
      BY <3>1
    <3> QED BY <3>2 DEF k
  <2>3. F + c <= N /\ N - F <= WINDOW
    <3>1. N \in Nat /\ H \in Nat /\ F = H + skip /\ H + HALF <= N /\ N < H + WINDOW /\ HALF \in Nat /\ WINDOW \in Nat
      BY <1>2, <1>5, <1>6
    <3> HIDE DEF N
    <3> QED BY <2>6, <3>1
  <2> QED BY <1>6, <2>1, <2>2, <2>3
<1>16. Sent(all, F + c)'
  BY <1>1, <1>2, <1>14, <1>15, WriteOn DEF Known
<1>17. limit' = limit - c
  BY <1>14 DEF Write
<1>18. Told' = Told /\ Stride' = Stride /\ Before' = Before /\ member' = member /\ ~IsLibrary' /\ program' = program
  BY <1>1, <1>3, Frame
<1>19. CASE tot > limit
  <2>1. status' = "Done" /\ limit' = 0
    BY <1>2, <1>8, <1>12, <1>17, <1>19
  <2>2. tokens' \in Seq(StreamToken) /\ tail' \in 0..WINDOW - 1
    BY <1>1, <1>2
  <2>3. program # "raw" /\ status' # "Damaged"
    BY <1>1, <2>1
  <2>4. Full'
    BY <1>1, <1>3, <1>16, <2>1, <2>2, <2>3, ReachesFull
  <2> QED BY <2>4
<1>20. CASE ~(tot > limit)
  <2>1. status' = "Decode" /\ c = HALF - skip
    BY <1>8, <1>13, <1>20
  <2>2. PICK G \in 0..N : G = H + HALF
    BY <1>2, <1>5, <1>6
  <2>3. F + c = G /\ G \in Before..N
    BY <1>2, <1>5, <1>6, <2>1, <2>2
  <2>4. G % WINDOW = HALF - comp'
    <3>1. H \in Int /\ HALF \in Int
      BY <1>5, <1>6
    <3>2. ((H % WINDOW) + HALF) % WINDOW = (H + HALF) % WINDOW
      BY <1>6, <3>1, ModPlus
    <3>3. CASE comp' = 0
      <4>1. HALF \in 0..WINDOW - 1
        BY <1>6
      <4>2. HALF % WINDOW = HALF
        BY <1>6, <4>1, ModLess
      <4>3. 0 + HALF = HALF /\ HALF - 0 = HALF
        BY <1>6
      <4> QED BY <1>9, <2>2, <3>2, <3>3, <4>2, <4>3
    <3>4. CASE comp' = HALF
      <4>1. 0 \in 0..WINDOW - 1 /\ WINDOW \in Int /\ WINDOW - WINDOW = 0
        BY <1>6
      <4>2. 0 % WINDOW = 0
        BY <1>6, <4>1, ModLess
      <4>3. WINDOW % WINDOW = 0
        <5>1. (WINDOW - WINDOW) % WINDOW = WINDOW % WINDOW
          BY <1>6, <4>1, ModBack
        <5> QED BY <4>1, <4>2, <5>1
      <4>4. HALF - HALF = 0 /\ HALF + HALF = WINDOW
        BY <1>6
      <4> QED BY <1>9, <2>2, <3>2, <3>4, <4>3, <4>4
    <3> QED BY <1>9, <3>3, <3>4
  <2>5. ByHalves(all, G, G)'
    <3>1. G = G + skip' /\ skip' \in 0..HALF - 1
      BY <1>6, <1>8, <2>2
    <3>2. Len(all) < G + HALF
      BY <1>2, <1>5, <1>6, <2>2
    <3> QED BY <1>9, <2>1, <2>4, <3>1, <3>2 DEF ByHalves
  <2>6. Sent(all, G)'
    BY <1>16, <2>3
  <2>7. ReadUpTo(n, all)'
    BY <1>1, <1>2, <1>18 DEF ReadUpTo
  <2>8. RingIs(all)'
    BY <1>1, <1>2 DEF RingIs
  <2>9. Ending(all, G)'
    BY <2>1 DEF Ending
  <2>10. UnderWay(n, all, G)'
    BY <1>18, <2>2, <2>5, <2>6, <2>7, <2>8, <2>9 DEF UnderWay
  <2>11. Going'
    BY <1>1, <2>3, <2>10, GoingOn
  <2> QED BY <2>11
<1> QED BY <1>19, <1>20

LEMMA FlushAllKeeps ==
  ASSUME Known, NEW n \in 0..Len(member.tokens), NEW all, NEW F, all = Told[n].data, UnderWay(n, all, F), FlushAll
  PROVE  Going' \/ Full'
<1> DEFINE N == Len(all)
           tot == (tail - InHalf(tail)) - skip
           cut == IF tot > limit THEN limit ELSE tot
<1>1. /\ status = "Decode" /\ program = "original" /\ tokens = <<>> /\ Write(InHalf(tail) + skip, cut) /\ status' = "Done"
      /\ UNCHANGED <<member, program, window, tail, flushed, produced, tokens>>
  BY DEF FlushAll
<1>2. /\ all \in Seq(Byte) /\ N \in Nat /\ F \in Nat /\ F <= N /\ Before \in Nat /\ Before <= F /\ F \in Before..N
      /\ limit \in Nat /\ tail = N % WINDOW /\ tail \in 0..WINDOW - 1 /\ tokens \in Seq(StreamToken)
      /\ ReadUpTo(n, all) /\ RingIs(all) /\ Sent(all, F)
  BY UnderWayFacts
<1>3. ~IsLibrary
  BY <1>1 DEF IsLibrary
<1>4. PICK H \in 0..N : ByHalves(all, F, H)
  BY <1>1, <1>3 DEF UnderWay
<1>5. /\ F = H + skip /\ skip \in 0..HALF - 1 /\ comp \in {0, HALF} /\ H % WINDOW = HALF - comp
      /\ N < H + HALF /\ H \in Nat /\ H <= N
  BY <1>1, <1>2, <1>4 DEF ByHalves
<1>6. WINDOW \in Nat \ {0} /\ HALF \in Nat /\ HALF > 0 /\ WINDOW = HALF + HALF
  BY WindowNumbers
<1> DEFINE x == H % WINDOW
           e == N - H
<1>7. x \in {0, HALF} /\ e \in 0..HALF - 1 /\ x \in Int
  BY <1>2, <1>5, <1>6
<1>8. tail = x + e
  <2>1. H \in Int /\ e \in Nat /\ (H % WINDOW) + e < WINDOW /\ H + e = N
    BY <1>2, <1>5, <1>6, <1>7
  <2> HIDE DEF e
  <2>2. (H + e) % WINDOW = (H % WINDOW) + e
    BY <1>6, <2>1, ModAdd
  <2> QED BY <1>2, <2>1, <2>2
<1>9. x + skip = F % WINDOW
  <2>1. (H % WINDOW) + skip < WINDOW /\ skip \in Nat /\ H \in Int
    BY <1>5, <1>6
  <2>2. (H + skip) % WINDOW = (H % WINDOW) + skip
    BY <1>6, <2>1, ModAdd
  <2> QED BY <1>5, <2>2
<1> HIDE DEF x
<1>10. InHalf(tail) = x
  <2> HIDE DEF e
  <2> QED BY <1>6, <1>7, <1>8 DEF InHalf
<1>11. tot = N - F /\ tot \in Nat
  <2>1. tot = (tail - x) - skip
    BY <1>10, Zenon
  <2>2. skip \in Nat /\ F = H + skip /\ N \in Nat /\ H \in Nat /\ F <= N /\ x \in Int /\ tail = x + (N - H)
    <3>1. N \in Nat /\ F <= N
      BY <1>2
    <3>2. skip \in Nat /\ F = H + skip /\ H \in Nat
      BY <1>5
    <3>3. x \in Int /\ tail = x + (N - H)
      BY <1>7, <1>8
    <3> QED BY <3>1, <3>2, <3>3
  <2> HIDE DEF tot, N
  <2> QED BY <2>1, <2>2
<1> HIDE DEF tot, e
<1>12. cut \in Nat /\ cut <= limit /\ cut <= tot /\ (tot > limit => cut = limit) /\ (~(tot > limit) => cut = tot)
  BY <1>2, <1>11
<1>13. PICK c \in Nat : c = cut
  BY <1>12
<1>14. Write(F % WINDOW, c) /\ c <= limit /\ c <= tot /\ (tot > limit => c = limit) /\ (~(tot > limit) => c = tot)
  BY <1>1, <1>9, <1>10, <1>12, <1>13
<1> HIDE DEF cut
<1>15. (F % WINDOW) + c <= WINDOW /\ F + c <= N /\ N - F <= WINDOW
  <2>1. F % WINDOW = x + skip
    BY <1>9
  <2>2. c <= N - F /\ N - F = (N - H) - skip /\ N - H < HALF /\ skip \in Nat
    <3>1. skip \in Nat /\ F = H + skip /\ N \in Nat /\ H \in Nat /\ N < H + HALF /\ HALF \in Nat /\ c <= N - F
      BY <1>2, <1>5, <1>6, <1>11, <1>14
    <3> HIDE DEF N
    <3> QED BY <3>1
  <2>3. F + c <= N /\ N - F <= WINDOW
    BY <1>2, <1>5, <1>6, <2>2
  <2>4. skip + c <= HALF
    BY <1>2, <1>5, <1>6, <2>2
  <2>5. (x + skip) + c <= HALF + HALF
    BY <1>6, <1>7, <2>2, <2>4
  <2> QED BY <1>6, <2>1, <2>3, <2>5
<1>16. Sent(all, F + c)'
  BY <1>1, <1>2, <1>14, <1>15, WriteOn DEF Known
<1>17. limit' = limit - c
  BY <1>14 DEF Write
<1>18. Told' = Told /\ Stride' = Stride /\ Before' = Before /\ member' = member /\ ~IsLibrary' /\ program' = program
  BY <1>1, <1>3, Frame
<1>19. CASE tot > limit
  <2>1. limit' = 0
    BY <1>2, <1>14, <1>17, <1>19
  <2>2. tokens' \in Seq(StreamToken) /\ tail' \in 0..WINDOW - 1
    BY <1>1, <1>2
  <2>3. program # "raw" /\ status' # "Damaged"
    BY <1>1
  <2>4. Full'
    BY <1>1, <1>3, <1>16, <2>1, <2>2, <2>3, ReachesFull
  <2> QED BY <2>4
<1>20. CASE ~(tot > limit)
  <2>1. F + c = N /\ F + c \in Before..N
    BY <1>2, <1>11, <1>14, <1>20
  <2>2. ReadUpTo(n, all)'
    BY <1>1, <1>2, <1>18 DEF ReadUpTo
  <2>3. RingIs(all)'
    BY <1>1, <1>2 DEF RingIs
  <2>4. Ending(all, F + c)'
    <3>1. tokens' = <<>> /\ status' = "Done"
      BY <1>1
    <3> QED BY <2>1, <3>1 DEF Ending
  <2>5. UnderWay(n, all, F + c)'
    BY <1>1, <1>16, <1>18, <2>2, <2>3, <2>4 DEF UnderWay
  <2>6. Going'
    BY <1>1, <2>1, <2>5, GoingOn
  <2> QED BY <2>6
<1> QED BY <1>19, <1>20

LEMMA WindowsStep ==
  ASSUME WindowsInv, [WindowsNext]_windows
  PROVE  WindowsInv'
<1>1. Known /\ status \in {"Decode", "Flush", "Done", "Damaged"} /\ (program = "original" => Trusted(member, Stride)) /\ (Going \/ Full)
  BY DEF WindowsInv, Known
<1>2. CASE UNCHANGED windows
  <2>1. /\ member' = member /\ program' = program /\ window' = window /\ tail' = tail /\ flushed' = flushed /\ produced' = produced
        /\ skip' = skip /\ comp' = comp /\ limit' = limit /\ tokens' = tokens /\ delta' = delta /\ out' = out /\ status' = status
    BY <1>2 DEF windows
  <2>2. Told' = Told /\ Stride' = Stride /\ Before' = Before /\ Wanted' = Wanted /\ Final' = Final /\ IsLibrary' = IsLibrary
        /\ Trusted(member, Stride)' = Trusted(member, Stride)
    BY <2>1, Frame
  <2>3. CASE Full
    BY <1>1, <2>1, <2>2, <2>3 DEF WindowsInv, Known, Full
  <2>4. CASE Going
    <3>1. PICK n \in 0..Len(member.tokens) : \E all \in {Told[n].data} : \E F \in Before..Len(all) : UnderWay(n, all, F)
      BY <2>4 DEF Going
    <3>2. PICK all \in {Told[n].data} : \E F \in Before..Len(all) : UnderWay(n, all, F)
      BY <3>1
    <3>3. PICK F \in Before..Len(all) : UnderWay(n, all, F)
      BY <3>2
    <3>4. ReadUpTo(n, all) /\ RingIs(all) /\ Sent(all, F) /\ Ending(all, F)
          /\ (IsLibrary => ByRing(all, F))
          /\ ((~IsLibrary /\ status # "Done") => \E H \in 0..Len(all) : ByHalves(all, F, H))
      BY <3>3 DEF UnderWay
    <3>5. ReadUpTo(n, all)'
      BY <2>1, <2>2, <3>4 DEF ReadUpTo
    <3>6. RingIs(all)'
      BY <2>1, <3>4 DEF RingIs
    <3>7. Sent(all, F)'
      BY <2>1, <2>2, <3>4 DEF Sent
    <3>8. Ending(all, F)'
      BY <2>1, <2>2, <3>4 DEF Ending
    <3>9. (IsLibrary => ByRing(all, F))'
      BY <2>1, <2>2, <3>4 DEF ByRing
    <3>10. ((~IsLibrary /\ status # "Done") => \E H \in 0..Len(all) : ByHalves(all, F, H))'
      BY <2>1, <2>2, <3>4 DEF ByHalves
    <3>11. UnderWay(n, all, F)'
      BY <3>5, <3>6, <3>7, <3>8, <3>9, <3>10 DEF UnderWay
    <3>12. Going'
      BY <2>1, <3>11, GoingOn
    <3> QED BY <1>1, <2>1, <2>2, <3>12 DEF WindowsInv, Known
  <2> QED BY <1>1, <2>3, <2>4
<1>3. CASE WindowsNext
  <2>1. member' = member /\ program' = program
    BY <1>3 DEF WindowsNext, DecodeToken, RefuseToken, EndOfBlock, cbuf_flush, nuke1, FlushIt, FlushAll
  <2>2. Trusted(member, Stride)' = Trusted(member, Stride)
    BY <2>1, Frame
  <2>3. status' \in {"Decode", "Flush", "Done", "Damaged"}
    <3>1. CASE DecodeToken
      BY <3>1, Zenon DEF DecodeToken
    <3>2. CASE RefuseToken
      BY <3>2, Zenon DEF RefuseToken
    <3>3. CASE EndOfBlock
      BY <3>3, Zenon DEF EndOfBlock
    <3>4. CASE cbuf_flush
      BY <3>4, Zenon DEF cbuf_flush
    <3>5. CASE nuke1
      BY <3>5, Zenon DEF nuke1
    <3>6. CASE FlushIt
      BY <3>6, Zenon DEF FlushIt
    <3>7. CASE FlushAll
      BY <3>7, Zenon DEF FlushAll
    <3> QED BY <1>3, <3>1, <3>2, <3>3, <3>4, <3>5, <3>6, <3>7 DEF WindowsNext
  <2>4. CASE Full
    <3>1. Full'
      BY <1>1, <1>3, <2>4, FullStays
    <3> QED BY <1>1, <2>1, <2>2, <2>3, <3>1 DEF WindowsInv, Known
  <2>5. CASE Going
    <3>1. PICK n \in 0..Len(member.tokens) : \E all \in {Told[n].data} : \E F \in Before..Len(all) : UnderWay(n, all, F)
      BY <2>5 DEF Going
    <3>2. PICK all \in {Told[n].data} : \E F \in Before..Len(all) : UnderWay(n, all, F)
      BY <3>1
    <3>3. PICK F \in Before..Len(all) : UnderWay(n, all, F)
      BY <3>2
    <3>4. all = Told[n].data
      BY <3>2
    <3>5. Going' \/ Full'
      <4>1. CASE DecodeToken
        BY <1>1, <3>3, <3>4, <4>1, DecodeTokenKeeps
      <4>2. CASE RefuseToken
        BY <1>1, <3>3, <3>4, <4>2, RefuseTokenKeeps
      <4>3. CASE EndOfBlock
        BY <1>1, <3>3, <3>4, <4>3, EndOfBlockKeeps
      <4>4. CASE cbuf_flush
        BY <1>1, <3>3, <3>4, <4>4, CbufFlushKeeps
      <4>5. CASE nuke1
        <5>1. Trusted(member, Stride)
          BY <1>1, <4>5 DEF nuke1
        <5> QED BY <1>1, <3>3, <3>4, <4>5, <5>1, Nuke1Keeps
      <4>6. CASE FlushIt
        BY <1>1, <3>3, <3>4, <4>6, FlushItKeeps
      <4>7. CASE FlushAll
        BY <1>1, <3>3, <3>4, <4>7, FlushAllKeeps
      <4> QED BY <1>3, <4>1, <4>2, <4>3, <4>4, <4>5, <4>6, <4>7 DEF WindowsNext
    <3> QED BY <1>1, <2>1, <2>2, <2>3, <3>5 DEF WindowsInv, Known
  <2> QED BY <1>1, <2>4, <2>5
<1> QED BY <1>2, <1>3

(* What leaves the decoder is what the tokens stand for, for every size of  *)
(* the window, every master and every sequence of tokens, from the ring of  *)
(* the library and from the halves of the original (cbuf_flush(),           *)
(* decompressor_ultra(); FlushIt(), FlushAll(), nuke1()).                   *)
THEOREM TokensDelivered == WindowsSpec => []WindowsDeliver
<1>1. WindowsInit => WindowsInv
  BY WindowsStart
<1>2. WindowsInv /\ [WindowsNext]_windows => WindowsInv'
  BY WindowsStep
<1>3. WindowsInv => WindowsDeliver
  BY WindowsInvDelivers
<1> QED BY <1>1, <1>2, <1>3, PTL DEF WindowsSpec

=============================================================================
