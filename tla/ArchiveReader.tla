---------------------------- MODULE ArchiveReader ----------------------------
(***************************************************************************)
(* One open archive: the native decoder's handle and its cache of          *)
(* dictionaries ("masters", lib/src/decompress.c) under the Python         *)
(* extension that counts its memory (python/native.c).                     *)
(*                                                                         *)
(* A dictionary may itself need another.  resolve_master() walks down the  *)
(* needs of an entry, leaving needed_by links, and decodes on the way back *)
(* up.  Decoding calls back into Python to read the source, so any of it   *)
(* may fail, and other threads run meanwhile; they find the reader busy.   *)
(*                                                                         *)
(* The archive's masters, their needs and what is damaged are any: they    *)
(* are chosen at the start and never change.                               *)
(***************************************************************************)
EXTENDS Integers, FiniteSets

CONSTANTS
    Master,         \* the identifiers of the archive's master records
    Super,          \* the built-in SuperMaster, the end of every chain
    Absent,         \* an identifier without a record
    None,           \* no master: a null pointer
    Entry,          \* stands for an entry's own data, which may be damaged
    Length,         \* Length[m]: size of a decoded dictionary
    SuperLength,    \* size of the SuperMaster
    Context,        \* memory of a handle
    Directory,      \* memory of the central directory
    Record,         \* memory of a master record
    Work,           \* memory of one decompression while it runs
    MemoryLimit     \* max_decoder_memory

ASSUME ReaderAssumption ==
    /\ IsFiniteSet(Master)
    /\ Length \in [Master -> Nat \ {0}]
    /\ {SuperLength, Context, Directory, Record, Work} \subseteq Nat
    /\ MemoryLimit \in Nat \ {0}
    /\ Super # Absent /\ Entry \notin {Super, Absent} /\ None \notin {Super, Absent, Entry}
    /\ {Super, Absent, None, Entry} \cap Master = {}
    /\ None \notin {"right", "wrong"}      \* nor is a dictionary

VARIABLES
    needs,      \* needs[m]: the master m's stream was made with
    damaged,    \* the streams that are damaged
    phase,      \* "new", "context", "scan", "ready" or "closed"
    records,    \* the masters whose record has been read
    super,      \* whether the SuperMaster is loaded
    data,       \* data[m]: the decoded dictionary: None, "right" or "wrong"
    neededBy,   \* needed_by
    allocated,  \* the bytes counted as allocated
    refused,    \* allocation_refused
    call,       \* the running call: where it is, the entry's master, the
                \* master the walk has come to, and the last one linked (mi)
    answer      \* observer: of the call that ended last, and whether an
                \* allocation of it was refused

archive == <<needs, damaged>>
cache == <<records, super, data, neededBy>>
vars == <<archive, phase, cache, allocated, refused, call, answer>>

Idle == [at |-> "idle", master |-> None, cursor |-> None, last |-> None]
busy == call.at # "idle"

\* No call has ended yet.
Unasked == [says |-> "nothing", master |-> None, short |-> FALSE]

Init ==
    /\ needs \in [Master -> Master \cup {Super, Absent}]
    /\ damaged \in {{}} \cup {{s} : s \in Master \cup {Entry}}
    /\ phase = "new"
    /\ records = {}
    /\ super = FALSE
    /\ data = [m \in Master |-> None]
    /\ neededBy = [m \in Master |-> None]
    /\ allocated = 0
    /\ refused = FALSE
    /\ call = Idle
    /\ answer = Unasked
------------------------------------------------------------------------------
(* allocate(), release() and dispose()                                     *)
Fits(size) == size <= MemoryLimit - allocated

Allocate(size) ==
    /\ Fits(size)
    /\ allocated' = allocated + size

Dispose ==
    /\ phase' = "closed"
    /\ allocated' = 0
    /\ records' = {}
    /\ super' = FALSE
    /\ data' = [m \in Master |-> None]
    /\ neededBy' = [m \in Master |-> None]

(* reader_init(): uc2_open, then the central directory record by record.   *)
OpenContext ==
    /\ phase = "new"
    /\ Allocate(Context)
    /\ phase' = "context"
    /\ UNCHANGED <<archive, cache, refused, call, answer>>

\* The buffer stays; a decompression runs beside it.
ReadDirectory ==
    /\ phase = "context"
    /\ Fits(Directory + Work)
    /\ Allocate(Directory)
    /\ phase' = "scan"
    /\ UNCHANGED <<archive, cache, refused, call, answer>>

ScanMaster(m) ==
    /\ phase = "scan"
    /\ m \notin records
    /\ Allocate(Record)
    /\ records' = records \cup {m}
    /\ UNCHANGED <<archive, phase, super, data, neededBy, refused, call, answer>>

EndScan ==
    /\ phase = "scan"
    /\ records = Master
    /\ phase' = "ready"
    /\ UNCHANGED <<archive, cache, allocated, refused, call, answer>>

\* The constructor fails: for memory, for a read error or a damaged directory.
OpenFails ==
    /\ phase \in {"new", "context", "scan"}
    /\ Dispose
    /\ UNCHANGED <<archive, refused, call, answer>>

Close ==
    /\ phase \in {"ready", "closed"}
    /\ ~busy
    /\ Dispose
    /\ UNCHANGED <<archive, refused, call, answer>>
------------------------------------------------------------------------------
(* extract()                                                               *)

Begin(m) ==
    /\ phase = "ready"
    /\ ~busy
    /\ call' = [Idle EXCEPT !.at = "super", !.master = m, !.cursor = m]
    /\ refused' = FALSE
    /\ UNCHANGED <<archive, phase, cache, allocated, answer>>

Return(says, short) ==
    /\ call' = Idle
    /\ answer' = [says |-> says, master |-> call.master, short |-> short]

\* A result below zero: set_error() tells a refused allocation from damage,
\* whatever the decoder made of it.
Says == IF refused' THEN "limit" ELSE "damaged"

\* Faulty variant: the links stay.
GivesUpKeepingLinks(says, short) ==
    /\ UNCHANGED neededBy
    /\ Return(says, short)

\* resolve_master() gives up: only whole dictionaries stay, and no link.
GivesUp(says, short) ==
    /\ neededBy' = [m \in Master |-> None]
    /\ Return(says, short)

LoadSuper ==
    /\ call.at = "super"
    /\ ~super
    /\ Fits(SuperLength + Work)
    /\ Allocate(SuperLength)
    /\ super' = TRUE
    /\ UNCHANGED <<archive, phase, records, data, neededBy, refused, call, answer>>

\* Masters below FirstMaster need no walk.
Resolve ==
    /\ call.at = "super"
    /\ super
    /\ call' = [call EXCEPT !.at = IF call.master = Super THEN "extract" ELSE "walk"]
    /\ UNCHANGED <<archive, phase, cache, allocated, refused, answer>>

\* Faulty variant: only a missing master is noticed.
StuckWhenMissing == call.cursor \notin records

\* find_master() fails, or the walk comes to a master it has left a link at.
Stuck == call.cursor \in records => neededBy[call.cursor] # None

WalkFails ==
    /\ call.at = "walk"
    /\ Stuck
    /\ UNCHANGED <<archive, phase, records, super, data, allocated, refused>>
    /\ GivesUp(Says, FALSE)

WalkEnds ==
    /\ call.at = "walk"
    /\ ~Stuck
    /\ data[call.cursor] # None
    /\ call' = [call EXCEPT !.at = "decode"]
    /\ UNCHANGED <<archive, phase, cache, allocated, refused, answer>>

Walk ==
    /\ call.at = "walk"
    /\ ~Stuck
    /\ data[call.cursor] = None
    /\ neededBy' = [neededBy EXCEPT ![call.cursor] = IF call.last # None THEN call.last ELSE @]
    /\ call' = [call EXCEPT !.at = IF needs[call.cursor] = Super THEN "decode" ELSE "walk",
                            !.last = call.cursor, !.cursor = needs[call.cursor]]
    /\ UNCHANGED <<archive, phase, records, super, data, allocated, refused, answer>>

\* A dictionary that decodes.  A damaged stream, or one decoded with a wrong
\* dictionary, may yield a full length of wrong bytes: no checksum is kept.
Sources(m) == IF needs[m] = Super THEN "right" ELSE data[needs[m]]

Decode(result) ==
    /\ call.at = "decode"
    /\ call.last # None
    /\ Fits(Length[call.last] + Work)
    /\ Allocate(Length[call.last])
    /\ result = IF call.last \in damaged \/ Sources(call.last) = "wrong" THEN "wrong" ELSE "right"
    /\ data' = [data EXCEPT ![call.last] = result]
    /\ neededBy' = [neededBy EXCEPT ![call.last] = None]
    /\ call' = [call EXCEPT !.last = neededBy[call.last]]
    /\ UNCHANGED <<archive, phase, records, super, refused, answer>>

\* Faulty variant: the buffer is not freed.
DecodeFailsLeaking ==
    /\ call.at = "decode"
    /\ call.last # None
    /\ call.last \in damaged \/ Sources(call.last) = "wrong"
    /\ Allocate(Length[call.last])
    /\ UNCHANGED <<archive, phase, records, super, data, refused>>
    /\ GivesUp(Says, FALSE)

\* One that does not: its buffer is freed.
DecodeFails ==
    /\ call.at = "decode"
    /\ call.last # None
    /\ Fits(Length[call.last] + Work)
    /\ call.last \in damaged \/ Sources(call.last) = "wrong"
    /\ UNCHANGED <<archive, phase, records, super, data, allocated, refused>>
    /\ GivesUp(Says, FALSE)

Resolved ==
    /\ call.at = "decode"
    /\ call.last = None
    /\ call' = [call EXCEPT !.at = "extract"]
    /\ UNCHANGED <<archive, phase, cache, allocated, refused, answer>>

\* The entry itself, whose checksum is compared.
Wrong == Entry \in damaged \/ (call.master # Super /\ data[call.master] = "wrong")

Extract ==
    /\ call.at = "extract"
    /\ Fits(Work)
    /\ UNCHANGED <<archive, phase, cache, allocated, refused>>
    /\ Return(IF Wrong THEN Says ELSE "data", FALSE)

\* allocate() refuses what this step asks for.
Asks ==
    CASE call.at = "super" /\ ~super -> SuperLength + Work
      [] call.at = "decode" /\ call.last # None -> Length[call.last] + Work
      [] call.at = "extract" -> Work
      [] OTHER -> 0

Refuse ==
    /\ busy
    /\ ~Fits(Asks)
    /\ refused' = TRUE
    /\ UNCHANGED <<archive, phase, records, super, data, allocated>>
    /\ GivesUp(Says, TRUE)

\* The source, the destination or malloc raises a Python exception.
Raise ==
    /\ Asks > 0
    /\ UNCHANGED <<archive, phase, records, super, data, allocated, refused>>
    /\ GivesUp("exception", FALSE)

Step ==
    \/ LoadSuper \/ Resolve
    \/ WalkFails \/ WalkEnds \/ Walk
    \/ (\E r \in {"right", "wrong"} : Decode(r)) \/ DecodeFails \/ Resolved
    \/ Extract
    \/ Refuse \/ Raise

Next ==
    \/ OpenContext \/ ReadDirectory \/ EndScan \/ OpenFails \/ Close
    \/ \E m \in Master : ScanMaster(m)
    \/ \E m \in Master \cup {Super, Absent} : Begin(m)
    \/ Step

Spec == Init /\ [][Next]_vars
------------------------------------------------------------------------------
(* Properties                                                              *)

\* The variables have their types.
TypeOK ==
    /\ needs \in [Master -> Master \cup {Super, Absent}]
    /\ damaged \subseteq Master \cup {Entry}
    /\ phase \in {"new", "context", "scan", "ready", "closed"}
    /\ records \subseteq Master
    /\ super \in BOOLEAN
    /\ data \in [Master -> {None, "right", "wrong"}]
    /\ neededBy \in [Master -> Master \cup {None}]
    /\ allocated \in Nat
    /\ refused \in BOOLEAN
    /\ call \in [at : {"idle", "super", "walk", "decode", "extract"},
                 master : Master \cup {Super, Absent, None},
                 cursor : Master \cup {Super, Absent, None}, last : Master \cup {None}]
    /\ answer \in [says : {"nothing", "data", "damaged", "limit", "exception"},
                   master : Master \cup {Super, Absent, None}, short : BOOLEAN]

\* The masters m stands on, m included, as far as they exist: what is in every set
\* that holds m and the needs of its masters.
Identifier == Master \cup {Super, Absent}
Closed(S) == \A m \in S \cap Master : needs[m] \in S
Below(m) == {x \in Identifier : \A S \in SUBSET Identifier : m \in S /\ Closed(S) => x \in S}

\* The chain below m ends in the SuperMaster; a cycle or a gap does not.
Grounded(m) == Super \in Below(m)
Intact(m) == damaged \cap (Below(m) \cup {Entry}) = {}

\* What a call says is true of the archive, whatever calls failed before it:
\* data only of an intact entry, damage only of a damaged one, and the limit
\* exactly when an allocation of this very call was refused.
AnswersTrue ==
    LET m == answer.master
    IN  /\ answer.says = "data" => Grounded(m) /\ Intact(m)
        /\ answer.says = "damaged" => ~Grounded(m) \/ ~Intact(m)
        /\ answer.says = "limit" <=> answer.short

\* What is counted as allocated; a byte is a place in a dictionary.
Bytes(masters) == UNION {{m} \X (1..Length[m]) : m \in masters}
Decoded == {m \in Master : data[m] # None}
Held ==
    (IF phase \in {"new", "closed"} THEN 0 ELSE Context)
      + (IF phase \in {"scan", "ready"} THEN Directory ELSE 0)
      + Cardinality(records) * Record
      + (IF super THEN SuperLength ELSE 0)
      + Cardinality(Bytes(Decoded))

\* A cached dictionary stands on cached ones, and is right exactly when
\* nothing below it is damaged: a failed decode caches nothing and keeps no
\* memory.  What is counted is what is held, never more than the limit, and
\* nothing of a closed reader.
CachedRight ==
    /\ TypeOK
    /\ allocated = Held
    /\ allocated <= MemoryLimit
    /\ \A m \in Master :
          data[m] # None =>
              /\ Grounded(m)
              /\ super
              /\ needs[m] \in Master => data[needs[m]] # None
              /\ data[m] = "right" <=> damaged \cap Below(m) = {}
==============================================================================
