----------------------------- MODULE MountCache -----------------------------
(***************************************************************************)
(* The decoded-file cache of the read-only mount (python/uc2/_mount.py,    *)
(* ArchiveFS), called by several threads.                                  *)
(*                                                                         *)
(* Every call runs under one lock, so calls exclude each other; what they  *)
(* do not exclude is the archive file changing under them.  A call is one  *)
(* step unless it has to decode: then eviction and decoding are steps of   *)
(* their own, and the archive may change between them.                     *)
(***************************************************************************)
EXTENDS Integers, Sequences, FiniteSets, SequencesExt

CONSTANTS
    Thread,         \* callers
    Member,         \* the archive's file entries, as UC2EntryInfo._index
    Size,           \* Size[m]: decoded size, in blocks
    Fault,          \* Fault[m]: what decoding m raises, or "none"
    Path,           \* the paths callers use
    Node,           \* Node[p]: the member at p, Folder or Missing
    Folder, Missing,
    CacheBytes,     \* cache_bytes, in blocks
    CacheEntries,   \* cache_entries
    MaxRead,        \* the largest read answered, 1 MiB, in blocks
    Nobody          \* the lock is free

ASSUME SizeType == Size \in [Member -> Nat]
ASSUME FaultType == Fault \in [Member -> {"none", "EIO", "ENOMEM"}]
ASSUME NodeType == Node \in [Path -> Member \cup {Folder, Missing}]
ASSUME NodesDiffer == Folder # Missing /\ {Folder, Missing} \cap Member = {}
\* The constructor's _positive.
ASSUME LimitsArePositive == {CacheBytes, CacheEntries, MaxRead} \subseteq Nat \ {0}
ASSUME NobodyIsNoThread == Nobody \notin Thread

VARIABLES
    cache,      \* decoded files, least recently used first
    cachedBytes,\* cached_bytes
    stamp,      \* whether the archive file still has its signature
    holder,     \* the thread inside the lock
    step,       \* of the call that holds the lock
    written,    \* blocks in the temporary file being filled
    tainted,    \* whether it was filled from a changed archive
    want,       \* per thread: the call it makes, or Idle
    answer,     \* per thread: the outcome of its last call
    file, pos   \* per thread: the path it reads through, and how far it is

vars == <<cache, cachedBytes, stamp, holder, step, written, tainted,
          want, answer, file, pos>>

reader == <<want, answer, file, pos>>

Outcome == {"none", "done", "data", "end", "EROFS", "ESTALE", "ENOENT",
            "EISDIR", "ENOTDIR", "EFBIG", "EIO", "ENOMEM", "EFAULT"}
Call == [op: {"none", "getattr", "readdir", "append", "open", "read"},
         path: Path \cup {Missing}, offset: Nat]
Idle == [op |-> "none", path |-> Missing, offset |-> 0]
NoAnswer == [outcome |-> "none", length |-> 0, original |-> TRUE]
Cached == [member: Member, original: BOOLEAN]

TypeOK ==
    /\ cache \in Seq(Cached)
    /\ cachedBytes \in Nat
    /\ stamp \in BOOLEAN
    /\ holder \in Thread \cup {Nobody}
    /\ step \in {"enter", "evict", "decode", "insert", "serve"}
    /\ written \in Nat
    /\ tainted \in BOOLEAN
    /\ want \in [Thread -> Call]
    /\ answer \in [Thread -> [outcome: Outcome, length: Nat, original: BOOLEAN]]
    /\ file \in [Thread -> Path \cup {Missing}]
    /\ pos \in [Thread -> Nat]

-----------------------------------------------------------------------------
Held == {cache[i].member : i \in DOMAIN cache}
Copy(m) == CHOOSE f \in ToSet(cache) : f.member = m

\* OrderedDict.move_to_end.
Touch(m) ==
    \E i \in DOMAIN cache :
        /\ cache[i].member = m
        /\ cache' = Append(RemoveAt(cache, i), cache[i])

Asked(t) == want[t]
Target(t) == Node[want[t].path]

Request(t, op, path, offset) ==
    /\ want[t] = Idle
    /\ want' = [want EXCEPT ![t] = [op |-> op, path |-> path, offset |-> offset]]
    /\ answer' = [answer EXCEPT ![t] = NoAnswer]
    /\ UNCHANGED <<cache, cachedBytes, stamp, holder, step, written, tainted>>

\* A thread looks at a path or tries to open it for writing, or opens it to
\* read it from the start.
Look(t, op, path) ==
    /\ Request(t, op, path, 0)
    /\ UNCHANGED <<file, pos>>

Start(t, path) ==
    /\ Request(t, "open", path, 0)
    /\ file' = [file EXCEPT ![t] = path]
    /\ pos' = [pos EXCEPT ![t] = 0]

\* It reads on where the last answer ended, until an answer is empty or an error.
Continue(t) ==
    /\ file[t] # Missing
    /\ answer[t].outcome \in {"done", "data"}
    /\ Request(t, "read", file[t], pos[t])
    /\ UNCHANGED <<file, pos>>

Lock(t) ==
    /\ want[t] # Idle
    /\ holder = Nobody
    /\ holder' = t
    /\ step' = "enter"
    /\ UNCHANGED <<cache, cachedBytes, stamp, written, tainted, reader>>

\* The call ends and releases the lock.
Finish(t, a) ==
    /\ answer' = [answer EXCEPT ![t] = a]
    /\ IF a.outcome \in {"done", "data"}
       THEN /\ pos' = [pos EXCEPT ![t] = @ + a.length]
            /\ UNCHANGED file
       ELSE /\ pos' = [pos EXCEPT ![t] = 0]
            /\ file' = [file EXCEPT ![t] = Missing]
    /\ want' = [want EXCEPT ![t] = Idle]
    /\ holder' = Nobody
    /\ step' = "enter"
    /\ written' = 0
    /\ tainted' = FALSE

Say(outcome) == [NoAnswer EXCEPT !.outcome = outcome]

\* _node and the checks that need no data: how a call ends at once, if it does.
Early(t) ==
    LET n == Target(t)
        op == want[t].op
    IN  IF op = "append" THEN "EROFS"
        ELSE IF ~stamp THEN "ESTALE"
        ELSE IF n = Missing THEN "ENOENT"
        ELSE IF op = "getattr" THEN "done"
        ELSE IF op = "readdir" THEN IF n = Folder THEN "done" ELSE "ENOTDIR"
        ELSE IF n = Folder THEN "EISDIR"
        ELSE IF op = "read" /\ want[t].offset >= Size[n] THEN "end"
        ELSE "none"

EndEarly(t) ==
    /\ holder = t /\ step = "enter"
    /\ Early(t) # "none"
    /\ Finish(t, Say(Early(t)))
    /\ UNCHANGED <<cache, cachedBytes, stamp>>

Hit(t) ==
    /\ holder = t /\ step = "enter"
    /\ Early(t) = "none"
    /\ Target(t) \in Held
    /\ Touch(Target(t))
    /\ step' = "serve"
    /\ UNCHANGED <<cachedBytes, stamp, holder, written, tainted, reader>>

TooLarge(t) ==
    /\ holder = t /\ step = "enter"
    /\ Early(t) = "none"
    /\ Target(t) \notin Held
    /\ Size[Target(t)] > CacheBytes
    /\ Finish(t, Say("EFBIG"))
    /\ UNCHANGED <<cache, cachedBytes, stamp>>

Miss(t) ==
    /\ holder = t /\ step = "enter"
    /\ Early(t) = "none"
    /\ Target(t) \notin Held
    /\ Size[Target(t)] <= CacheBytes
    /\ step' = "evict"
    /\ UNCHANGED <<cache, cachedBytes, stamp, holder, written, tainted, reader>>

-----------------------------------------------------------------------------
(***************************************************************************)
(* _decoded after a miss.                                                  *)
(***************************************************************************)
\* Faulty variant: the incoming file is not counted.
CrowdedWithout(m) ==
    /\ cache # <<>>
    /\ \/ cachedBytes > CacheBytes
       \/ Len(cache) >= CacheEntries

Crowded(m) ==
    /\ cache # <<>>
    /\ \/ cachedBytes + Size[m] > CacheBytes
       \/ Len(cache) >= CacheEntries

Evict(t) ==
    /\ holder = t /\ step = "evict"
    /\ Crowded(Target(t))
    /\ cache' = Tail(cache)
    /\ cachedBytes' = cachedBytes - Size[Head(cache).member]
    /\ UNCHANGED <<stamp, holder, step, written, tainted, reader>>

BeginDecode(t) ==
    /\ holder = t /\ step = "evict"
    /\ ~Crowded(Target(t))
    /\ step' = "decode"
    /\ UNCHANGED <<cache, cachedBytes, stamp, holder, written, tainted, reader>>

\* A changed archive may hold any entry under the name, up to the limit the
\* reader is given.
Decode(t) ==
    /\ holder = t /\ step = "decode"
    /\ written < (IF stamp THEN Size[Target(t)] ELSE CacheBytes)
    /\ written' = written + 1
    /\ tainted' = (tainted \/ ~stamp)
    /\ UNCHANGED <<cache, cachedBytes, stamp, holder, step, reader>>

\* Faulty variant: a failed decode is tried again.
DecodeRetried(t, outcome) ==
    /\ holder = t /\ step = "decode"
    /\ IF stamp THEN outcome = Fault[Target(t)] /\ outcome # "none"
       ELSE outcome \in {"EIO", "ENOMEM", "EFAULT"}
    /\ step' = "evict"
    /\ written' = 0
    /\ UNCHANGED <<cache, cachedBytes, stamp, holder, tainted, reader>>

\* The reader raises: by the member's own fault, or because of the change.
DecodeFails(t, outcome) ==
    /\ holder = t /\ step = "decode"
    /\ IF stamp THEN outcome = Fault[Target(t)] /\ outcome # "none"
       ELSE outcome \in {"EIO", "ENOMEM", "EFAULT"}
    /\ Finish(t, Say(outcome))
    /\ UNCHANGED <<cache, cachedBytes, stamp>>

\* The reader has verified the checksum of what it wrote.
DecodeEnds(t) ==
    /\ holder = t /\ step = "decode"
    /\ stamp => Fault[Target(t)] = "none" /\ written = Size[Target(t)]
    /\ tainted' = (tainted \/ ~stamp)
    /\ step' = "insert"
    /\ UNCHANGED <<cache, cachedBytes, stamp, holder, written, reader>>

\* _unchanged after the decode.
Discard(t) ==
    /\ holder = t /\ step = "insert"
    /\ ~stamp
    /\ Finish(t, Say("ESTALE"))
    /\ UNCHANGED <<cache, cachedBytes, stamp>>

Keep(t) ==
    /\ cache' = Append(cache, [member |-> Target(t), original |-> ~tainted])
    /\ cachedBytes' = cachedBytes + Size[Target(t)]
    /\ step' = "serve"
    /\ written' = 0
    /\ tainted' = FALSE
    /\ UNCHANGED <<stamp, holder, reader>>

\* Faulty variant: the archive is not looked at again after the decode.
InsertUnchecked(t) ==
    /\ holder = t /\ step = "insert"
    /\ Keep(t)

Insert(t) ==
    /\ holder = t /\ step = "insert"
    /\ stamp
    /\ Keep(t)

-----------------------------------------------------------------------------
Least(a, b) == IF a <= b THEN a ELSE b

\* Faulty variant: the end of the file does not limit an answer.
ServePastEnd(t) ==
    LET offset == want[t].offset
    IN  /\ holder = t /\ step = "serve"
        /\ IF want[t].op = "open"
           THEN Finish(t, Say("done"))
           ELSE \E size \in 1..(MaxRead + 1) :
                    Finish(t, [outcome |-> "data", length |-> Least(size, MaxRead),
                               original |-> Copy(Target(t)).original])
        /\ UNCHANGED <<cache, cachedBytes, stamp>>

\* open answers a handle; read answers what is left, up to its own limits.
Serve(t) ==
    LET m == Target(t)
        offset == want[t].offset
    IN  /\ holder = t /\ step = "serve"
        /\ IF want[t].op = "open"
           THEN Finish(t, Say("done"))
           ELSE \E size \in 1..(MaxRead + 1) :
                    Finish(t, [outcome |-> "data",
                               length |-> Least(Least(size, MaxRead), Size[m] - offset),
                               original |-> Copy(m).original])
        /\ UNCHANGED <<cache, cachedBytes, stamp>>

\* Somebody writes to the archive file; its size or a timestamp changes.
ArchiveChanges ==
    /\ stamp
    /\ stamp' = FALSE
    /\ UNCHANGED <<cache, cachedBytes, holder, step, written, tainted, reader>>

-----------------------------------------------------------------------------
Init ==
    /\ cache = <<>> /\ cachedBytes = 0 /\ stamp = TRUE
    /\ holder = Nobody /\ step = "enter" /\ written = 0 /\ tainted = FALSE
    /\ want = [t \in Thread |-> Idle]
    /\ answer = [t \in Thread |-> NoAnswer]
    /\ file = [t \in Thread |-> Missing]
    /\ pos = [t \in Thread |-> 0]

\* What the thread inside the lock does.
Inside(t) ==
    \/ EndEarly(t) \/ Hit(t) \/ TooLarge(t) \/ Miss(t)
    \/ Evict(t) \/ BeginDecode(t) \/ Decode(t) \/ DecodeEnds(t)
    \/ \E outcome \in Outcome : DecodeFails(t, outcome)
    \/ Discard(t) \/ Insert(t) \/ Serve(t)

Next ==
    \/ \E t \in Thread :
          \/ \E p \in Path : \/ Look(t, "getattr", p) \/ Look(t, "readdir", p)
                             \/ Look(t, "append", p)
                             \/ Start(t, p)
          \/ Continue(t) \/ Lock(t) \/ Inside(t)
    \/ ArchiveChanges

Spec == Init /\ [][Next]_vars

-----------------------------------------------------------------------------
(***************************************************************************)
(* Properties.                                                             *)
(***************************************************************************)
\* No file is cached twice, so the blocks of the cache are those of its members.
OnceEach == \A i, j \in DOMAIN cache : cache[i].member = cache[j].member => i = j
Blocks(members) == UNION {{m} \X (1..Size[m]) : m \in members}

\* --cache-mib bounds the bytes on disk, the file being decoded included, and
\* --cache-entries the files, as long as the archive is left unchanged; and
\* cached_bytes is what the cached files hold, also after a decode that failed
\* between an eviction and an insertion.
DiskBounded ==
    /\ TypeOK
    /\ OnceEach
    /\ cachedBytes = Cardinality(Blocks(Held))
    /\ stamp => cachedBytes + written <= CacheBytes
    /\ cachedBytes <= CacheBytes
    /\ Len(cache) <= CacheEntries

\* Only files that decoded and verified are in the cache, once each, and none
\* comes from the archive after it changed.
OnlyVerified ==
    /\ \A f \in ToSet(cache) : Fault[f.member] = "none" /\ f.original
    /\ OnceEach

\* A thread that reads a file to its end, answer by answer, has had each of
\* its bytes once, whatever other threads evicted meanwhile.
ReadsWholeFile ==
    \A t \in Thread :
        /\ holder = t /\ step = "enter" /\ want[t].op = "read" /\ Early(t) = "end"
              => pos[t] = Size[Target(t)]
        /\ answer[t].outcome = "data" =>
              /\ answer[t].original
              /\ answer[t].length \in 1..MaxRead

\* How many steps the call inside the lock may still take.
Distance ==
    CASE step = "enter" -> CacheEntries + CacheBytes + 4
      [] step = "evict" -> Len(cache) + CacheBytes + 3
      [] step = "decode" -> CacheBytes - written + 2
      [] step = "insert" -> 1
      [] step = "serve" -> 0

\* Each step of the call inside the lock brings it nearer to its end, whatever has
\* to be evicted or fails to decode.
Nearer == \A t \in Thread : Inside(t) => holder' = Nobody \/ Distance' < Distance

\* The call inside the lock can always go on, and so many steps end it: no call
\* keeps the lock for ever.
CallsEnd ==
    /\ [](\A t \in Thread : holder = t => ENABLED Inside(t))
    /\ [][Nearer]_vars

=============================================================================
