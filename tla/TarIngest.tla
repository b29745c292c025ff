------------------------------ MODULE TarIngest ------------------------------
(***************************************************************************)
(* uc2 --ingest-tar: uc2_tar_read() (cli/src/ingest_tar.c) turns a tar     *)
(* stream into the writer's entries.  An item of the stream is a header    *)
(* with its payload, or a block of zeros; extension items hold for the     *)
(* next member, and global ones for all that follow.  Paths are sequences  *)
(* of characters, numbers sequences of bytes.  A block that is cut short   *)
(* is an item of its own.                                                  *)
(***************************************************************************)
EXTENDS Integers, Sequences, FiniteSets, SequencesExt

CONSTANTS Streams,     \* the tar streams
          BITS,        \* of a number (64)
          BLOCK,       \* bytes of a block (512)
          SIZE_LIMIT,  \* UINT32_MAX
          PATH_LIMIT, EXT_LIMIT, EXT_COUNT, DIR_LIMIT, DEPTH,
          YEARS        \* the times with a DOS date

VARIABLES tape,        \* what is left of the stream
          whole,       \* the stream
          local, global, \* overrides: [path, size, mtime], each <<>> or <<value>>
          extensions,  \* <<count, bytes>> before the next member
          dirs,        \* the table of directories: path -> identifier
          entries,     \* the writer's
          status
tar == <<tape, whole, local, global, extensions, dirs, entries, status>>

NoOverrides == [path |-> <<>>, size |-> <<>>, mtime |-> <<>>]
Rest(s) == SubSeq(s, 2, Len(s))
LastSlash(p) == LET at == {i \in DOMAIN p : p[i] = "/"} IN IF at = {} THEN 0 ELSE CHOOSE i \in at : \A j \in at : j <= i
------------------------------------------------------------------------------
(* number(): octal digits between spaces, or a binary number behind a set  *)
(* bit; -1 for what is neither, or does not fit.                           *)
Space == 32
Octal(c) == c \in 48..55
Shifted(v, base, digit) == IF v < 0 \/ v >= 2^BITS \div base THEN -1 ELSE v * base + digit
Binary(s) == IF s[1] >= 192 THEN -1 ELSE FoldLeft(LAMBDA v, c : Shifted(v, 256, c), s[1] - 128, Rest(s))
RECURSIVE OctalFrom(_, _)
OctalFrom(s, v) ==
    IF s # <<>> /\ Octal(s[1]) THEN OctalFrom(Rest(s), Shifted(v, 8, s[1] - 48))
    ELSE IF Range(s) \subseteq {Space, 0} THEN v ELSE -1
RECURSIVE Unspaced(_)
Unspaced(s) == IF s # <<>> /\ s[1] = Space THEN Unspaced(Rest(s)) ELSE s
Number(s) == IF s[1] >= 128 THEN Binary(s) ELSE OctalFrom(Unspaced(s), 0)

(* decimal(): digits, of a time also a fraction; -1 for what is neither,   *)
(* or does not fit.                                                        *)
Digits == 48..57
Point == 46
Fraction(s) == Len(s) > 1 /\ s[1] = Point /\ Range(Rest(s)) \subseteq Digits
Tenfold(v, digit) == IF v < 0 \/ v > (2^BITS - 10) \div 10 THEN -1 ELSE v * 10 + digit
Decimal(s, fraction) ==
    LET n == CHOOSE n \in 0..Len(s) : Range(SubSeq(s, 1, n)) \subseteq Digits /\ (n = Len(s) \/ s[n + 1] \notin Digits)
        tail == SubSeq(s, n + 1, Len(s))
    IN  IF n > 0 /\ (tail = <<>> \/ (fraction /\ Fraction(tail)))
        THEN FoldLeft(LAMBDA v, c : Tenfold(v, c - 48), 0, SubSeq(s, 1, n)) ELSE -1

(* clean_path(): the path without leading "./", a directory's without      *)
(* trailing slashes; <<"bad">> is refused, <<>> is the root.               *)
Bad == <<"bad">>
RECURSIVE NoDots(_)
NoDots(p) == IF Len(p) > 1 /\ p[1] = "." /\ p[2] = "/" THEN NoDots(SubSeq(p, 3, Len(p))) ELSE p
RECURSIVE NoSlashes(_)
NoSlashes(p) == IF p # <<>> /\ Last(p) = "/" THEN NoSlashes(Front(p)) ELSE p
RECURSIVE Parts(_)
Parts(p) == LET at == LastSlash(p) IN IF at = 0 THEN <<p>> ELSE Append(Parts(SubSeq(p, 1, at - 1)), SubSeq(p, at + 1, Len(p)))
Allowed(part) == part \notin {<<>>, <<".">>, <<".", ".">>} /\ Range(part) \cap {"\\", ":", "CTRL"} = {}
Cleaned(p, directory) ==
    IF directory /\ p \in {<<>>, <<".">>} THEN <<>>
    ELSE IF p = <<>> THEN Bad
    ELSE IF Len(Parts(p)) <= DEPTH /\ \A i \in DOMAIN Parts(p) : Allowed(Parts(p)[i]) THEN p ELSE Bad
CleanPath(p, directory) ==
    IF p = <<>> \/ p[1] = "/" THEN Bad ELSE Cleaned(IF directory THEN NoSlashes(NoDots(p)) ELSE NoDots(p), directory)

Timestamp(seconds) == IF seconds \in YEARS THEN seconds \div 2 ELSE 0
------------------------------------------------------------------------------
(* pax(): a record at a time; a global header gives times only.  A record  *)
(* is formed if its length, its key and its last byte are what they should *)
(* be.                                                                     *)
NumberOf(record) == Decimal(record.number, record.key = "mtime")
Applied(o, record, isGlobal) ==
    IF record.key = "path" THEN [o EXCEPT !.path = <<record.text>>]
    ELSE IF record.key = "size" THEN [o EXCEPT !.size = <<NumberOf(record)>>]
    ELSE IF record.key = "mtime" THEN [o EXCEPT !.mtime = <<NumberOf(record)>>] ELSE o
RecordGood(record, isGlobal) ==
    /\ record.formed
    /\ record.key \in {"path", "size", "mtime", "uid", "gid", "uname", "gname", "atime", "ctime"}
    /\ record.key \in {"path", "size"} => ~isGlobal
    /\ record.key \in {"size", "mtime"} => NumberOf(record) >= 0
    /\ record.key = "path" => record.text # <<>> /\ Len(record.text) < PATH_LIMIT
Pax(o, records, isGlobal) == FoldLeft(LAMBDA acc, r : Applied(acc, r, isGlobal), o, records)
PaxGood(records, isGlobal) == \A i \in DOMAIN records : RecordGood(records[i], isGlobal)

(* parents(): the directories on the way, and the member itself if it is   *)
(* one; those not in the table are added, and only the last has its date.  *)
Ways(p, directory) == {i \in DOMAIN p : p[i] = "/" \/ (i = Len(p) /\ directory)}
Way(p, i) == IF p[i] = "/" THEN SubSeq(p, 1, i - 1) ELSE p
UpOf(known, p) == IF LastSlash(p) = 0 THEN 0 ELSE known[SubSeq(p, 1, LastSlash(p) - 1)]
Leaf(p) == SubSeq(p, LastSlash(p) + 1, Len(p))
Conflict(es, parent, name, directory) == \E i \in DOMAIN es : es[i].parent = parent /\ es[i].name = name /\ (directory \/ es[i].dir)
Entry(isDir, parent, name, date, attr, data) == [dir |-> isDir, parent |-> parent, name |-> name, date |-> date, attr |-> attr, data |-> data]

\* The work so far: the table, the entries, and whether nothing was refused.
AddDirectory(w, p, date, attr) ==
    IF ~w.good \/ p \in DOMAIN w.dirs THEN w
    ELSE IF Cardinality(DOMAIN w.dirs) = DIR_LIMIT \/ Conflict(w.entries, UpOf(w.dirs, p), Leaf(p), TRUE) THEN [w EXCEPT !.good = FALSE]
    ELSE [w EXCEPT !.entries = Append(@, Entry(TRUE, UpOf(w.dirs, p), Leaf(p), date, attr, <<>>)),
                   !.dirs = [q \in DOMAIN @ \cup {p} |-> IF q = p THEN Len(w.entries) + 1 ELSE @[q]]]
\* Faulty variant: the date of the member goes to the directories it implies.
ParentsDated(w, p, directory, date, attr) ==
    FoldLeft(LAMBDA acc, i : AddDirectory(acc, Way(p, i), date, attr), w, SetToSortSeq(Ways(p, directory), <))
Parents(w, p, directory, date, attr) ==
    FoldLeft(LAMBDA acc, i : IF p[i] = "/" THEN AddDirectory(acc, Way(p, i), 0, 0) ELSE AddDirectory(acc, p, date, attr),
             w, SetToSortSeq(Ways(p, directory), <))
AddFile(w, p, date, attr, data) ==
    IF ~w.good \/ Conflict(w.entries, UpOf(w.dirs, p), Leaf(p), FALSE) THEN [w EXCEPT !.good = FALSE]
    ELSE [w EXCEPT !.entries = Append(@, Entry(FALSE, UpOf(w.dirs, p), Leaf(p), date, attr, data))]
------------------------------------------------------------------------------
TarInit ==
    /\ whole \in Streams /\ tape = whole
    /\ local = NoOverrides /\ global = NoOverrides /\ extensions = <<0, 0>>
    /\ dirs = [p \in {} |-> 0] /\ entries = <<>> /\ status = "reading"
Fail == status' = "failed" /\ UNCHANGED <<local, global, extensions, dirs, entries>>
HeaderGood(h) == h.sumGood /\ Number(h.size) >= 0 /\ Number(h.mode) >= 0 /\ Number(h.mtime) >= 0
Extension(h) == h.type \in {"x", "g", "L"}

\* Two blocks of zeros end the stream, and only whole ones of them follow, up
\* to a limit.
EndMarker ==
    /\ status = "reading" /\ tape # <<>> /\ tape[1].type = "zero"
    /\ IF extensions[1] = 0 /\ Len(tape) > 1 /\ (\A i \in DOMAIN tape : tape[i].type = "zero") /\ (Len(tape) - 2) * BLOCK <= EXT_LIMIT
       THEN status' = "done" /\ UNCHANGED <<local, global, extensions, dirs, entries>>
       ELSE Fail
    /\ UNCHANGED <<tape, whole>>
Truncated ==
    /\ status = "reading" /\ (tape # <<>> => tape[1].type = "part") /\ Fail /\ UNCHANGED <<tape, whole>>

ReadExtension ==
    /\ status = "reading" /\ tape # <<>> /\ Extension(tape[1])
    /\ tape' = Rest(tape)
    /\ LET h == tape[1]
           isGlobal == h.type = "g"
       IN  IF \/ ~HeaderGood(h) \/ extensions[1] = EXT_COUNT \/ extensions[2] + Number(h.size) > EXT_LIMIT \/ ~h.padGood
              \/ h.type # "L" /\ ~PaxGood(h.records, isGlobal)
              \/ h.type = "L" /\ Len(h.text) \notin 1..PATH_LIMIT - 1
           THEN Fail
           ELSE /\ extensions' = <<extensions[1] + 1, extensions[2] + Number(h.size)>>
                /\ local' = IF h.type = "L" THEN [local EXCEPT !.path = <<h.text>>]
                            ELSE IF isGlobal THEN local ELSE Pax(local, h.records, isGlobal)
                /\ global' = IF isGlobal THEN Pax(global, h.records, isGlobal) ELSE global
                /\ UNCHANGED <<dirs, entries, status>>
    /\ UNCHANGED whole

\* What the overrides make of a header.
Named(h) == IF local.path # <<>> THEN local.path[1]
            ELSE IF h.ustar /\ h.prefix # <<>> THEN h.prefix \o <<"/">> \o h.name ELSE h.name
Sized(h) == IF local.size # <<>> THEN local.size[1] ELSE Number(h.size)
Dated(h) == Timestamp(IF local.mtime # <<>> THEN local.mtime[1] ELSE IF global.mtime # <<>> THEN global.mtime[1] ELSE Number(h.mtime))
\* A directory of the oldest tar is an empty file whose name ends in a slash.
IsDirectory(h) == h.type = "5" \/ (h.type = "V7" /\ Sized(h) = 0 /\ Named(h) # <<>> /\ Last(Named(h)) = "/")
Writable(mode) == \E k \in 0..2 : (mode \div 8^k) % 4 >= 2
Attr(h) == IF Writable(Number(h.mode)) THEN 0 ELSE 1

Added(h, p, directory) ==
    LET w == [dirs |-> dirs, entries |-> entries, good |-> TRUE]
        up == IF p = <<>> THEN w ELSE Parents(w, p, directory, Dated(h), Attr(h))
    IN  IF directory THEN up ELSE AddFile(up, p, Dated(h), Attr(h), h.payload)
Store(w) ==
    IF ~w.good THEN Fail
    ELSE /\ dirs' = w.dirs /\ entries' = w.entries
         /\ local' = NoOverrides /\ extensions' = <<0, 0>>
         /\ UNCHANGED <<global, status>>
Member(h) == h.type \in {"V7", "0", "5"}
ReadMember ==
    /\ status = "reading" /\ tape # <<>> /\ tape[1].type \notin {"zero", "part"} /\ ~Extension(tape[1])
    /\ tape' = Rest(tape)
    /\ LET h == tape[1]
           p == CleanPath(Named(h), IsDirectory(h))
       IN  IF ~HeaderGood(h) \/ ~Member(h) THEN Fail
           ELSE IF Sized(h) > SIZE_LIMIT \/ (IsDirectory(h) /\ Sized(h) > 0) \/ p = Bad \/ Sized(h) # Len(h.payload) \/ ~h.padGood THEN Fail
           ELSE Store(Added(h, p, IsDirectory(h)))
    /\ UNCHANGED whole

TarNext == EndMarker \/ Truncated \/ ReadExtension \/ ReadMember
------------------------------------------------------------------------------
(* What the stream says, member by member: an extension is for the first   *)
(* member behind it, of two for one the later counts, and a global time    *)
(* holds from its place on.                                                *)
MemberAt(i) == whole[i].type # "zero" /\ ~Extension(whole[i])
Before(i) == {j \in 1..i - 1 : \A k \in j..i - 1 : Extension(whole[k])}
Given(i, key, places) ==    \* the records of that key there, in order
    FlattenSeq([n \in 1..Len(whole) |->
        IF n \notin places \/ ~Extension(whole[n]) THEN <<>>
        ELSE IF whole[n].type = "L" THEN IF key = "path" THEN <<whole[n].text>> ELSE <<>>
        ELSE LET of == SelectSeq(whole[n].records, LAMBDA r : r.key = key)
             IN  [m \in DOMAIN of |-> IF key = "path" THEN of[m].text ELSE NumberOf(of[m])]])
Locals(i) == {j \in Before(i) : whole[j].type # "g"}
Globals(i) == {j \in 1..i - 1 : whole[j].type = "g"}
GivenName(i, given, h) ==
    IF given # <<>> THEN Last(given) ELSE IF h.ustar /\ h.prefix # <<>> THEN h.prefix \o <<"/">> \o h.name ELSE h.name
RawPath(i) == GivenName(i, Given(i, "path", Locals(i)), whole[i])
PathOf(i) == NoSlashes(NoDots(RawPath(i)))
TimeOf(i) ==
    LET all == Given(i, "mtime", Globals(i)) \o Given(i, "mtime", Locals(i))
        of == IF Given(i, "mtime", Locals(i)) # <<>> THEN Given(i, "mtime", Locals(i)) ELSE all
    IN  Timestamp(IF of # <<>> THEN Last(of) ELSE Number(whole[i].mtime))
DirectoryAt(i) == whole[i].type = "5" \/ (whole[i].type = "V7" /\ whole[i].payload = <<>> /\ Last(RawPath(i)) = "/")
RECURSIVE FullPath(_)
FullPath(i) == IF entries[i].parent = 0 THEN entries[i].name ELSE FullPath(entries[i].parent) \o <<"/">> \o entries[i].name
Members == {i \in DOMAIN whole : MemberAt(i)}
Within(i, p) == Len(PathOf(i)) > Len(p) /\ SubSeq(PathOf(i), 1, Len(p) + 1) = Append(p, "/")
DateOfDir(p) ==   \* a directory implied before its own member keeps the date 0
    LET own == {i \in Members : DirectoryAt(i) /\ PathOf(i) = p}
        first == {i \in Members : PathOf(i) = p \/ Within(i, p)}
        one == CHOOSE i \in first : \A j \in first : i <= j
    IN  IF one \in own THEN TimeOf(one) ELSE 0

(* A stream that is taken gives exactly its files, in order, with their    *)
(* data and times, below directories that are each made once and before    *)
(* what is in them.                                                        *)
TarKept ==
    status = "done" =>
        LET files == SelectSeq([i \in DOMAIN entries |-> i], LAMBDA i : ~entries[i].dir)
            given == SelectSeq([i \in DOMAIN whole |-> i], LAMBDA i : MemberAt(i) /\ ~DirectoryAt(i))
        IN  /\ [k \in DOMAIN files |-> <<FullPath(files[k]), entries[files[k]].data, entries[files[k]].date>>]
               = [k \in DOMAIN given |-> <<PathOf(given[k]), whole[given[k]].payload, TimeOf(given[k])>>]
            /\ \A i, j \in DOMAIN entries : i # j /\ entries[i].dir => entries[i].parent < i /\ FullPath(i) # FullPath(j)
            /\ \A i \in DOMAIN entries : entries[i].dir => entries[i].date = DateOfDir(FullPath(i))
==============================================================================
