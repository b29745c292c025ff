----------------------------- MODULE CommandLine -----------------------------
(***************************************************************************)
(* One run of the program (cli/src/main.c), or two: create an archive, then*)
(* list, test, print or extract what patterns select of it.  Creating scans*)
(* the inputs into the writer's entries and commits a staged output;       *)
(* reading takes the central directory record by record (lib/src/          *)
(* decompress.c) into a tree, marks what the patterns select, and visits   *)
(* it with a single buffer for the path.                                   *)
(*                                                                         *)
(* Names, patterns and paths are sequences of characters, for the program  *)
(* cuts its paths by counting them.                                        *)
(***************************************************************************)
EXTENDS Integers, Sequences, FiniteSets, SequencesExt

CONSTANTS Jobs,        \* the command lines, with what they find
          Cp850,       \* the characters an archive can name
          Width(_),    \* the bytes of a character in UTF-8
          Order(_),    \* its place in the character set
          Lower(_), Upper(_),
          STEM, EXT,   \* 8 and 3
          NAME_CHARS, NAME_BYTES, \* 255 and 299
          DEPTH,       \* 64
          ROOM         \* PATH_MAX

VARIABLES job, stage,
          archive,     \* the records of the archive's central directory
          entries,     \* the writer's
          todo,        \* directories to scan; patterns to match; directories to visit
          tree,        \* the nodes, the root first, and each one's children in order
          path,        \* the buffer up to path->ptr
          disk,        \* path -> file or directory
          said,        \* the nodes listed, tested or printed
          error        \* had_error
command == <<job, stage, archive, entries, todo, tree, path, disk, said, error>>

Slash == "/"
Least(a, b) == IF a < b THEN a ELSE b
Cut(s, from, to) == SubSeq(s, from, Least(to, Len(s)))
Rest(s) == SubSeq(s, 2, Len(s))
LastPlace(s, c) == LET at == {i \in DOMAIN s : s[i] = c} IN IF at = {} THEN 0 ELSE CHOOSE i \in at : \A j \in at : j <= i
FirstPlace(s, c) == LET at == {i \in DOMAIN s : s[i] = c} IN IF at = {} THEN 0 ELSE CHOOSE i \in at : \A j \in at : j >= i
Padded(s, n) == s \o [i \in 1..(n - Len(s)) |-> " "]
RECURSIVE Trimmed(_)
Trimmed(s) == IF s # <<>> /\ Last(s) = " " THEN Trimmed(Front(s)) ELSE s
Bytes(s) == FoldLeft(LAMBDA n, c : n + Width(c), 0, s)
Stop == stage' = "failed"
------------------------------------------------------------------------------
(* Names.  The DOS name is made from the long one and is read only without *)
(* it; a NUL ends its first part and is followed by the second.            *)
DosName(name) ==
    LET dot == LastPlace(name, ".")
        stem == IF dot = 0 THEN name ELSE SubSeq(name, 1, dot - 1)
        ext == IF dot = 0 THEN <<>> ELSE SubSeq(name, dot + 1, Len(name))
        Up(s) == [i \in DOMAIN s |-> Upper(s[i])]
    IN  Padded(Up(Cut(stem, 1, STEM)), STEM) \o Padded(Up(Cut(ext, 1, EXT)), EXT)

Part(s, from, n) ==
    LET whole == Cut(s, from, from + n - 1)
        nul == FirstPlace(whole, "NUL")
    IN  IF nul = 0 THEN [part |-> whole, next |-> from + n] ELSE [part |-> SubSeq(whole, 1, nul - 1), next |-> from + nul]
CopyDosName(s) == <<Trimmed(Part(s, 1, STEM).part), Trimmed(Part(s, Part(s, 1, STEM).next, EXT).part)>>
AssembleName(parts) ==
    LET s == IF parts[2] = <<>> THEN parts[1] ELSE parts[1] \o <<".">> \o parts[2]
    IN  [i \in DOMAIN s |-> Lower(s[i])]

EncodeName(name) ==
    /\ name \notin {<<>>, <<".">>, <<".", ".">>}
    /\ Range(name) \subseteq Cp850 \ {Slash, "\\", ":"}
    /\ Len(name) <= NAME_CHARS /\ Bytes(name) <= NAME_BYTES
\* copy_long_name(): a name without room is not taken.
LongName(tags) ==
    LET long == SelectSeq(tags, LAMBDA t : t.tag = "LONGNAME" /\ Bytes(t.value) <= NAME_BYTES)
    IN  IF long = <<>> THEN <<>> ELSE Last(long).value
EntryName(r) == IF LongName(r.tags) # <<>> THEN LongName(r.tags) ELSE AssembleName(CopyDosName(r.dos))
------------------------------------------------------------------------------
(* Creating.  writer_scan(): readdir() gives a directory's entries in any  *)
(* order.  todo holds the open directories, each with the inputs to come.  *)
CreateInit(j) ==
    /\ stage = "scan" /\ todo = <<[id |-> 0, depth |-> 0, next |-> j.inputs]>>

Conflict(parent, name, directory) ==
    \E i \in DOMAIN entries :
        entries[i].parent = parent /\ entries[i].name = name /\ (directory \/ entries[i].dir)

After(frame, input) == [frame EXCEPT !.next = IF @[1] = {input} THEN Rest(@) ELSE <<@[1] \ {input}>> \o Rest(@)]

Scannable(frame, input) ==
    /\ frame.depth <= DEPTH
    /\ input.kind \in {"file", "dir"}       \* neither a link, nor changed while it was read
    /\ EncodeName(input.name)
    /\ input.kind = "dir" => frame.depth < DEPTH
    /\ ~Conflict(frame.id, input.name, input.kind = "dir")

ScanOne(frame, input) ==
    /\ entries' = Append(entries, [dir |-> input.kind = "dir", parent |-> frame.id, name |-> input.name, data |-> input.data])
    /\ todo' = Append(Front(todo), After(frame, input))
               \o IF input.kind = "dir"
                  THEN <<[id |-> Len(entries) + 1, depth |-> frame.depth + 1,
                          next |-> IF input.kids = {} THEN <<>> ELSE <<input.kids>>]>>
                  ELSE <<>>
    /\ UNCHANGED stage

WriterScan ==
    /\ stage = "scan" /\ todo # <<>> /\ Last(todo).next # <<>>
    /\ \E input \in Last(todo).next[1] :
        IF Scannable(Last(todo), input) THEN ScanOne(Last(todo), input) ELSE Stop /\ UNCHANGED <<entries, todo>>
    /\ UNCHANGED <<job, archive, tree, path, disk, said, error>>

CloseDirectory ==
    /\ stage = "scan" /\ todo # <<>> /\ Last(todo).next = <<>>
    /\ todo' = Front(todo)
    /\ stage' = IF Len(todo) = 1 THEN "output" ELSE stage
    /\ UNCHANGED <<job, archive, entries, tree, path, disk, said, error>>

\* The central directory: directories, then files, each with its long name.
Recorded(i) ==
    [type |-> IF entries[i].dir THEN "dir" ELSE "file", parent |-> entries[i].parent, id |-> IF entries[i].dir THEN i ELSE 0,
     dos |-> DosName(entries[i].name), tags |-> <<[tag |-> "LONGNAME", value |-> entries[i].name, fits |-> TRUE]>>,
     volume |-> 1, data |-> entries[i].data]
EndRecord == [type |-> "end", parent |-> 0, id |-> 0, dos |-> <<>>, tags |-> <<>>, volume |-> 1, data |-> <<>>]
WholeDirectory ==
    LET all == [i \in DOMAIN entries |-> Recorded(i)]
        Are(type) == SelectSeq(all, LAMBDA r : r.type = type)
    IN  Are("dir") \o Are("file") \o <<EndRecord>>

\* stage_output(), uc2_writer_finish() and commit_staged_output(): each may
\* fail, and the staged file is then removed.
StageOutput ==
    /\ stage = "output"
    /\ stage' \in {"finish", "failed"}
    /\ UNCHANGED <<job, archive, entries, todo, tree, path, disk, said, error>>
WriterFinish ==
    /\ stage = "finish"
    /\ \/ Stop /\ UNCHANGED todo
       \/ stage' = "commit" /\ todo' = <<WholeDirectory>>
    /\ UNCHANGED <<job, archive, entries, tree, path, disk, said, error>>

\* Faulty variant: the old file is removed before the new one takes its name.
CommitRemoving ==
    /\ stage = "commit"
    /\ \/ Stop /\ archive' = <<>>
       \/ stage' = "open" /\ archive' = todo[1]
    /\ todo' = <<>>
    /\ UNCHANGED <<job, entries, tree, path, disk, said, error>>
CommitStaged ==
    /\ stage = "commit"
    /\ \/ Stop /\ UNCHANGED archive
       \/ stage' = "open" /\ archive' = todo[1]
    /\ todo' = <<>>
    /\ UNCHANGED <<job, entries, tree, path, disk, said, error>>
------------------------------------------------------------------------------
(* Reading.  start_read() and uc2_identify(): the heads it accepts.        *)
Identify(h) == h.magic = "UC2" /\ h.length = h.length2 /\ h.volume = 1 /\ h.offset < h.length
StartRead(h) == ~h.short /\ Identify(h) /\ h.version <= 203 /\ h.sumGood

RootNode == [name |-> <<>>, dir |-> TRUE, id |-> 0, parent |-> 0, data |-> <<>>, version |-> 0, visit |-> FALSE, marked |-> FALSE]
OpenArchive ==
    /\ stage = "open"
    /\ IF StartRead(job.head)
       THEN stage' = "read" /\ UNCHANGED error
       ELSE Stop /\ error' = TRUE
    /\ todo' = archive /\ tree' = [node |-> <<RootNode>>, kids |-> <<<<>>>>, asked |-> {}]
    /\ UNCHANGED <<job, archive, entries, path, disk, said>>

\* new_entry(): an entry of no directory read before goes to the root; a file
\* goes before the first entry of its name, which is then an older version,
\* a directory too.
Enclosing(t, r) ==
    LET at == {k \in DOMAIN t.node : k > 1 /\ t.node[k].dir /\ t.node[k].id = r.parent}
    IN  IF r.parent = 0 \/ at = {} THEN 1 ELSE CHOOSE k \in at : \A j \in at : k <= j
Older(t, up, r, name) == {i \in DOMAIN t.kids[up] : r.type = "file" /\ t.node[t.kids[up][i]].name = name}
\* Faulty variant: the newest of a name comes last.
InsertedLast(kids, older, k) == Append(kids, k)
Inserted(kids, older, k) ==
    IF older = {} THEN Append(kids, k)
    ELSE LET at == CHOOSE i \in older : \A j \in older : i <= j IN InsertAt(kids, at, k)
Joined(t, r, up, name, older, k) ==
    [t EXCEPT !.node = Append([i \in DOMAIN @ |-> IF \E j \in older : t.kids[up][j] = i THEN [@[i] EXCEPT !.version = @ + 1] ELSE @[i]],
                              [RootNode EXCEPT !.name = name, !.dir = (r.type = "dir"), !.id = r.id, !.parent = up, !.data = r.data]),
              !.kids = Append([@ EXCEPT ![up] = Inserted(@, older, k)], <<>>)]
NewEntry(t, r, up, name) == Joined(t, r, up, name, Older(t, up, r, name), Len(t.node) + 1)

\* uc2_read_cdir(), read_entry() and uc2_get_tag(): what stops the command.
Readable(r) == /\ r.type \in {"dir", "file", "master"} /\ (r.type = "dir" \/ r.volume = 1)
               /\ \A i \in DOMAIN r.tags : r.tags[i].fits
ReadCdir ==
    /\ stage = "read"
    /\ IF todo # <<>> /\ todo[1].type = "end" THEN stage' = "select" /\ todo' = job.patterns /\ UNCHANGED <<tree, error>>
       ELSE IF todo # <<>> /\ Readable(todo[1])
            THEN /\ tree' = IF todo[1].type = "master" THEN tree ELSE NewEntry(tree, todo[1], Enclosing(tree, todo[1]), EntryName(todo[1]))
                 /\ todo' = Rest(todo) /\ UNCHANGED <<stage, error>>
            ELSE Stop /\ error' = TRUE /\ UNCHANGED <<tree, todo>>
    /\ UNCHANGED <<job, archive, entries, path, disk, said>>
------------------------------------------------------------------------------
(* Selecting.  fnmatch() as cli/src/compat/compat_dos.c has it.            *)
RECURSIVE InClass(_, _, _)
InClass(c, class, i) ==
    LET range == i + 2 <= Len(class) /\ class[i + 1] = "-"
    IN  i <= Len(class)
        /\ \/ c = class[i]
           \/ range /\ Order(class[i]) <= Order(c) /\ Order(c) <= Order(class[i + 2])
           \/ InClass(c, class, IF range THEN i + 2 ELSE i + 1)
\* The class after "[" ends at the first "]" that is not its first character.
ClassEnd(p) == LET at == {i \in 3..Len(p) : p[i] = "]"} IN IF at = {} THEN 0 ELSE CHOOSE i \in at : \A j \in at : i <= j
RECURSIVE Fnmatch(_, _)
Fnmatch(p, s) ==
    IF p = <<>> THEN s = <<>>
    ELSE CASE p[1] = "?" -> s # <<>> /\ Fnmatch(Rest(p), Rest(s))
           [] p[1] = "*" -> \E i \in 0..Len(s) : Fnmatch(Rest(p), SubSeq(s, i + 1, Len(s)))
           [] p[1] = "[" -> /\ ClassEnd(p) # 0 /\ s # <<>> /\ InClass(s[1], SubSeq(p, 2, ClassEnd(p) - 1), 1)
                            /\ Fnmatch(SubSeq(p, ClassEnd(p) + 1, Len(p)), Rest(s))
           [] p[1] = "\\" /\ Len(p) > 1 -> s # <<>> /\ p[2] = s[1] /\ Fnmatch(Cut(p, 3, Len(p)), Rest(s))
           [] OTHER -> s # <<>> /\ p[1] = s[1] /\ Fnmatch(Rest(p), Rest(s))

\* The nodes from the root to each one.
Lines(t) == LET line[k \in 1..Len(t.node)] == IF k = 1 THEN {1} ELSE line[t.node[k].parent] \cup {k} IN line

\* mark(): the nodes below a visited one are marked as far as marked nodes do
\* not hide them, and the directories above are to be visited.
Hidden(t, n, line, k) == \E j \in line[k] \ (line[n] \ {n}) : t.node[j].marked \/ (j # n /\ t.node[j].version > 0 /\ "all" \notin job.opts)
Below(t, n, line) == {k \in DOMAIN t.node : n \in line[k] /\ ~Hidden(t, n, line, k)}
Marked(t, hits, below, above, visit) ==
    [t EXCEPT !.node = [k \in DOMAIN @ |-> [@[k] EXCEPT !.marked = @ \/ k \in hits \/ (visit /\ k \in below),
                                                        !.visit = @ \/ (visit /\ k \in below) \/ k \in above]]]
Fresh(t, hits) == {n \in hits : ~t.node[n].marked}
Mark(t, hits, visit, line) ==
    Marked(t, hits, UNION {Below(t, n, line) : n \in hits}, UNION {line[n] \ {n} : n \in Fresh(t, hits)}, visit)

MarkAll ==
    /\ stage = "select" /\ job.patterns = <<>>
    /\ tree' = Mark(tree, {1}, TRUE, Lines(tree))
    /\ stage' = "begin"
    /\ UNCHANGED <<job, archive, entries, todo, path, disk, said, error>>

\* The last part of a pattern may end in ;n or ;*.
Digit(c) == c \in {"0", "1", "2", "3"}
Number(s) == FoldLeft(LAMBDA n, c : 10 * n + (Order(c) - Order("0")), 0, s)
RECURSIVE DigitsFrom(_, _)
DigitsFrom(p, q) == IF q > 2 /\ Digit(p[q]) THEN DigitsFrom(p, q - 1) ELSE q
Versioned(p) ==
    LET n == Len(p)
        q == DigitsFrom(p, n - 1)
    IN  IF n > 2 /\ SubSeq(p, n - 1, n) = <<";", "*">> THEN [name |-> SubSeq(p, 1, n - 2), version |-> -1]
        ELSE IF n > 2 /\ Digit(p[n]) /\ p[q] = ";" THEN [name |-> SubSeq(p, 1, q - 1), version |-> Number(SubSeq(p, q + 1, n))]
        ELSE [name |-> p, version |-> IF "all" \in job.opts THEN -1 ELSE 0]

\* match_pattern(): a step per part; todo is the selected directories, what is
\* left of the pattern, and the other patterns.
BeginPattern ==
    /\ stage = "select" /\ job.patterns # <<>>
    /\ IF todo = <<>> THEN stage' = "begin" /\ UNCHANGED todo
       ELSE stage' = "match" /\ todo' = <<<<1>>>> \o todo
    /\ UNCHANGED <<job, archive, entries, tree, path, disk, said, error>>

KidsOf(t, dirs) == FlattenSeq([i \in DOMAIN dirs |-> t.kids[dirs[i]]])
IntermediateDirs(p, q) ==
    /\ q > 0 /\ q < Len(p)
    /\ todo' = <<SelectSeq(KidsOf(tree, todo[1]), LAMBDA k : tree.node[k].dir /\ Fnmatch(SubSeq(p, 1, q - 1), tree.node[k].name)),
                 SubSeq(p, q + 1, Len(p))>> \o SubSeq(todo, 3, Len(todo))
    /\ UNCHANGED <<tree, stage>>
LastPart == todo' = SubSeq(todo, 3, Len(todo)) /\ stage' = "select"
\* A directory is also selected by its name, whatever characters that has.
SelectsDir(p, k) == tree.node[k].dir /\ (p = tree.node[k].name \/ Fnmatch(p, tree.node[k].name))
SpecificDirs(p, q) ==
    /\ q > 0 /\ q = Len(p)
    /\ tree' = Mark(tree, {k \in Range(KidsOf(tree, todo[1])) : SelectsDir(SubSeq(p, 1, q - 1), k)}, TRUE, Lines(tree))
    /\ LastPart
FilesAndSpecificDirs(v, q) ==
    /\ q = 0
    /\ tree' = Mark(tree, {k \in Range(KidsOf(tree, todo[1])) :
                             \/ SelectsDir(v.name, k)
                             \/ ~tree.node[k].dir /\ v.version \in {-1, tree.node[k].version} /\ Fnmatch(v.name, tree.node[k].name)},
                    FALSE, Lines(tree))
    /\ LastPart
MatchPart ==
    /\ stage = "match"
    /\ LET p == todo[2]
           q == FirstPlace(p, Slash)
       IN  IntermediateDirs(p, q) \/ SpecificDirs(p, q) \/ FilesAndSpecificDirs(Versioned(p), q)
    /\ UNCHANGED <<job, archive, entries, path, disk, said, error>>
------------------------------------------------------------------------------
(* Visiting: in each directory the files, then the directories.  todo is   *)
(* the stack of visit_selected(): a directory and its children to come.    *)
Sel(t, k) == t.node[k].visit \/ t.node[k].marked
Visits(t, d) == [dir |-> d, next |-> SelectSeq(t.kids[d], LAMBDA k : Sel(t, k) /\ ~t.node[k].dir)
                                     \o SelectSeq(t.kids[d], LAMBDA k : Sel(t, k) /\ t.node[k].dir)]
BeginVisit ==
    /\ stage = "begin"
    /\ stage' = "visit" /\ todo' = <<Visits(tree, 1)>> /\ path' = job.dest
    /\ tree' = [tree EXCEPT !.asked = {k \in DOMAIN tree.node : tree.node[k].marked}]
    /\ UNCHANGED <<job, archive, entries, disk, said, error>>

Top == Last(todo)
Here == Top.next[1]
Passed == Append(Front(todo), [Top EXCEPT !.next = Rest(@)])
Good(k) == tree.node[k].data # <<-1>>
Extracting == job.mode = "extract"

\* print_entry_cb(), pipe_cb(): damaged data, or a standard output that takes
\* no more, is an error, and the next is tried.
ShowFile ==
    /\ stage = "visit" /\ ~Extracting /\ Top.next # <<>> /\ ~tree.node[Here].dir
    /\ todo' = Passed
    /\ said' = IF job.mode # "list" \/ tree.node[Here].marked THEN Append(said, Here) ELSE said
    /\ error' \in {error \/ (job.mode # "list" /\ ~Good(Here))} \cup IF job.mode = "print" /\ job.full THEN {TRUE} ELSE {}
    /\ UNCHANGED <<job, stage, archive, entries, tree, path, disk>>
ShowDir ==
    /\ stage = "visit" /\ ~Extracting /\ Top.next # <<>> /\ tree.node[Here].dir
    /\ todo' = Append(Passed, Visits(tree, Here))
    /\ said' = IF job.mode = "list" /\ tree.node[Here].marked THEN Append(said, Here) ELSE said
    /\ UNCHANGED <<job, stage, archive, entries, tree, path, disk, error>>

\* extract_cb().
Safe(name) == name \notin {<<>>, <<".">>, <<".", ".">>} /\ Range(name) \cap {Slash, "\\"} = {}
Placed(name) == Safe(name) /\ Len(path) + Len(name) + 1 < ROOM
Parent(p) == Cut(p, 1, LastPlace(p, Slash) - 1)
IsDir(d, p) == p \in DOMAIN d /\ d[p].kind = "dir"
Now == 0                \* the time of what was just changed
Touched(d, p) == [d EXCEPT ![Parent(p)] = [@ EXCEPT !.stamp = Now]]
Put(d, p, kind, data, stamp) == [q \in {p} \cup DOMAIN d |-> IF q = p THEN [kind |-> kind, data |-> data, stamp |-> stamp] ELSE d[q]]
Stamped(d, p, k) == IF "nometa" \in job.opts \/ p \notin DOMAIN d THEN d ELSE [d EXCEPT ![p].stamp = k]

\* Damaged data leaves what was written.  On a full disk write_file() fails,
\* and the next file is tried; or only fclose() does, which stops the command.
WriteOne(p, k) ==
    LET Left(data, stamp) == disk' = Put(Touched(disk, p), p, "file", data, stamp)
        after == IF "nometa" \in job.opts THEN Now ELSE k
        torn == {SubSeq(tree.node[k].data, 1, n) : n \in 0..Len(tree.node[k].data) - 1}
    IN  \/ Left(tree.node[k].data, after) /\ error' = (error \/ ~Good(k)) /\ UNCHANGED stage
        \/ job.full /\ (\E data \in torn : Left(data, after)) /\ error' = TRUE /\ UNCHANGED stage
        \/ job.full /\ Good(k) /\ (\E data \in torn : Left(data, Now)) /\ Stop /\ UNCHANGED error

ExtractFile ==
    /\ stage = "visit" /\ Extracting /\ Top.next # <<>> /\ ~tree.node[Here].dir
    /\ todo' = Passed
    /\ LET p == path \o tree.node[Here].name
       IN  IF Placed(tree.node[Here].name) /\ "force" \notin job.opts /\ p \in DOMAIN disk
           THEN UNCHANGED <<stage, disk, error>>                    \* warn(), and the file stays
           ELSE IF ~Placed(tree.node[Here].name) \/ IsDir(disk, p) \/ ~IsDir(disk, Parent(p))
           THEN Stop /\ UNCHANGED <<disk, error>>
           ELSE WriteOne(p, Here)
    /\ UNCHANGED <<job, archive, entries, tree, path, said>>

\* The mark is taken from a directory that exists: its times stay as they are.
EnterDir ==
    /\ stage = "visit" /\ Extracting /\ Top.next # <<>> /\ tree.node[Here].dir
    /\ todo' = Append(Passed, Visits(tree, Here))
    /\ LET p == path \o tree.node[Here].name
       IN  IF ~Placed(tree.node[Here].name) \/ (p \notin DOMAIN disk /\ ~IsDir(disk, Parent(p)))
           THEN Stop /\ UNCHANGED <<disk, tree, path>>
           ELSE /\ path' = Append(p, Slash)
                /\ IF p \in DOMAIN disk THEN tree' = [tree EXCEPT !.node[Here].marked = FALSE] /\ UNCHANGED disk
                   ELSE disk' = Put(Touched(disk, p), p, "dir", <<>>, Now) /\ UNCHANGED tree
                /\ UNCHANGED stage
    /\ UNCHANGED <<job, archive, entries, said, error>>

\* LeaveDir comes to the marked directories only, and only there the path is cut.
LeaveDir ==
    /\ stage = "visit" /\ Top.next = <<>>
    /\ todo' = Front(todo)
    /\ IF Top.dir # 1 /\ Extracting /\ tree.node[Top.dir].marked
       THEN /\ disk' = Stamped(disk, Front(path), Top.dir)
            /\ path' = SubSeq(path, 1, Len(path) - Len(tree.node[Top.dir].name) - 1)
       ELSE UNCHANGED <<disk, path>>
    /\ stage' = IF Len(todo) = 1 THEN "done" ELSE stage
    /\ UNCHANGED <<job, archive, entries, tree, said, error>>

CommandInit ==
    /\ job \in Jobs
    /\ IF job.inputs # <<>> THEN CreateInit(job) ELSE stage = "open" /\ todo = <<>>
    /\ archive = job.records /\ entries = <<>> /\ tree = [node |-> <<RootNode>>, kids |-> <<<<>>>>, asked |-> {}]
    /\ path = <<>> /\ disk = job.disk /\ said = <<>> /\ error = FALSE
CommandNext ==
    \/ WriterScan \/ CloseDirectory \/ StageOutput \/ WriterFinish \/ CommitStaged
    \/ OpenArchive \/ ReadCdir \/ MarkAll \/ BeginPattern \/ MatchPart
    \/ BeginVisit \/ ShowFile \/ ShowDir \/ ExtractFile \/ EnterDir \/ LeaveDir
------------------------------------------------------------------------------
(* What a run amounts to.                                                  *)
Chain(t) ==      \* the names on the way to each node
    LET chain[k \in 1..Len(t.node)] == IF k = 1 THEN <<>> ELSE Append(chain[t.node[k].parent], k) IN chain
Joint(names) == FoldLeft(LAMBDA p, n : IF p = <<>> THEN n ELSE p \o <<Slash>> \o n, <<>>, names)
Own(chain, k) == job.dest \o Joint([i \in DOMAIN chain[k] |-> tree.node[chain[k][i]].name])
Selected == stage \in {"visit", "done"}

RECURSIVE Sources(_, _, _)
Sources(input, above, version) ==
    {<<Append(above, input.name), input.kind = "dir", version, input.data>>}
    \cup UNION {Sources(kid, Append(above, input.name), 0) : kid \in input.kids}
Args == [i \in DOMAIN job.inputs |-> CHOOSE input \in job.inputs[i] : TRUE]
Later(i) == {j \in DOMAIN Args : j > i /\ Args[j].name = Args[i].name}

(* What was created is read back as it was scanned: every path, with its   *)
(* data, and of the files given by one name the last is the newest.        *)
CreatedTree ==
    Selected /\ job.inputs # <<>> =>
        LET chain == Chain(tree) IN
        {<<[i \in DOMAIN chain[k] |-> tree.node[chain[k][i]].name], tree.node[k].dir, tree.node[k].version, tree.node[k].data>>
            : k \in 2..Len(tree.node)}
        = UNION {Sources(Args[i], <<>>, Cardinality(Later(i))) : i \in DOMAIN Args}

(* The archive is the old one or the whole new one, whatever step fails.   *)
ArchiveWhole ==
    archive # job.records => /\ entries # <<>> /\ archive = WholeDirectory
                             /\ stage \notin {"scan", "output", "finish", "commit"}

\* A second way to match: the places of s that each part of p may lead to.
Leads(p, s) ==
    FoldLeft(LAMBDA at, c : IF c = "*" THEN {j \in 0..Len(s) : \E i \in at : i <= j}
                            ELSE {i + 1 : i \in {i \in at : i < Len(s) /\ c \in {"?", s[i + 1]}}}, {0}, p)
Plain(p) == Range(p) \cap {"[", "\\"} = {}
Fits(p, s) == IF Plain(p) THEN Len(s) \in Leads(p, s) ELSE Fnmatch(p, s)
RECURSIVE Split(_)
Split(p) == IF FirstPlace(p, Slash) = 0 THEN <<p>>
            ELSE <<SubSeq(p, 1, FirstPlace(p, Slash) - 1)>> \o Split(SubSeq(p, FirstPlace(p, Slash) + 1, Len(p)))
FitsAlong(parts, names) == \A i \in DOMAIN parts : Fits(parts[i], names[i])
FitsDir(p, k) == tree.node[k].dir /\ (p = tree.node[k].name \/ Fits(p, tree.node[k].name))
Wanted(chain, p, k) ==
    LET parts == Split(p)
        m == Len(parts)
        names == [i \in DOMAIN chain[k] |-> tree.node[chain[k][i]].name]
    IN  IF parts[m] = <<>> /\ m > 1
        THEN /\ Len(names) >= m - 1 /\ FitsAlong(Front(Front(parts)), names) /\ FitsDir(parts[m - 1], chain[k][m - 1])
             /\ \A i \in m..Len(names) : "all" \in job.opts \/ tree.node[chain[k][i]].version = 0
        ELSE /\ Len(names) = m /\ FitsAlong(Front(parts), names)
             /\ \/ FitsDir(Versioned(parts[m]).name, k)
                \/ /\ ~tree.node[k].dir /\ Fits(Versioned(parts[m]).name, names[m])
                   /\ Versioned(parts[m]).version \in {-1, tree.node[k].version}
\* A directory asked for by name alone: its contents are not, and it hides
\* them from a later pattern for a directory around it.
Bare(chain) == \E i \in DOMAIN job.patterns : \E k \in DOMAIN tree.node :
                  Last(job.patterns[i]) # Slash /\ tree.node[k].dir /\ k > 1 /\ Wanted(chain, job.patterns[i], k)

(* The marked nodes are the ones the patterns together ask for; a directory*)
(* named bare may only take nodes away.                                    *)
SelectionRight ==
    stage = "visit" =>
        LET chain == Chain(tree)
            asked == {k \in 2..Len(tree.node) :
                        IF job.patterns = <<>> THEN \A i \in DOMAIN chain[k] : "all" \in job.opts \/ tree.node[chain[k][i]].version = 0
                        ELSE \E i \in DOMAIN job.patterns : Wanted(chain, job.patterns[i], k)}
        IN  /\ tree.asked \ {1} \subseteq asked
            /\ tree.asked \ {1} = asked \/ Bare(chain)

(* A listing shows the nodes asked for, a test and a print the files, each *)
(* once; and the exit status says whether one of them is damaged, or could *)
(* not be printed.                                                         *)
ShownRight ==
    stage = "done" /\ ~Extracting =>
        /\ Range(said) = {k \in tree.asked \ {1} : job.mode = "list" \/ ~tree.node[k].dir}
        /\ \A i, j \in DOMAIN said : said[i] = said[j] => i = j
        /\ job.mode # "list" /\ (\E i \in DOMAIN said : ~Good(said[i])) => error
        /\ error => (job.mode = "print" /\ job.full) \/ (job.mode # "list" /\ \E i \in DOMAIN said : ~Good(said[i]))

\* What the command left of a node's data: all, or, as it says, the beginning.
Holds(p, k) ==
    \/ disk[p].data = tree.node[k].data
    \/ job.full /\ (error \/ stage = "failed") /\ IsStrictPrefix(disk[p].data, tree.node[k].data)

(* Without -f no file that was there changes, and every new file holds what*)
(* a node asked for holds, or what a full disk left of it, which the exit  *)
(* status then says.                                                       *)
OthersKept ==
    /\ "force" \notin job.opts => \A p \in DOMAIN job.disk : job.disk[p].kind = "file" => disk[p] = job.disk[p]
    /\ \A p \in DOMAIN disk : disk[p].kind = "file" /\ (p \notin DOMAIN job.disk \/ disk[p] # job.disk[p]) =>
          \E k \in tree.asked : ~tree.node[k].dir /\ Holds(p, k)

\* Every directory visited is asked for itself, was not there before, and has
\* its path for itself.
Undisturbed(chain) == \A k \in 2..Len(tree.node) :
    tree.node[k].dir /\ (Sel(tree, k) \/ k \in tree.asked) =>
        /\ k \in tree.asked /\ Own(chain, k) \notin DOMAIN job.disk
        /\ \A j \in tree.asked \ {k} : Own(chain, j) # Own(chain, k)
InPlace(chain, k) ==
    /\ Own(chain, k) \in DOMAIN disk
    /\ IF tree.node[k].dir THEN disk[Own(chain, k)].kind = "dir" /\ ("nometa" \in job.opts \/ disk[Own(chain, k)].stamp = k)
       ELSE \E j \in tree.asked : Own(chain, j) = Own(chain, k) /\ Holds(Own(chain, k), j)
Newest(chain, k) == \A j \in tree.asked : Own(chain, j) = Own(chain, k) => tree.node[j].version >= tree.node[k].version

(* Where no directory visited was there before, is only passed through or  *)
(* shares its path, every node is at its own path, the directories with    *)
(* their own times, and without -f the newest of several versions.         *)
ExtractedWhereNew ==
    stage = "done" /\ Extracting =>
        LET chain == Chain(tree) IN
        Undisturbed(chain) =>
            \A k \in tree.asked \ {1} :
                Own(chain, k) \notin DOMAIN job.disk =>
                    /\ InPlace(chain, k)
                    /\ "force" \notin job.opts /\ Newest(chain, k) => Holds(Own(chain, k), k)

(* What uc2.1:169-173 shows, a directory restored over existing files:     *)
(* every file asked for is then at its own path.                           *)
ExtractedInPlace ==
    stage = "done" /\ Extracting /\ "force" \in job.opts =>
        LET chain == Chain(tree) IN \A k \in tree.asked \ {1} : ~tree.node[k].dir => InPlace(chain, k)
==============================================================================
