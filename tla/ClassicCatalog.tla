--------------------------- MODULE ClassicCatalog ---------------------------
(***************************************************************************)
(* The commands of the original program on an archive's catalogue          *)
(* (COMOTERP.CPP, SUPERMAN.CPP, NEUROMAN.CPP): a command loads it into a   *)
(* tree of directories, files and revisions, newest first; marks or adds   *)
(* revisions; takes masters from the files to be added or from the old     *)
(* archive; and writes data and catalogue anew or behind the old data.     *)
(* Other programs change the disk between any two steps.                   *)
(***************************************************************************)
EXTENDS Integers, Sequences, FiniteSets, SequencesExt

CONSTANTS Places,      \* <<directory, name>>: a directory is the sequence of the names to it
          Shared,      \* the places other programs use: they change these files or keep them locked
          Contents, Files,    \* what a file may hold; the disks to begin with
          Jobs,        \* the commands
          Key(_), HyperKey(_),       \* the key of a file name's master, also of its own
          SMALL, LARGE, \* sizes that part the three chains of a master
          ITEM, TOTAL, UNIT,   \* what one file and all files give to a master; it is filled up to units
          Sought,      \* what a file must contain under the option for it
          MaxChanges, MaxJobs

VARIABLES disk,        \* place -> file, or Missing
          archive,     \* its catalogue and stored data
          tree,        \* the catalogue in memory
          job, todo,   \* the command, and the files or revisions it still has to treat
          out,         \* the data of the archive being written
          said,        \* what the command did, and what each file held meanwhile
          before,      \* the revisions at the command's start
          left,        \* changes and commands still to come
          stage
catalog == <<disk, archive, tree, job, todo, out, said, before, left, stage>>

Missing == [data |-> <<>>, time |-> 0, arch |-> FALSE]
Garbage == <<"garbage">>
FIRSTMASTER == 2
AnyRev == -1           \* a mask without a revision
None == 0              \* no limit of time
Bigger(a, b) == IF a > b THEN a ELSE b
Smaller(a, b) == IF a < b THEN a ELSE b
Rest(s) == SubSeq(s, 2, Len(s))
First(s) == CHOOSE i \in s : \A j \in s : i <= j
------------------------------------------------------------------------------
(* The tree: directories by index, file names with their revisions, and    *)
(* the masters, the newest record first.                                   *)
Empty == [dirs |-> <<>>, nextDir |-> 1, nodes |-> <<>>, mas |-> <<>>, newindex |-> FIRSTMASTER, nextId |-> 1,
          prev |-> <<-1, "">>, last |-> 0]
Child(t, up, name) == {i \in DOMAIN t.dirs : t.dirs[i].up = up /\ t.dirs[i].name = name}
\* TMLD(): the directory of that name, made if there is none.
TMLD(t, up, name) ==
    IF Child(t, up, name) # {} THEN t
    ELSE [t EXCEPT !.dirs = Append(@, [index |-> t.nextDir, up |-> up, name |-> name, status |-> "NEW"]), !.nextDir = @ + 1]
\* TCWI(): from the root, name by name; -1 if the way ends.
Enter(t, up, name) == IF up < 0 \/ Child(t, up, name) = {} THEN -1 ELSE t.dirs[First(Child(t, up, name))].index
RECURSIVE TCWI(_, _)
TCWI(t, path) == IF path = <<>> THEN 0 ELSE Enter(t, TCWI(t, Front(path)), Last(path))
RECURSIVE StrToDir(_, _)
StrToDir(t, path) == IF path = <<>> THEN t ELSE TMLD(StrToDir(t, Front(path)), TCWI(StrToDir(t, Front(path)), Front(path)), Last(path))
DirAt(t, index) == t.dirs[First({i \in DOMAIN t.dirs : t.dirs[i].index = index})]
Known(t, index) == index = 0 \/ \E i \in DOMAIN t.dirs : t.dirs[i].index = index
RECURSIVE GetPath(_, _)
GetPath(t, index) == IF index = 0 THEN <<>> ELSE Append(GetPath(t, DirAt(t, index).up), DirAt(t, index).name)

NodesOf(t, dir, name) == {k \in DOMAIN t.nodes : t.nodes[k].dir = dir /\ t.nodes[k].name = name}
\* AddFNN(), AddRev(): the new revision is the newest.
AddFNN(t, dir, name) == [t EXCEPT !.nodes = Append(@, [dir |-> dir, name |-> name, revs |-> <<>>]), !.last = Len(t.nodes) + 1]
AddRev(t, rev) == [t EXCEPT !.nodes[t.last].revs = <<[rev EXCEPT !.id = t.nextId]>> \o @, !.nextId = @ + 1]
Found(t, dir, name) == IF NodesOf(t, dir, name) = {} THEN AddFNN(t, dir, name) ELSE [t EXCEPT !.last = First(NodesOf(t, dir, name))]
TMF(t, rev) == AddRev(Found(t, rev.dir, rev.name), rev)

Alive(revs) == SelectSeq(revs, LAMBDA r : r.status # "DEL")
TRevs(revs) == Len(Alive(revs))
TRev(revs, i) == Alive(revs)[i + 1]
TRevNo(t, r) == Cardinality({q \in Range(Alive(t.nodes[First(NodesOf(t, r.dir, r.name))].revs)) : q.id > r.id})
AllRevs(t) == FlattenSeq([k \in DOMAIN t.nodes |-> t.nodes[k].revs])
Rev(t, id) == AllRevs(t)[First({i \in DOMAIN AllRevs(t) : AllRevs(t)[i].id = id})]
Replaced(revs, new) == [i \in DOMAIN revs |-> IF revs[i].id = new.id THEN new ELSE revs[i]]
Edit(t, new) == [t EXCEPT !.nodes = [k \in DOMAIN t.nodes |-> [t.nodes[k] EXCEPT !.revs = Replaced(t.nodes[k].revs, new)]]]

\* The record of a master by its index, or by its key (LocMacNtx(), LocMacKey(), LocKey()).
Fresh(index, key) == [index |-> index, key |-> key, status |-> "CLR", at |-> 0, content |-> <<>>]
ByIndex(t, index) == {i \in DOMAIN t.mas : t.mas[i].index = index}
ByKey(t, key) == {i \in DOMAIN t.mas : t.mas[i].key = key}
LocMacNtx(t, index) ==
    IF ByIndex(t, index) # {} THEN t
    ELSE [t EXCEPT !.mas = <<Fresh(index, "none")>> \o @, !.newindex = Bigger(@, index + 1)]
LocMacKey(t, key) ==
    IF ByKey(t, key) # {} THEN t
    ELSE [t EXCEPT !.mas = <<Fresh(t.newindex, key)>> \o @, !.newindex = @ + 1]
Master(t, index) == t.mas[First(ByIndex(t, index))]
SetMaster(t, m) == [t EXCEPT !.mas[First(ByIndex(t, m.index))] = m]
------------------------------------------------------------------------------
(* SuperGet(): the catalogue is read back; a file beside the one before it *)
(* joins its node, or gets one without a search.  Under time travel later  *)
(* revisions are left out.                                                 *)
OldRev(t, e) ==
    [id |-> 0, status |-> "OLD", dir |-> e.up, name |-> e.name, place |-> <<GetPath(t, e.up), e.name>>, data |-> <<>>,
     size |-> e.size, time |-> e.time, arch |-> e.arch, master |-> e.master, at |-> e.at,
     special |-> FALSE, ofs |-> 0, chain |-> e.size]
GetFile(t, e) ==
    IF t.prev = <<e.up, e.name>> THEN AddRev(t, OldRev(t, e))
    ELSE IF t.prev[1] = e.up THEN AddRev(AddFNN(t, e.up, e.name), OldRev(t, e))
    ELSE TMF(t, OldRev(t, e))
GetEntry(t, e, dtt) ==
    CASE e.kind = "dir" ->
            [t EXCEPT !.dirs = <<[index |-> e.index, up |-> e.up, name |-> e.name, status |-> "OLD"]>> \o @,
                      !.nextDir = Bigger(@ + 1, e.index + 1)]
      [] e.kind = "file" ->
            IF dtt # None /\ e.time > dtt THEN t
            ELSE [LocMacNtx(GetFile(t, e), e.master) EXCEPT !.prev = <<e.up, e.name>>]
      [] e.kind = "mast" ->
            SetMaster(LocMacNtx(t, e.index), [index |-> e.index, key |-> e.key, status |-> "OLD", at |-> e.at, content |-> <<>>])
RECURSIVE SuperGet(_, _, _)
SuperGet(t, entries, dtt) ==
    IF entries = <<>> THEN t
    ELSE IF ~Known(t, entries[1].up) THEN t      \* fatal damage: the rest is not read
    ELSE SuperGet(GetEntry(t, entries[1], dtt), Rest(entries), dtt)
Loaded(dtt) == SuperGet(Empty, archive.entries, dtt)

\* A stored file is what it was if the decoder has the master it was coded with.
Decompressor(blob, content) == IF blob.via = content THEN blob.data ELSE Garbage
Stored(m, store) == IF m.status = "CLR" THEN Garbage ELSE store[m.at].data
Viewed(t, rev, store) == [data |-> Decompressor(store[rev.at], Stored(Master(t, rev.master), store)), time |-> rev.time]
Versions(t, k, store) == [i \in DOMAIN t.nodes[k].revs |-> Viewed(t, t.nodes[k].revs[i], store)]
History(t, store) ==
    [p \in Places |-> LET ks == NodesOf(t, TCWI(t, p[1]), p[2])
                      IN  IF ks = {} THEN <<>> ELSE Versions(t, First(ks), store)]
View(a) == History(SuperGet(Empty, a.entries, None), a.store)
------------------------------------------------------------------------------
(* SuperDump(): the directories, and of each file the revisions that are   *)
(* left, oldest first; then the masters something refers to.               *)
DirEntry(d) == [kind |-> "dir", index |-> d.index, up |-> d.up, name |-> d.name]
ListDirs(t, dir) ==
    LET here == SelectSeq(t.dirs, LAMBDA d : d.up = dir /\ d.status # "DEL") IN [i \in DOMAIN here |-> DirEntry(here[i])]
FileEntry(r) ==
    [kind |-> "file", up |-> r.dir, name |-> r.name, size |-> r.size, time |-> r.time, arch |-> r.arch,
     master |-> r.master, at |-> r.at]
ListNode(node) == LET revs == Reverse(Alive(node.revs)) IN [i \in DOMAIN revs |-> FileEntry(revs[i])]
ListFiles(t, dir) ==
    LET here == SelectSeq(t.nodes, LAMBDA n : n.dir = dir) IN FlattenSeq([k \in DOMAIN here |-> ListNode(here[k])])
RECURSIVE WalkDirs(_, _)
WalkDirs(t, dir) ==
    LET below == SelectSeq(t.dirs, LAMBDA d : d.up = dir /\ d.status # "DEL")
    IN  ListDirs(t, dir) \o ListFiles(t, dir) \o FlattenSeq([i \in DOMAIN below |-> WalkDirs(t, below[i].index)])
RefCtr(entries, m) == Cardinality({i \in DOMAIN entries : entries[i].kind = "file" /\ entries[i].master = m.index})

(* ListMast(): a new master is stored, one of the old archive is copied,   *)
(* in an incremental update it stays where it is.                          *)
ListMast(acc, m, entries, inc, old) ==
    IF RefCtr(entries, m) = 0 \/ m.status = "NEW1" THEN acc
    ELSE LET fresh == m.status = "NEWC"
             moves == fresh \/ ~inc
             at == IF moves THEN Len(acc.store) + 1 ELSE m.at
         IN  [entries |-> Append(acc.entries, [kind |-> "mast", index |-> m.index, up |-> 0, key |-> m.key, at |-> at]),
              store |-> IF fresh THEN Append(acc.store, [data |-> m.content, via |-> <<>>])
                        ELSE IF moves THEN Append(acc.store, old[m.at]) ELSE acc.store]
SuperDump(t, store, inc, old) ==
    FoldLeft(LAMBDA acc, m : ListMast(acc, m, WalkDirs(t, 0), inc, old), [entries |-> WalkDirs(t, 0), store |-> store], t.mas)
------------------------------------------------------------------------------
CatalogInit ==
    /\ disk \in Files
    /\ archive = [entries |-> <<>>, store |-> <<>>]
    /\ tree = Empty
    /\ job = [cmd |-> "none"]
    /\ todo = <<>>
    /\ out = <<>>
    /\ said = <<>>
    /\ before = <<>>
    /\ left = [changes |-> MaxChanges, jobs |-> MaxJobs]
    /\ stage = "Idle"

\* Another program changes a file or deletes it.  Every change has its own time.
Now == MaxChanges - left.changes + 10
Others ==
    /\ left.changes > 0
    /\ left' = [left EXCEPT !.changes = @ - 1]
    /\ stage # "Done"
    /\ \E p \in Shared :
          \/ \E data \in Contents : disk' = [disk EXCEPT ![p] = [data |-> data, time |-> Now, arch |-> TRUE]]
          \/ disk[p] # Missing /\ disk' = [disk EXCEPT ![p] = Missing]
    /\ said' = IF said = <<>> THEN said ELSE [said EXCEPT !.held = [p \in Places |-> @[p] \cup {disk'[p].data}]]
    /\ UNCHANGED <<archive, tree, job, todo, out, before, stage>>

Begun == [held |-> [p \in Places |-> {disk[p].data}], added |-> {}, gone |-> {}, move |-> {}, rab |-> {}, wrote |-> {}, asked |-> {}]
(* ComoTerp(): the archive is loaded and the command's own work begins; a  *)
(* basic update writes all data anew, an incremental one behind the old.   *)
Incremental == job.inc /\ archive.entries # <<>>
Begin(j) ==
    /\ stage = "Idle"
    /\ left.jobs > 0
    /\ j.cmd = "A" \/ archive.entries # <<>>
    /\ left' = [left EXCEPT !.jobs = @ - 1]
    /\ job' = j
    /\ tree' = IF j.cmd = "A" /\ j.subdirs
               THEN FoldLeft(StrToDir, Loaded(None), SetToSeq({p[1] : p \in Places})) ELSE Loaded(j.dtt)
    /\ todo' = IF j.cmd = "A" THEN SetToSeq({p \in Places : j.subdirs \/ p[1] = <<>>}) ELSE j.paths
    /\ out' = IF j.cmd = "A" /\ j.inc THEN archive.store ELSE <<>>
    /\ said' = Begun
    /\ before' = View(archive)
    /\ stage' = IF j.cmd = "A" THEN "Scan" ELSE IF j.cmd = "RED" THEN "Clean" ELSE "Mark"
    /\ UNCHANGED <<disk, archive>>
------------------------------------------------------------------------------
(* Adding: ScanAddR() makes a revision of every file that fits, on the     *)
(* chain of its master by size, unless an option skips it.                 *)
Fit(mask, name) == name \in mask.names
Fits(masks, name, i) == \E mask \in masks : Fit(mask, name) /\ mask.rev \in {AnyRev, i}
Chosen(p) == (\E mask \in job.paths[1].masks : Fit(mask, p[2])) /\ ~\E mask \in job.unmask : Fit(mask, p[2])
Same(f, older) == f.time = older.time /\ Len(f.data) = older.size
SearchFile(data) == \E i \in DOMAIN data : data[i] = Sought
Excluded(f, older) ==
    \/ "arca" \in job.options /\ ~f.arch
    \/ "freshen" \in job.options /\ older = <<>>
    \/ "nof" \in job.options /\ older # <<>>
    \/ "newer" \in job.options /\ older # <<>> /\ f.time <= older[1].time
    \/ "contains" \in job.options /\ ~SearchFile(f.data)
SmartSkip(f, older) == "smskip" \in job.options /\ older # <<>> /\ Same(f, older[1])
MasterKey(t, name) ==
    IF ByKey(t, HyperKey(name)) # {} \/ "hyper" \in job.options THEN HyperKey(name) ELSE Key(name)
Scanned(t, p, f, m, skip) ==
    [id |-> 0, status |-> IF skip THEN "DEL" ELSE "DISK", dir |-> TCWI(t, p[1]), name |-> p[2], place |-> p, data |-> <<>>,
     size |-> Len(f.data), time |-> f.time, arch |-> f.arch, master |-> m.index, at |-> 0,
     special |-> FALSE, ofs |-> 0, chain |-> IF skip THEN -1 ELSE Len(f.data)]
Awake(m) == [m EXCEPT !.status = CASE @ = "CLR" -> "NEW2" [] @ = "OLD" -> "OLDN" [] OTHER -> @]
Retouch(t, older, f, same) == IF same THEN Edit(t, [older[1] EXCEPT !.arch = f.arch]) ELSE t
AddScanned(t, p, f, m, skip, same, older) ==
    TMF(Retouch(IF skip THEN t ELSE SetMaster(t, Awake(m)), older, f, same), Scanned(t, p, f, m, skip))
Older(t, p) == LET ks == NodesOf(t, TCWI(t, p[1]), p[2]) IN IF ks = {} THEN <<>> ELSE SubSeq(t.nodes[First(ks)].revs, 1, 1)
ScanFile(p, f, key, older, asked) ==
    /\ asked => "query" \in job.options
    /\ LET same == SmartSkip(f, older) /\ ~(job.move /\ Excluded(f, older))
           t == LocMacKey(tree, key)
       IN  /\ tree' = AddScanned(t, p, f, t.mas[First(ByKey(t, key))], asked \/ same \/ Excluded(f, older), same, older)
           /\ said' = [said EXCEPT !.move = IF same /\ job.move THEN @ \cup {p} ELSE @,
                                   !.rab = IF same /\ "rab" \in job.options THEN @ \cup {p} ELSE @]
Scan ==
    /\ stage = "Scan"
    /\ todo # <<>>
    /\ IF disk[todo[1]] # Missing /\ Chosen(todo[1])
       THEN \E asked \in BOOLEAN :
               ScanFile(todo[1], disk[todo[1]], MasterKey(tree, todo[1][2]), Older(tree, todo[1]), asked)
       ELSE UNCHANGED <<tree, said>>
    /\ todo' = Rest(todo)
    /\ UNCHANGED <<disk, archive, job, out, before, left, stage>>

\* AddToNtx(), GetFirstNtx(): the revisions of a master of one size, the last added first.
SizeClass(size) == IF size < SMALL THEN 0 ELSE IF size < LARGE THEN 1 ELSE 2
Chain(t, index, class) ==
    Reverse(SetToSortSeq({r.id : r \in {r \in Range(AllRevs(t)) : r.master = index /\ r.chain >= 0 /\ SizeClass(r.chain) = class}}, <))

(* MakeNewMas(): the files are read, the middle ones first, each up to a   *)
(* limit, until the master is full; a file that is in it whole will be     *)
(* taken from it (TTmnm()).  One that cannot be read is passed over.       *)
Taken(data, quota) == SubSeq(data, 1, Smaller(Len(data), Smaller(quota, ITEM)))
TTmnm(acc, id, unreadable) ==
    LET r == Rev(acc.t, id)
        data == disk[r.place].data
        part == Taken(data, TOTAL - Len(acc.content))
    IN  IF r.status # "DISK" \/ r.place \in unreadable \/ part = <<>> THEN acc
        ELSE [content |-> acc.content \o part,
              t |-> IF part = data THEN Edit(acc.t, [r EXCEPT !.special = TRUE, !.ofs = Len(acc.content), !.size = Len(data)]) ELSE acc.t]
PadTo(n) == IF n < UNIT THEN UNIT ELSE ((n + UNIT - 1) \div UNIT) * UNIT
Padded(content) == content \o [k \in 1..PadTo(Len(content)) - Len(content) |-> 0]
MadeOf(t, m, unreadable) ==
    FoldLeft(LAMBDA acc, id : TTmnm(acc, id, unreadable), [t |-> t, content |-> <<>>],
             Chain(t, m.index, 1) \o Chain(t, m.index, 0) \o Chain(t, m.index, 2))
NewMaster(made, m) == SetMaster(made.t, [m EXCEPT !.status = "NEWC", !.content = Padded(made.content)])
MakeNewMas(t, m, unreadable) == NewMaster(MadeOf(t, m, unreadable), m)
ReadOldMas(t, m) == SetMaster(t, [m EXCEPT !.status = "OLDC", !.content = archive.store[m.at].data])
AddAccess(unreadable) ==
    FoldLeft(LAMBDA t, m : CASE m.status \in {"NEW1", "NEW2"} -> MakeNewMas(t, m, unreadable)
                             [] m.status \in {"OLDN", "NEED"} -> ReadOldMas(t, m)
                             [] OTHER -> t,
             tree, tree.mas)
Queue(t) ==
    FlattenSeq([i \in DOMAIN t.mas |-> IF t.mas[i].status \in {"OLD", "NEW1"} THEN <<>>
                                       ELSE Chain(t, t.mas[i].index, 1) \o Chain(t, t.mas[i].index, 2) \o Chain(t, t.mas[i].index, 0)])
Access ==
    /\ stage = "Scan"
    /\ todo = <<>>
    /\ \E unreadable \in {{}} \cup {{p} : p \in Shared} : tree' = AddAccess(unreadable)
    /\ todo' = Queue(tree')
    /\ stage' = "Add"
    /\ UNCHANGED <<disk, archive, job, out, said, before, left>>

\* In a basic update the revision just before the new one goes, if it is of the old archive.
Superseded(t, r) ==
    LET revs == t.nodes[First(NodesOf(t, r.dir, r.name))].revs
        at == First({i \in DOMAIN revs : revs[i].id = r.id})
    IN  IF ~job.inc /\ at < Len(revs) /\ revs[at + 1].status = "OLD" THEN Edit(t, [revs[at + 1] EXCEPT !.status = "DEL"]) ELSE t
Put(r, data, m) ==
    /\ out' = Append(out, [data |-> data, via |-> m.content])
    /\ tree' = Superseded(Edit(tree, [r EXCEPT !.status = "NEW", !.at = Len(out) + 1, !.size = Len(data)]), r)
    /\ said' = [said EXCEPT !.added = @ \cup {r.place}, !.move = IF job.move THEN @ \cup {r.place} ELSE @,
                            !.rab = IF "rab" \in job.options THEN @ \cup {r.place} ELSE @]
\* TTafl(): the file is compressed, from its master if it is in there whole; one that cannot be opened is skipped.
AddFile(r, m) ==
    \/ r.status = "DISK" /\ r.special /\ Put(r, SubSeq(m.content, r.ofs + 1, r.ofs + r.size), m)
    \/ r.status = "DISK" /\ ~r.special /\ disk[r.place] # Missing /\ Put(r, disk[r.place].data, m)
    \/ /\ r.status = "DISK" /\ ~r.special /\ (disk[r.place] = Missing \/ r.place \in Shared)
       /\ tree' = Edit(tree, [r EXCEPT !.status = "DEL"])
       /\ UNCHANGED <<out, said>>
    \/ r.status # "DISK" /\ UNCHANGED <<tree, out, said>>
Add ==
    /\ stage = "Add"
    /\ todo # <<>>
    /\ AddFile(Rev(tree, todo[1]), Master(tree, Rev(tree, todo[1]).master))
    /\ todo' = Rest(todo)
    /\ UNCHANGED <<disk, archive, job, before, left, stage>>
------------------------------------------------------------------------------
(* MarkUp(): from the oldest revision of a file to the newest, numbered by *)
(* what is left; a chosen one is marked, or, to be deleted unseen, goes.   *)
\* Faulty variant: the revisions are numbered from the oldest.
CountedFromOldest(masks, rev, i, n) == Fits(masks, rev.name, n - 1 - i) /\ ~Fits(job.unmask, rev.name, i)

Wanted(masks, rev, i, n) == Fits(masks, rev.name, i) /\ ~Fits(job.unmask, rev.name, i)
Unseen == job.cmd = "D" /\ job.options \cap {"contains", "query"} = {}
Need(t, index) == SetMaster(t, [Master(t, index) EXCEPT !.status = "NEED"])
MarkRev(t, rev) == Need(Edit(t, [rev EXCEPT !.status = IF Unseen THEN "DEL" ELSE "MARK"]), rev.master)
RECURSIVE MarkFrom(_, _, _, _)
MarkFrom(t, k, i, masks) ==
    IF i < 0 \/ TRevs(t.nodes[k].revs) = 0 THEN t
    ELSE IF i > TRevs(t.nodes[k].revs) - 1 THEN MarkFrom(t, k, TRevs(t.nodes[k].revs) - 1, masks)
    ELSE MarkFrom(IF Wanted(masks, TRev(t.nodes[k].revs, i), i, TRevs(t.nodes[k].revs)) THEN MarkRev(t, TRev(t.nodes[k].revs, i)) ELSE t,
                  k, i - 1, masks)
Under(t, k, from) ==
    LET path == GetPath(t, t.nodes[k].dir) IN path = from \/ (job.subdirs /\ IsPrefix(from, path))
MarkNode(t, k, path) == IF Under(t, k, path.from) THEN MarkFrom(t, k, TRevs(t.nodes[k].revs) - 1, path.masks) ELSE t
MarkedUp(path) == FoldLeft(LAMBDA t, k : MarkNode(t, k, path), tree, [k \in DOMAIN tree.nodes |-> k])
\* A file that two paths name: the command gives up before it has changed anything.
Twice(path) ==
    job.cmd # "D" /\ \E i, j \in DOMAIN job.paths : i < j /\ job.paths[j] = path /\ \E k \in DOMAIN tree.nodes :
        Under(tree, k, path.from) /\ \E n \in DOMAIN tree.nodes[k].revs :
            tree.nodes[k].revs[n].status = "MARK" /\ Wanted(path.masks, tree.nodes[k].revs[n], n - 1, TRevs(tree.nodes[k].revs))
Mark ==
    /\ stage = "Mark"
    /\ todo # <<>>
    /\ IF Twice(todo[1]) THEN stage' = "Done" /\ UNCHANGED tree
       ELSE stage' = "Mark" /\ tree' = MarkedUp(todo[1])
    /\ todo' = Rest(todo)
    /\ UNCHANGED <<disk, archive, job, out, said, before, left>>

\* CheckFiles(), QueryFiles(): a marked revision that lacks what is sought, or that the user keeps, is unmarked.
Decoded(r) == Decompressor(archive.store[r.at], Master(tree, r.master).content)
Loses(r) == "contains" \in job.options /\ ~SearchFile(Decoded(r))
Unmarked == {r \in Range(AllRevs(tree)) : r.status = "MARK" /\ Loses(r)}
Unmark(t, gone) == [t EXCEPT !.nodes = [k \in DOMAIN t.nodes |->
    [t.nodes[k] EXCEPT !.revs = [i \in DOMAIN t.nodes[k].revs |->
        IF t.nodes[k].revs[i].id \in gone THEN [t.nodes[k].revs[i] EXCEPT !.status = "OLD"] ELSE t.nodes[k].revs[i]]]]]
NeedMasters ==
    /\ stage = "Mark"
    /\ todo = <<>>
    /\ tree' = IF job.cmd = "X" \/ "contains" \in job.options THEN AddAccess({}) ELSE tree
    /\ todo' = Queue(tree')
    /\ stage' = IF Unseen THEN "Copy" ELSE "Check"
    /\ UNCHANGED <<disk, archive, job, out, said, before, left>>
Check ==
    /\ stage = "Check"
    /\ \E kept \in SUBSET {r \in Range(AllRevs(tree)) : r.status = "MARK"} :
          /\ kept # {} => "query" \in job.options /\ job.cmd = "D"
          /\ tree' = Unmark(tree, {r.id : r \in Unmarked \cup kept})
          /\ said' = [said EXCEPT !.asked = {<<r.place, TRevNo(tree, r)>> : r \in kept}]
    /\ stage' = IF job.cmd = "X" THEN "Extract" ELSE "Process"
    /\ UNCHANGED <<disk, archive, job, todo, out, before, left>>
------------------------------------------------------------------------------
(* TTefl(): a marked revision is written to the disk, unless a file is     *)
(* there that is as new, the same, or that the user keeps.  In move mode   *)
(* it stays marked, also if its file could not be made.                    *)
Unasked(r) == Edit(tree, [r EXCEPT !.status = "OLD"])
Treated(r) == IF job.move THEN tree ELSE Unasked(r)
Barred(r, there) ==
    there # Missing /\ ("nof" \in job.options \/ ("newer" \in job.options /\ r.time <= there.time))
Smart(r, there) == "smskip" \in job.options /\ there # Missing /\ Same(there, [time |-> r.time, size |-> r.size])
SkipIt(r) ==
    /\ tree' = Unasked(r)
    /\ UNCHANGED <<disk, said>>
WriteOut(r, there) ==
    /\ ~Barred(r, there)
    /\ ~Smart(r, there)
    /\ tree' = Treated(r)
    /\ disk' = [disk EXCEPT ![r.place] = [data |-> Decoded(r), time |-> r.time, arch |-> r.arch]]
    /\ said' = [said EXCEPT !.wrote = @ \cup {<<r.place, [data |-> Decoded(r), time |-> r.time]>>}]
\* The old file is deleted first; then the new one cannot be made.
CannotWrite(r, there) ==
    /\ ~Barred(r, there)
    /\ ~Smart(r, there)
    /\ tree' = Treated(r)
    /\ disk' = [disk EXCEPT ![r.place] = Missing]
    /\ said' = [said EXCEPT !.gone = @ \cup {<<r.place, r.time>>}]
SkipSmart(r, there) ==
    /\ ~Barred(r, there)
    /\ Smart(r, there)
    /\ tree' = Treated(r)
    /\ disk' = [disk EXCEPT ![r.place].arch = r.arch]
    /\ said' = [said EXCEPT !.gone = @ \cup {<<r.place, r.time>>}]
TTefl(r, there) ==
    \/ r.status # "MARK" /\ UNCHANGED <<disk, tree, said>>
    \/ r.status = "MARK" /\ Barred(r, there) /\ SkipIt(r)
    \/ r.status = "MARK" /\ there # Missing /\ ~Smart(r, there) /\ SkipIt(r)      \* the user keeps the file
    \/ r.status = "MARK" /\ (WriteOut(r, there) \/ CannotWrite(r, there) \/ SkipSmart(r, there))
Extract ==
    /\ stage = "Extract"
    /\ todo # <<>>
    /\ TTefl(Rev(tree, todo[1]), disk[Rev(tree, todo[1]).place])
    /\ todo' = Rest(todo)
    /\ UNCHANGED <<archive, job, out, before, left, stage>>
ExtractEnds ==
    /\ stage = "Extract"
    /\ todo = <<>>
    /\ stage' = IF job.move THEN "Process" ELSE "Done"
    /\ UNCHANGED <<disk, archive, tree, job, todo, out, said, before, left>>
\* ProcessFiles(): what is still marked is deleted.
Process ==
    /\ stage = "Process"
    /\ tree' = FoldLeft(LAMBDA t, r : IF r.status = "MARK" THEN Edit(t, [r EXCEPT !.status = "DEL"]) ELSE t, tree, AllRevs(tree))
    /\ stage' = "Copy"
    /\ UNCHANGED <<disk, archive, job, todo, out, said, before, left>>
\* CleanEmptyDirs(): a directory without a file in it or below goes.
RECURSIVE IsBelow(_, _, _)
IsBelow(t, dir, top) == dir = top \/ (dir # 0 /\ IsBelow(t, DirAt(t, dir).up, top))
HasFiles(t, dir) == \E k \in DOMAIN t.nodes : IsBelow(t, t.nodes[k].dir, dir)
CleanDirs(t) ==
    [t EXCEPT !.dirs = [i \in DOMAIN t.dirs |-> IF HasFiles(t, t.dirs[i].index) THEN t.dirs[i] ELSE [t.dirs[i] EXCEPT !.status = "DEL"]]]
Clean ==
    /\ stage = "Clean"
    /\ tree' = CleanDirs(tree)
    /\ stage' = "Copy"
    /\ UNCHANGED <<disk, archive, job, todo, out, said, before, left>>
------------------------------------------------------------------------------
\* CopyFiles(): in a basic update the data of what stays of the old archive follows.
CopyFile(acc, r) ==
    IF r.status # "OLD" THEN acc
    ELSE [t |-> Edit(acc.t, [r EXCEPT !.status = "NEW", !.at = Len(acc.store) + 1]), store |-> Append(acc.store, archive.store[r.at])]
Copied == FoldLeft(CopyFile, [t |-> tree, store |-> out], AllRevs(tree))
Copy ==
    /\ stage = "Copy" \/ (stage = "Add" /\ todo = <<>> /\ ~Incremental)
    /\ tree' = Copied.t
    /\ out' = Copied.store
    /\ stage' = "Dump"
    /\ UNCHANGED <<disk, archive, job, todo, said, before, left>>
CloseArchive(inc) ==
    /\ archive' = SuperDump(tree, out, inc, archive.store)
    /\ stage' = "Delete"
    /\ UNCHANGED <<disk, tree, job, todo, out, said, before, left>>
Dump == stage = "Dump" /\ CloseArchive(FALSE)
DumpBehind == stage = "Add" /\ todo = <<>> /\ Incremental /\ CloseArchive(TRUE)
\* RabDelete(), MoveDelete(): archive bits are reset, files that were moved are deleted.
Reset(p) == IF p \in said.move THEN Missing ELSE IF p \in said.rab /\ disk[p] # Missing THEN [disk[p] EXCEPT !.arch = FALSE] ELSE disk[p]
Delete ==
    /\ stage = "Delete"
    /\ said' = [said EXCEPT !.gone = @ \cup {<<p, disk[p].data>> : p \in {q \in said.move : disk[q] # Missing}}]
    /\ disk' = [p \in Places |-> Reset(p)]
    /\ stage' = "Done"
    /\ UNCHANGED <<archive, tree, job, todo, out, before, left>>
End ==
    /\ stage = "Done"
    /\ stage' = "Idle"
    /\ tree' = Empty
    /\ job' = [cmd |-> "none"]
    /\ todo' = <<>>
    /\ out' = <<>>
    /\ said' = <<>>
    /\ before' = <<>>
    /\ UNCHANGED <<disk, archive, left>>

CatalogNext ==
    \/ \E j \in Jobs : Begin(j)
    \/ Others
    \/ Scan \/ Access \/ Add
    \/ Mark \/ NeedMasters \/ Check \/ Extract \/ ExtractEnds \/ Process \/ Clean
    \/ Copy \/ Dump \/ DumpBehind \/ Delete \/ End
------------------------------------------------------------------------------
Named(p, i) ==
    \E n \in DOMAIN job.paths :
        /\ p[1] = job.paths[n].from \/ (job.subdirs /\ IsPrefix(job.paths[n].from, p[1]))
        /\ Fits(job.paths[n].masks, p[2], i)
        /\ ~Fits(job.unmask, p[2], i)
Spared(p, version, i) == ("contains" \in job.options /\ ~SearchFile(version.data)) \/ <<p, i>> \in said.asked
Remaining(h, p) ==
    LET keep == SetToSortSeq({i \in DOMAIN h : ~Named(p, i - 1) \/ Spared(p, h[i], i - 1)}, <) IN [n \in DOMAIN keep |-> h[keep[n]]]
Afterwards(now, p) ==
    CASE job.cmd = "A" /\ p \in said.added ->
            now # <<>> /\ now[1].data \in said.held[p] /\ Rest(now) = (IF job.inc THEN before[p] ELSE Rest(before[p]))
      [] job.cmd = "D" -> now = Remaining(before[p], p)
      [] job.cmd = "X" /\ job.move ->
            /\ Range(now) \subseteq Range(before[p])
            /\ \A i \in DOMAIN before[p] :
                  before[p][i] \in Range(now) \/ <<p, before[p][i]>> \in said.wrote \/ <<p, before[p][i].time>> \in said.gone
      [] OTHER -> now = before[p]
(* A command does to the archive what it is named for and nothing else:    *)
(* what it added is the newest revision of its file, with a content the    *)
(* file had, in place of at most one of the old archive and of none in an  *)
(* incremental update; deleting and moving out take just the revisions     *)
(* named; every other one is still there, in its place, and is decoded to  *)
(* what it was (SuperGet(), MarkUp(), TTafl(), CopyFiles(), ListMast()).   *)
HistoriesKept == stage = "Done" => \A p \in Places : Afterwards(View(archive)[p], p)

(* What is extracted is a revision of the archive, under time travel the   *)
(* newest one of its time if the newest was asked for; and what 'UC M'     *)
(* deletes, or 'rab' marks as archived, is in the archive, if no other     *)
(* program touched it meanwhile (TTefl(), MoveDelete(), RabDelete()).      *)
MovesAreSafe ==
    stage = "Done" =>
        /\ \A w \in said.wrote :
              /\ w[2] \in Range(before[w[1]])
              /\ job.dtt # None => w[2].time <= job.dtt
              /\ job.dtt # None /\ job.paths[1].masks = {[names |-> {w[1][2]}, rev |-> 0]} =>
                    \A v \in Range(before[w[1]]) : v.time <= job.dtt => v.time <= w[2].time
        /\ job.cmd = "A" =>
              \A p \in said.move \cup said.rab :
                 Cardinality(said.held[p]) = 1 => View(archive)[p] # <<>> /\ View(archive)[p][1].data \in said.held[p]
        /\ job.cmd = "RED" =>
              \A d \in Range(archive.entries) : d.kind = "dir" =>
                 \E e \in Range(archive.entries) : e.kind \in {"dir", "file"} /\ e.up = d.index
=============================================================================
