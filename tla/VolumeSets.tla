------------------------------ MODULE VolumeSets ------------------------------
(***************************************************************************)
(* Archives in several files, read by name: SAS volumes (lib/src/          *)
(* uc2_path.c) and self-extracting archives with their continuation files  *)
(* (lib/src/uc2_sea.c).  A directory maps names to files; a name is a stem *)
(* and a number, and a file is a record of what its header says, its       *)
(* payload and whether it is regular.  Both readers put the parts together *)
(* in a temporary file.  A SAS volume names neither its set nor a checksum: *)
(* sets of one total cannot be told apart here, but by the checksums of the *)
(* archive that comes out (docs/volumes.md).                               *)
(***************************************************************************)
EXTENDS Integers, Sequences, FiniteSets, SequencesExt

CONSTANTS SEA_LIMIT,   \* bytes of a joined stream, and of a file in it (512 MiB)
          SEA_FILES,   \* files, and directories, of one archive (100000)
          PARTS,       \* volumes of a set (999)
          Shelves,     \* directories with two sets of volumes, each under a stem
          Stems,       \* of the SAS sets
          Cut(_),      \* the parts a SAS set was cut into, by its stem
          Made,        \* the trees the self-extracting archives were made of
          MaxWear      \* bound: what befalls the files

VARIABLES dir, wear, answer
Refusal == [status |-> "Refused", data |-> <<>>]
Given(data) == [status |-> "Given", data |-> data]
Regular(d, name) == name \in DOMAIN d /\ d[name].regular
Name(stem, n) == <<stem, n>>
MinOf(S) == CHOOSE x \in S : \A y \in S : x <= y
------------------------------------------------------------------------------
(* uc2_open_path() of a SAS volume: [magic "SAS", total, bytes, index,     *)
(* payload], where bytes counts the header of 14.  Every part up to the    *)
(* total is read, checked against the total the chosen one announced.      *)

\* Faulty variant: a part is known by its name alone.
PartByName(f, total, wanted, copied) ==
    /\ f.magic = "SAS"
    /\ f.bytes > 14
    /\ f.bytes - 14 <= total - copied
    /\ Len(f.payload) = f.bytes - 14

PartFits(f, total, wanted, copied) ==
    /\ f.magic = "SAS"
    /\ f.total = total
    /\ f.index = wanted
    /\ f.bytes > 14
    /\ f.bytes - 14 <= total - copied
    /\ Len(f.payload) = f.bytes - 14

RECURSIVE Spool(_, _, _, _, _)
Spool(d, stem, total, wanted, spool) ==
    LET name == Name(stem, wanted)
    IN  IF Len(spool) >= total THEN [ok |-> TRUE, data |-> spool, parts |-> wanted - 1]
        ELSE IF wanted > PARTS \/ ~Regular(d, name) \/ ~PartFits(d[name], total, wanted, Len(spool))
             THEN [ok |-> FALSE, data |-> spool, parts |-> wanted - 1]
        ELSE Spool(d, stem, total, wanted + 1, spool \o d[name].payload)

\* A volume is opened by the number in its own name, which its header repeats.
OpenVolume(d, stem, selected) ==
    LET f == d[Name(stem, selected)]
        set == Spool(d, stem, f.total, 1, <<>>)
    IN  IF ~Regular(d, Name(stem, selected)) THEN Refusal
        ELSE IF f.total = 0 \/ selected \notin 1..PARTS \/ f.index # selected THEN Refusal
        ELSE IF set.ok /\ selected <= set.parts THEN Given(set.data)
        ELSE Refusal
------------------------------------------------------------------------------
(* uc2_open_sea(): the first volume [magic "MZ", parts, files, config,     *)
(* payload] is an executable; the other ones (their number in the name)    *)
(* continue its stream.  The stream is a sequence of cells: <<"file", r>>, *)
(* r a record [path, size, checksum]; <<"byte", b>>; <<"end", 0>>.         *)
FirstName(d, stem) == IF Regular(d, Name(stem, 0)) THEN Name(stem, 0) ELSE Name(stem, -1)   \* .EXE, .exe

RECURSIVE Join(_, _, _, _)
Join(d, stem, part, parts) ==
    LET name == Name(stem, part)
        rest == Join(d, stem, part + 1, parts)
    IN  IF part > parts THEN Given(<<>>)
        ELSE IF ~Regular(d, name) THEN Refusal
        ELSE IF rest.status # "Given" THEN Refusal
        ELSE Given(d[name].payload \o rest.data)

\* uc2_decompress_raw() wants the whole stream and nothing behind it.
Raw(cells) ==
    LET ends == {i \in DOMAIN cells : cells[i][1] = "end"}
    IN  IF ends = {} THEN Refusal
        ELSE IF MinOf(ends) # Len(cells) THEN Refusal
        ELSE Given(SubSeq(cells, 1, Len(cells) - 1))

\* The checksum of member(): bytes on even and odd places apart.
Checksum(bytes) ==
    LET xor(a, b) == [bit \in 0..7 |-> ((a \div 2^bit) + (b \div 2^bit)) % 2]
        number(bits) == bits[0] + 2 * bits[1] + 4 * bits[2] + 8 * bits[3]
                        + 16 * bits[4] + 32 * bits[5] + 64 * bits[6] + 128 * bits[7]
        lane[i \in 0..Len(bytes)] ==
            IF i = 0 THEN <<90, 165>>
            ELSE [lane[i - 1] EXCEPT ![1 + ((i - 1) % 2)] = number(xor(@, bytes[i]))]
    IN  lane[Len(bytes)]

\* add_path(): a leaf and the directories above it, each made once and none of
\* them special; a file that is there already gets another version.
Names(path) == /\ path # <<>> /\ Len(path) <= 64
               /\ \A i \in DOMAIN path : path[i] \notin {"", ".", ".."}
Directories(tree) == {p \in DOMAIN tree : tree[p].kind = "dir"}
Above(path) == {SubSeq(path, 1, i) : i \in 1..Len(path) - 1}
Clashes(tree, path) == \/ path \in Directories(tree)
                       \/ \E d \in Above(path) : d \in DOMAIN tree /\ tree[d].kind = "file"
AddPath(tree, path, data) ==
    [p \in DOMAIN tree \cup Above(path) \cup {path} |->
        IF p = path
        THEN [kind |-> "file", data |-> <<data>> \o (IF path \in DOMAIN tree THEN tree[path].data ELSE <<>>)]
        ELSE IF p \in DOMAIN tree THEN tree[p] ELSE [kind |-> "dir", data |-> <<>>]]

\* Faulty variant: the checksum of a file is not compared.
AnyFile(record, bytes) == TRUE
SameFile(record, bytes) == Checksum(bytes) = record.checksum

RECURSIVE Records(_, _, _)
Records(cells, files, tree) ==
    LET record == Head(cells)[2]
        part == SubSeq(cells, 2, record.size + 1)
        bytes == [i \in DOMAIN part |-> part[i][2]]
        after == AddPath(tree, record.path, bytes)
    IN  IF files = 0 THEN IF cells = <<>> THEN Given(tree) ELSE Refusal
        ELSE IF cells = <<>> \/ Head(cells)[1] # "file" THEN Refusal
        ELSE IF record.size > SEA_LIMIT \/ Len(cells) <= record.size THEN Refusal
        ELSE IF \E i \in DOMAIN part : part[i][1] # "byte" THEN Refusal
        ELSE IF ~Names(record.path) \/ Clashes(tree, record.path)
                \/ Cardinality(Directories(after)) > SEA_FILES THEN Refusal
        ELSE IF ~SameFile(record, bytes) THEN Refusal
        ELSE Records(SubSeq(cells, record.size + 2, Len(cells)), files - 1, after)

\* Opened by its executable, 0, or by one of its continuations.
OpenSea(d, stem, selected) ==
    LET first == d[FirstName(d, stem)]
        rest == Join(d, stem, 1, first.parts)
        joined == first.payload \o rest.data
        raw == Raw(joined)
    IN  IF ~Regular(d, FirstName(d, stem)) THEN Refusal
        ELSE IF first.magic # "MZ" \/ ~first.config THEN Refusal
        ELSE IF first.parts > PARTS \/ first.files \notin 1..SEA_FILES \/ selected > first.parts THEN Refusal
        ELSE IF rest.status # "Given" THEN Refusal
        ELSE IF Len(joined) > SEA_LIMIT \/ raw.status # "Given" THEN Refusal
        ELSE Records(raw.data, first.files, [p \in {} |-> 0])
------------------------------------------------------------------------------
(* Files of a set are lost, cut short, replaced by another set's or        *)
(* renamed among themselves, and a volume is opened.                       *)
VolumesInit ==
    /\ dir \in Shelves
    /\ wear = 0
    /\ answer = [asked |-> <<"none", 0>>, magic |-> "none", of |-> Refusal]
Wear == wear < MaxWear /\ wear' = wear + 1 /\ UNCHANGED answer
Lose ==
    \E name \in DOMAIN dir : dir' = [dir EXCEPT ![name].regular = FALSE] /\ Wear
CutOff ==
    \E name \in DOMAIN dir :
        /\ dir[name].payload # <<>>
        /\ dir' = [dir EXCEPT ![name].payload = SubSeq(@, 1, Len(@) - 1)]
        /\ Wear
Swap ==
    \E a, b \in DOMAIN dir :
        /\ a # b /\ dir[a].magic = dir[b].magic
        /\ dir' = [dir EXCEPT ![a] = dir[b], ![b] = dir[a]]
        /\ Wear
OpenOne ==
    \E name \in DOMAIN dir :
        /\ answer' = [asked |-> name, magic |-> dir[name].magic,
                      of |-> IF dir[name].magic = "SAS" THEN OpenVolume(dir, name[1], name[2])
                             ELSE OpenSea(dir, name[1], IF name[2] < 1 THEN 0 ELSE name[2])]
        /\ UNCHANGED <<dir, wear>>
VolumesNext == Lose \/ CutOff \/ Swap \/ OpenOne

\* What consists of whole volumes, each in its place, of sets of that total.
Composed(data) ==
    \E n \in 1..Len(data) :
        \E of \in [1..n -> {stem \in Stems : Len(FlattenSeq(Cut(stem))) = Len(data)}] :
            /\ \A k \in 1..n : k \in DOMAIN Cut(of[k])
            /\ data = FlattenSeq([k \in 1..n |-> Cut(of[k])[k]])

\* Whatever is lost, cut off or exchanged, what is opened is a whole archive, or
\* is refused: a self-extracting one as it was made, and of SAS volumes one that
\* has a volume of every place and the total length, none of them short, out of
\* its place or of a set with another total.  With no other set of its total this
\* is the archive that was cut; of two such sets whole volumes may be mixed
\* ("Same-size mixed parts therefore need native UC2 checksum verification").
\* Untouched sets open under any of their volumes (uc2_open_path(), uc2_open_sea()).
WholeOrNothing ==
    /\ answer.of.status = "Given" =>
          IF answer.magic = "SAS" THEN Composed(answer.of.data) ELSE answer.of.data \in Made
    /\ answer.magic # "none" /\ wear = 0 =>
          /\ answer.of.status = "Given"
          /\ answer.magic = "SAS" => answer.of.data = FlattenSeq(Cut(answer.asked[1]))
==============================================================================
