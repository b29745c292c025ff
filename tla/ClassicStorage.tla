--------------------------- MODULE ClassicStorage ---------------------------
(***************************************************************************)
(* How the original program stores an archive (ARCHIO.CPP, SUPERMAN.CPP,   *)
(* DAMPRO.CPP): an update into a temporary file that takes the archive's   *)
(* place, an incremental update in place under a crash recover file (UR2), *)
(* damage protection, and the repairs of 'UC T'.  A cell of a file is a    *)
(* set of marks, so that the exclusive or of cells is their difference;    *)
(* a checksum stands for what was summed.                                  *)
(***************************************************************************)
EXTENDS Integers, Sequences, FiniteSets

CONSTANTS SECTOR,    \* cells of a sector
          STEP,      \* sectors from which there are two protection records
          MaxFiles   \* files in the archive at most

StorageAssumption == SECTOR \in Nat \ {0} /\ STEP \in Nat \ {0} /\ MaxFiles \in Nat \ {0}

VARIABLES arch, tmp, ur2, fix,   \* the files; a missing one is Absent
          todo,                  \* what the running command still does to them
          recneeded,             \* the crash recover file is complete and needed
          old, new,              \* the archive before the command and after it
          phase                  \* "Idle", a command, "Killed", "Lost", "Hurt", or "Tested"
classic == <<arch, tmp, ur2, fix, todo, recneeded, old, new, phase>>

Mark(m) == {m}
Zero == {}
Hole == Mark(<<"hole">>)       \* the byte a seek past the end leaves
Ruined == Mark(<<"ruined">>)
Absent == <<Mark(<<"absent">>)>>
Exists(f) == f # Absent

FHead(length, protected) == Mark(<<"head", length, protected>>)
XHead(cdir) == Mark(<<"xhead", cdir>>)
Word(n) == Mark(<<"word", n>>)
IsHead(cell) == \E m \in cell : cell = {m} /\ m[1] = "head"
Protected(cell) == \E m \in cell : cell = {m} /\ m[1] = "head" /\ m[3]
Value(cell) == (CHOOSE m \in cell : TRUE)[2]   \* the length, the directory's place, or the number
------------------------------------------------------------------------------
(* Damage protection: the payload is filled up to whole sectors (one more  *)
(* if it was whole), and followed by the exclusive or of every wDrs-th     *)
(* sector, the checksum of each sector, and one of the checksums.          *)
Xor(a, b) == (a \ b) \cup (b \ a)
Sector(f, i) == SubSeq(f, i * SECTOR + 1, (i + 1) * SECTOR)
XorBlock(a, b) == [k \in 1..SECTOR |-> Xor(a[k], b[k])]
\* A mark is in the exclusive or of sectors if an odd number of them have it.
Having(f, S, k, m) == {i \in S : m \in Sector(f, i)[k]}
XorOf(f, S) ==
    [k \in 1..SECTOR |-> {m \in UNION {Sector(f, i)[k] : i \in S} : Cardinality(Having(f, S, k, m)) % 2 = 1}]
Check(sector) == Mark(<<"check", sector>>)
Fletcher(checks) == Mark(<<"sum", checks>>)
Calc(secs) ==
    IF secs < STEP THEN 1 ELSE IF secs < 2 * STEP THEN 2 ELSE IF secs < 4 * STEP THEN 4 ELSE IF secs < 8 * STEP THEN 8 ELSE 16
Secs(length) == (length \div SECTOR) + 1
Padded(f) ==
    [k \in 1..Secs(Len(f)) * SECTOR |-> IF k <= Len(f) THEN f[k] ELSE IF k = Len(f) + 1 THEN Hole ELSE Zero]
Group(secs, r) == {i \in 0..secs - 1 : i % Calc(secs) = r}
Records(f, secs) == [r \in 1..Calc(secs) |-> XorOf(f, Group(secs, r - 1))]
Checks(f, secs) == [i \in 1..secs |-> Check(Sector(f, i - 1))]
Laid(blocks) == [k \in 1..Len(blocks) * SECTOR |-> blocks[((k - 1) \div SECTOR) + 1][((k - 1) % SECTOR) + 1]]
\* What DamPro() leaves behind a payload, up to a sector's end and behind it.
Protection(f, secs) == Laid(Records(f, secs)) \o Checks(f, secs) \o <<Fletcher(Checks(f, secs))>>
DamPro(f) == Padded(f) \o Protection(Padded(f), Secs(Len(f)))

\* SetArchive(): the length of the payload, from the spare head if the first one is damaged.
PLen(f) == 1 + Value(IF IsHead(f[1]) THEN f[1] ELSE f[Len(f)])
Table(f, secs) == SubSeq(f, (secs + Calc(secs)) * SECTOR + 1, (secs + Calc(secs)) * SECTOR + secs)
TableSum(f, secs) == f[(secs + Calc(secs)) * SECTOR + secs + 1]
Record(f, secs, r) == Sector(f, secs + r)
Agrees(f, secs, i) == Check(Sector(f, i)) = Table(f, secs)[i + 1]
VerifyDP(f) ==
    LET secs == Secs(PLen(f))
    IN  /\ TableSum(f, secs) = Fletcher(Table(f, secs))
        /\ \A i \in 0..secs - 1 : Agrees(f, secs, i)
        /\ \A r \in 0..Calc(secs) - 1 : Record(f, secs, r) = Records(f, secs)[r + 1]

\* Faulty variant: a sector is rebuilt from every other one, whatever its group.
EveryOther(secs, i) == (0..secs - 1) \ {i}

Others(secs, i) == Group(secs, i % Calc(secs)) \ {i}
Rebuilt(f, secs, i) == XorBlock(XorOf(f, Others(secs, i)), Record(f, secs, i % Calc(secs)))

(* RepairDP(): a sector that disagrees with its checksum is replaced by    *)
(* what the others of its group make of it, if that agrees.                *)
Repaired(f, secs, i) ==
    IF TableSum(f, secs) # Fletcher(Table(f, secs)) \/ Agrees(f, secs, i) THEN Sector(f, i)
    ELSE IF Check(Rebuilt(f, secs, i)) = Table(f, secs)[i + 1] THEN Rebuilt(f, secs, i)
    ELSE Sector(f, i)
Protect(payload) == DamPro(payload) \o <<payload[1]>>
RepairDP(f, length) ==
    Protect(SubSeq(Laid([i \in 1..Secs(length) |-> Repaired(f, Secs(length), i - 1)]), 1, length))
------------------------------------------------------------------------------
(* What a command does to the files is a list of writes, cuts, deletions   *)
(* and a rename, carried out in order and each write cell by cell; a kill  *)
(* leaves the rest undone.                                                 *)
Request(what, file, at, cells) == [do |-> what, file |-> file, at |-> at, cells |-> cells]
WriteAt(file, at, cells) == Request("write", file, at, cells)
Do(what, file, at) == Request(what, file, at, <<>>)
PutCell(f, at, cell) ==
    [k \in 1..IF at > Len(f) THEN at ELSE Len(f) |-> IF k = at THEN cell ELSE IF k <= Len(f) THEN f[k] ELSE Hole]
Changed(f, one) ==
    CASE one.do = "write" -> IF one.cells = <<>> THEN f ELSE PutCell(f, one.at, one.cells[1])
      [] one.do = "create" -> <<>>
      [] one.do = "cut" -> SubSeq(f, 1, one.at)
      [] one.do = "delete" -> Absent
Rest(requests) ==
    LET one == requests[1]
    IN  IF one.do = "write" /\ Len(one.cells) > 1
        THEN [requests EXCEPT ![1] = WriteAt(one.file, one.at + 1, Tail(one.cells))]
        ELSE Tail(requests)

\* CloseArchiveFile(): the head says the length, protection is added, and a spare head.
Closed(payload, protect) ==
    LET whole == [payload EXCEPT ![1] = FHead(Len(payload) - 1, protect)]
    IN  IF protect THEN Protect(whole) ELSE whole \o <<whole[1]>>
Payload(files) ==
    [k \in 1..files + 3 |-> CASE k = 1 -> FHead(0, FALSE)
                              [] k = 2 -> XHead(files + 2)
                              [] k \in 3..files + 2 -> Mark(<<"data", k - 2>>)
                              [] k = files + 3 -> Mark(<<"cdir", files>>)]
Finished(files, protect) == Closed(Payload(files), protect)
FilesIn(f) == Value(f[2]) - 2
Kept(f, option) == IF option = "keep" THEN Protected(f[1]) ELSE option = "on"

(* IncUpdateArchive(): the heads and the tail that will be overwritten go  *)
(* to the crash recover file; only then is the archive cut at its          *)
(* directory and written on.  CloseArchive() ends with its deletion.       *)
RecoverFile(f) ==
    LET from == Value(f[2])
    IN  <<Mark(<<"UR2!">>), f[1], f[2], Word(from), Word(Len(f) - from)>> \o SubSeq(f, from + 1, Len(f))

\* Faulty variant: the archive is cut before the recover file is written.
CutFirst(f) ==
    <<Do("cut", "arch", Value(f[2])), Do("create", "ur2", 0), WriteAt("ur2", 1, RecoverFile(f)), Do("need", "ur2", 0)>>

Safeguard(f) ==
    <<Do("create", "ur2", 0), WriteAt("ur2", 1, RecoverFile(f)), Do("need", "ur2", 0), Do("cut", "arch", Value(f[2]))>>
Incremental(f, result) ==
    LET from == Value(f[2])
        end == PLen(result)
    IN  <<WriteAt("arch", 2, <<f[2]>>)>> \o Safeguard(f)
        \o <<WriteAt("arch", from + 1, SubSeq(result, from + 1, end)), WriteAt("arch", 2, <<result[2]>>),
             WriteAt("arch", 1, <<result[1]>>), WriteAt("arch", end + 1, SubSeq(result, end + 1, Len(result))),
             Do("delete", "ur2", 0)>>

\* SetArchive() and CloseArchiveFile() of an update or a new archive.
Replacement(f, result) ==
    LET end == PLen(result)
    IN  <<Do("create", "tmp", 0), WriteAt("tmp", 1, <<FHead(0, FALSE)>>), WriteAt("tmp", 2, SubSeq(result, 2, end)),
          WriteAt("tmp", 1, <<result[1]>>), WriteAt("tmp", end + 1, SubSeq(result, end + 1, Len(result)))>>
        \o (IF Exists(f) THEN <<Do("delete", "arch", 0)>> ELSE <<>>) \o <<Do("rename", "tmp", 0)>>

\* Recover(): the heads, the length and the tail of the archive before the update.
\* (It cuts the archive a byte further on, where the tail is written at once.)
Recover(f, r) ==
    SubSeq(PutCell(PutCell(f, 1, r[2]), 2, r[3]), 1, Value(r[4])) \o SubSeq(r, 6, 5 + Value(r[5]))
RecoverInPlace(r) ==
    <<WriteAt("arch", 1, SubSeq(r, 2, 3)), Do("cut", "arch", Value(r[4])),
      WriteAt("arch", Value(r[4]) + 1, SubSeq(r, 6, Len(r))), Do("delete", "ur2", 0)>>
------------------------------------------------------------------------------
ClassicInit ==
    /\ \E files \in 1..MaxFiles, p \in BOOLEAN : arch \in {Absent, Finished(files, p)}
    /\ tmp = Absent
    /\ ur2 = Absent
    /\ fix = Absent
    /\ todo = <<>>
    /\ recneeded = FALSE
    /\ old = arch
    /\ new = arch
    /\ phase = "Idle"

\* CHK(): a command refuses an archive that has a crash recover file.
Ready == phase = "Idle" /\ ~Exists(ur2)
Begin(command, result, plan) ==
    /\ phase' = command
    /\ old' = arch
    /\ new' = result
    /\ todo' = plan
    /\ UNCHANGED <<arch, tmp, ur2, fix, recneeded>>
IncUpdateArchive(option) ==
    /\ Ready
    /\ Exists(arch)
    /\ FilesIn(arch) < MaxFiles
    /\ LET result == Finished(FilesIn(arch) + 1, Kept(arch, option))
       IN  Begin("IncUpdate", result, Incremental(arch, result))
UpdateArchive(option) ==
    /\ Ready
    /\ Exists(arch)
    /\ \E files \in {FilesIn(arch) - 1, FilesIn(arch) + 1} \cap 1..MaxFiles :
          LET result == Finished(files, Kept(arch, option))
          IN  Begin("Update", result, Replacement(arch, result))
CreateArchive(option) ==
    /\ Ready
    /\ ~Exists(arch)
    /\ LET result == Finished(1, option = "on")
       IN  Begin("Create", result, Replacement(arch, result))

Running == {"IncUpdate", "Update", "Create", "Recover"}
\* One write of the running command.
Proceed ==
    /\ phase \in Running
    /\ todo # <<>>
    /\ LET one == todo[1]
       IN  /\ arch' = IF one.do = "rename" THEN tmp
                      ELSE IF one.file = "arch" THEN Changed(arch, one) ELSE arch
           /\ tmp' = IF one.do = "rename" THEN Absent ELSE IF one.file = "tmp" THEN Changed(tmp, one) ELSE tmp
           /\ ur2' = IF one.file = "ur2" /\ one.do # "need" THEN Changed(ur2, one) ELSE ur2
           /\ recneeded' = (one.do = "need" \/ (recneeded /\ ~(one.do = "delete" /\ one.file = "ur2")))
    /\ todo' = Rest(todo)
    /\ UNCHANGED <<fix, old, new, phase>>
Finish ==
    /\ phase \in Running
    /\ todo = <<>>
    /\ phase' = "Idle"
    /\ old' = arch
    /\ new' = arch
    /\ UNCHANGED <<arch, tmp, ur2, fix, todo, recneeded>>

(* masterexit() of a command that failed: exiti() removes the temporary    *)
(* file, even the finished one of a rename that failed (the archive itself *)
(* is deleted by then: "Lost"), and RecIt() recovers in place, unless the  *)
(* disk itself failed.                                                     *)
Fails(critical) ==
    /\ phase \in {"IncUpdate", "Update", "Create"}
    /\ tmp' = Absent
    /\ phase' = IF recneeded /\ ~critical THEN "Recover"
                ELSE IF Len(todo) = 1 /\ todo[1].do = "rename" THEN "Lost" ELSE "Idle"
    /\ todo' = IF recneeded /\ ~critical THEN RecoverInPlace(ur2) ELSE <<>>
    /\ recneeded' = FALSE
    /\ new' = IF recneeded THEN old ELSE new
    /\ UNCHANGED <<arch, ur2, fix, old>>
StorageKilled ==
    /\ phase \in Running
    /\ todo # <<>>
    /\ phase' = "Killed"
    /\ todo' = <<>>
    /\ recneeded' = FALSE
    /\ UNCHANGED <<arch, tmp, ur2, fix, old, new>>

\* Sectors of an archive at rest go bad, at most one of those that share a record.
Damage ==
    /\ Ready
    /\ Exists(arch)
    /\ Protected(arch[1])
    /\ LET secs == Secs(PLen(arch))
       IN  \E bad \in SUBSET (0..secs - 1) :
              /\ bad # {}
              /\ \A i, j \in bad : i # j => i % Calc(secs) # j % Calc(secs)
              /\ arch' = [k \in DOMAIN arch |-> IF (k - 1) \div SECTOR \in bad THEN Ruined ELSE arch[k]]
    /\ old' = arch
    /\ new' = arch
    /\ phase' = "Hurt"
    /\ UNCHANGED <<tmp, ur2, fix, todo, recneeded>>

(* 'UC T': with a recover file, or with the protection, into a new file.   *)
(* It takes a recover file cut short by the kill for a whole one.          *)
Recoverable == Len(ur2) >= 5 /\ Len(ur2) = 5 + Value(ur2[5])
TestAndRepair ==
    /\ phase \in {"Killed", "Hurt"} \/ (phase = "Idle" /\ Exists(ur2))
    /\ Exists(arch)
    /\ fix' = IF Exists(ur2) THEN (IF Recoverable THEN Recover(arch, ur2) ELSE <<Ruined>>)
              ELSE IF phase = "Hurt" /\ ~VerifyDP(arch) THEN RepairDP(arch, PLen(arch)) ELSE fix
    /\ phase' = "Tested"
    /\ UNCHANGED <<arch, tmp, ur2, todo, recneeded, old, new>>

Options == {"keep", "on", "off"}
ClassicNext ==
    \/ \E o \in Options : IncUpdateArchive(o) \/ UpdateArchive(o) \/ CreateArchive(o)
    \/ Proceed \/ Finish \/ StorageKilled \/ Damage \/ TestAndRepair
    \/ \E critical \in BOOLEAN : Fails(critical)
ClassicSpec == ClassicInit /\ [][ClassicNext]_classic
------------------------------------------------------------------------------
(* Whenever a command is killed or fails, the archive as it was, or as it  *)
(* becomes, is whole in the archive file, in the finished temporary file,  *)
(* or can be made of the archive file and the recover file; an archive     *)
(* that was protected verifies (IncUpdateArchive(), CloseArchiveFile(),    *)
(* RecIt()).  A rename that fails, or a break just before it, is not       *)
(* covered: exiti() then deletes the only copy.                            *)
OneCopyGood ==
    phase \notin {"Hurt", "Tested", "Lost"} =>
        /\ \/ arch \in {old, new}
           \/ tmp = new
           \/ Exists(arch) /\ Exists(ur2) /\ Recoverable /\ Recover(arch, ur2) = old
        /\ arch = new /\ Exists(arch) /\ Protected(arch[1]) => VerifyDP(arch)

(* 'UC T' gives back the archive: after a kill the old one, if the recover *)
(* file was complete, and after damage to one sector of each group the     *)
(* whole one; damage never passes for an intact archive (Recover(),        *)
(* VerifyDP(), RepairDP()).                                                *)
RepairGivesBack ==
    phase = "Tested" =>
        /\ Exists(ur2) /\ Recoverable => fix = old
        /\ ~Exists(ur2) /\ arch \notin {old, new} => fix = old
=============================================================================
