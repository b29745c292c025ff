------------------------------ MODULE FileCache ------------------------------
(***************************************************************************)
(* Files of the original program (LLIO.CPP): one open file behind a read   *)
(* or a write cache made of blocks that all files share, DOS below it,     *)
(* where a transfer may stop halfway and is tried again.  Each write puts  *)
(* a new value into its cells, so an old value is told from a new one.     *)
(***************************************************************************)
EXTENDS Integers, Sequences, FiniteSets, SequencesExt

CONSTANTS BLOCK,      \* cells of a cache block
          SMALL,      \* a read of less than this fills only a part of a block
          FILL,       \* the part it fills
          BLOCKS,     \* cache blocks there are
          MaxLen, MaxSteps

VARIABLES file,       \* the file's record, see Fresh
          want, due,  \* what the file holds for the caller, and where the caller is in it
          answered,   \* what the last read gave, and what it was due to give
          taken,      \* cache blocks that other files hold
          opening,    \* how the file is being opened: <<mode, insistence>>, or <<>>
          steps
files == <<file, want, due, answered, taken, opening, steps>>

(* A part that is filled holds what is asked for: 2048 for less than 500. *)
FileCacheAssumption ==
    /\ BLOCK \in Nat \ {0} /\ FILL \in 1..BLOCK /\ SMALL \in 0..FILL + 1
    /\ BLOCKS \in Nat /\ MaxLen \in Nat /\ MaxSteps \in Nat
ASSUME FileCacheAssumption

UNKN == MaxLen + 1    \* a length not known, which no file has
Gap == 0              \* what a seek past the end leaves
(* The file on disk, DOS's position in it, and an AFD: the position and    *)
(* the length as known, the cache's mode, the cells it holds and where     *)
(* they lie, the caller's position if there is a cache, and the free       *)
(* blocks of all.                                                          *)
Fresh(cells, length) ==
    [disk |-> cells, dos |-> 0, pos |-> 0, len |-> length, mode |-> "NONE", held |-> <<>>, offset |-> 0, vfptr |-> 0,
     free |-> BLOCKS, out |-> <<>>]

Put(cells, at, new) ==
    [k \in 1..(IF at + Len(new) > Len(cells) THEN at + Len(new) ELSE Len(cells)) |->
       IF k > at /\ k <= at + Len(new) THEN new[k - at] ELSE IF k <= Len(cells) THEN cells[k] ELSE Gap]
Least(a, b) == IF a < b THEN a ELSE b
Part(cells, from, to) == SubSeq(cells, from, Least(to, Len(cells)))
------------------------------------------------------------------------------
(* I_Read(), I_Write(): at DOS's position.  A transfer that fails halfway  *)
(* has moved it; before the next try it is set back (CSR .. CSS).          *)
\* Faulty variant: the next try goes on where DOS stopped.
GoesOn(f) == f

Reseek(f) == [f EXCEPT !.dos = f.pos]
Half(f, cells, fault) ==
    IF fault /\ cells # <<>> THEN Reseek([f EXCEPT !.disk = Put(@, f.dos, <<cells[1]>>), !.dos = @ + 1]) ELSE f
Written(f, cells) ==
    [f EXCEPT !.disk = Put(@, f.dos, cells), !.dos = @ + Len(cells), !.pos = @ + Len(cells),
              !.len = IF @ < f.pos + Len(cells) THEN f.pos + Len(cells) ELSE @]
I_Write(f, cells, fault) == Written(Half(f, cells, fault), cells)
Taken(f, n, cells) ==
    [f EXCEPT !.out = cells, !.dos = @ + Len(cells), !.pos = @ + Len(cells),
              !.len = IF Len(cells) # n THEN f.pos + Len(cells) ELSE @]
ReadHere(f, n) == Taken(f, n, Part(f.disk, f.dos + 1, f.dos + n))
I_Read(f, n, fault) == ReadHere(IF fault THEN Reseek([f EXCEPT !.dos = @ + 1]) ELSE f, n)
I_Seek(f, at) == [f EXCEPT !.pos = at, !.dos = IF f.pos # at THEN at ELSE @]
I_GetLen(f) == IF f.len = UNKN THEN Len(f.disk) ELSE f.len
I_SetLen(f, n) ==
    [f EXCEPT !.disk = IF n = f.len THEN @ ELSE IF n <= Len(@) THEN SubSeq(@, 1, n) ELSE Put(@, n - 1, <<Gap>>), !.len = n]

(* The cache.  What it holds lies at offset; in write mode it ends at the  *)
(* caller's position.                                                      *)
Held(f) == (Len(f.held) + BLOCK - 1) \div BLOCK
Emptied(f) == [f EXCEPT !.free = @ + Held(f), !.held = <<>>, !.offset = f.vfptr]
Saved(f, fault) ==
    IF f.mode = "WRIT" /\ f.held # <<>> THEN I_Write(I_Seek(f, f.offset), f.held, fault) ELSE f
\* Faulty variant: what a write cache holds is dropped.
FlushDropping(f, fault) == IF f.mode = "NONE" THEN f ELSE Emptied(f)

Flush(f, fault) == IF f.mode = "NONE" THEN f ELSE Emptied(Saved(f, fault))
Unplugged(f) == I_Seek([f EXCEPT !.mode = "NONE"], f.vfptr)
UnCache(f, fault) == IF f.mode = "NONE" THEN f ELSE Unplugged(Flush(f, fault))
Plugged(f, mode) == [f EXCEPT !.mode = mode, !.held = <<>>, !.offset = f.pos, !.vfptr = f.pos]
CacheR(f, fault) == IF f.mode = "READ" THEN f ELSE Plugged(UnCache(f, fault), "READ")
CacheW(f, fault) == IF f.mode = "WRIT" THEN f ELSE Plugged(UnCache(f, fault), "WRIT")
\* CacheRT(): all of the file, if it fits.
Total(f, length, fault) ==
    IF length = 0 \/ 1 + (length \div BLOCK) > f.free THEN f
    ELSE LET g == I_Read(I_Seek(f, 0), length, fault)
         IN  [g EXCEPT !.offset = 0, !.held = g.out, !.out = f.out, !.free = @ - ((length + BLOCK - 1) \div BLOCK)]
TotalOf(f, fault) == Total(f, I_GetLen(f), fault)
CacheRT(f, fault) ==
    IF f.mode = "READ" /\ Len(f.held) = I_GetLen(f) THEN f ELSE TotalOf(CacheR(UnCache(f, fault), FALSE), fault)
------------------------------------------------------------------------------
(* Read(): from the cache if all lies in it, or past it, or through a      *)
(* block filled anew at the caller's position.                             *)
Fits(f, n) == f.vfptr >= f.offset /\ f.vfptr + n <= f.offset + Len(f.held)
FromCache(f, n) ==
    [f EXCEPT !.out = SubSeq(f.held, f.vfptr - f.offset + 1, f.vfptr - f.offset + n), !.vfptr = @ + n]
Followed(f) == [f EXCEPT !.vfptr = f.pos]
PastCache(f, n, fault) == Followed(I_Read(I_Seek(f, f.vfptr), n, fault))
Filled(f, g, n) == FromCache([g EXCEPT !.offset = f.vfptr, !.held = g.out, !.free = @ - 1], n)
Refill(f, n, roomy, fault) ==
    IF f.free = 0 \/ ~roomy THEN PastCache(f, n, fault)
    ELSE Filled(f, I_Read(I_Seek(f, f.vfptr), IF n < SMALL THEN FILL ELSE BLOCK, fault), n)
Fetch(f, n, roomy, fault) ==
    IF Fits(f, n) THEN FromCache(f, n)
    ELSE IF n > BLOCK THEN PastCache(f, n, fault)
    ELSE Refill(Flush(f, FALSE), n, roomy, fault)
ReadCached(f, n, roomy, fault) ==
    IF Fits(f, n) THEN FromCache(f, n)
    ELSE IF I_GetLen(f) <= f.vfptr THEN [f EXCEPT !.out = <<>>]
    ELSE Fetch(f, Least(n, I_GetLen(f) - f.vfptr), roomy, fault)
Read(f, n, roomy, fault) ==
    CASE f.mode = "READ" -> ReadCached(f, n, roomy, fault)
      [] f.mode = "WRIT" -> CacheW(I_Read(UnCache(f, fault), n, FALSE), FALSE)
      [] f.mode = "NONE" -> I_Read(f, n, fault)

(* Write(): into the write cache if blocks are left, if need be after a    *)
(* flush; a read cache is given up and begun anew.                         *)
Enough(f, n) == f.free >= (n \div BLOCK) + 2
Claimed(ofs, n) == (IF ofs = 0 THEN 1 ELSE 0) + ((ofs + n) \div BLOCK) - (IF (ofs + n) % BLOCK = 0 THEN 1 ELSE 0)
IntoCache(f, cells) ==
    [f EXCEPT !.held = @ \o cells, !.vfptr = @ + Len(cells), !.free = @ - Claimed((f.vfptr - f.offset) % BLOCK, Len(cells))]
Moved(f) == [f EXCEPT !.vfptr = f.pos, !.offset = f.pos]
WriteFlushed(f, cells, fault) ==
    IF Enough(f, Len(cells)) THEN IntoCache(f, cells) ELSE Moved(I_Write(I_Seek(f, f.vfptr), cells, fault))
Write(f, cells, fault) ==
    CASE f.mode = "NONE" -> I_Write(f, cells, fault)
      [] f.mode = "WRIT" -> IF Enough(f, Len(cells)) THEN IntoCache(f, cells)
                            ELSE WriteFlushed(Flush(f, fault), cells, FALSE)
      [] f.mode = "READ" -> CacheR(I_Write(UnCache(f, FALSE), cells, fault), FALSE)

Placed(f, at) == [f EXCEPT !.vfptr = at, !.offset = IF f.mode = "WRIT" THEN at ELSE @]
Seek(f, at, fault) ==
    IF f.mode = "NONE" THEN I_Seek(f, at)
    ELSE IF f.vfptr = at THEN f
    ELSE IF f.mode = "WRIT" THEN Placed(Flush(f, fault), at) ELSE Placed(f, at)
Tell(f) == IF f.mode = "NONE" THEN f.pos ELSE f.vfptr
SetFileSize(f, n, fault) ==
    IF f.mode = "NONE" THEN I_SetLen(f, n) ELSE CacheW(I_SetLen(UnCache(f, fault), n), FALSE)
\* GetFileSize(): in write mode the cache is given up first.
Sized(f, fault) == IF f.mode = "WRIT" THEN CacheW(UnCache(f, fault), FALSE) ELSE f
Close(f, fault) == UnCache(f, fault)
------------------------------------------------------------------------------
Modes == {"NOC", "CRI", "CRT", "CWR"}
Insistence == {"MUST", "TRY", "PLAIN"}
FilesInit ==
    /\ file = Fresh(<<>>, UNKN)
    /\ want = <<>>
    /\ due = 0
    /\ answered = <<<<>>, <<>>>>
    /\ taken = 0
    /\ opening = <<"CWR", "MUST">>
    /\ steps = 0

Opened(mode, f, fault) ==
    CASE mode = "NOC" -> f
      [] mode = "CRI" -> CacheR(f, FALSE)
      [] mode = "CRT" -> CacheRT(f, fault)
      [] mode = "CWR" -> CacheW(f, FALSE)
\* Open(): CR makes the file anew, and knows its length.
Open(create, fault) ==
    /\ opening # <<>>
    /\ file.mode = "NONE"
    /\ file' = Opened(opening[1], [Fresh(IF create THEN <<>> ELSE file.disk, IF create THEN 0 ELSE UNKN) EXCEPT !.free = file.free], fault)
    /\ want' = IF create THEN <<>> ELSE want
    /\ due' = 0
    /\ opening' = <<>>
    /\ UNCHANGED <<answered, taken, steps>>
(* DOS refuses the file: the user is asked (CeAskOpen()), and may skip it  *)
(* unless it must be opened; without a question the open fails.            *)
Refuse ==
    /\ opening # <<>>
    /\ opening' \in (IF opening[2] = "PLAIN" THEN {} ELSE {opening}) \cup (IF opening[2] = "MUST" THEN {} ELSE {<<>>})
    /\ file' = IF opening' = <<>> THEN [file EXCEPT !.mode = "CLOSED"] ELSE file
    /\ UNCHANGED <<want, due, answered, taken, steps>>
CloseFile(fault) ==
    /\ file.mode # "CLOSED"
    /\ opening = <<>>
    /\ file' = [Close(file, fault) EXCEPT !.mode = "CLOSED"]
    /\ UNCHANGED <<want, due, answered, taken, opening, steps>>
Reopen(mode, how) ==
    /\ file.mode = "CLOSED"
    /\ opening = <<>>
    /\ opening' = <<mode, how>>
    /\ file' = [file EXCEPT !.mode = "NONE"]
    /\ UNCHANGED <<want, due, answered, taken, steps>>

Step ==
    /\ opening = <<>>
    /\ file.mode # "CLOSED"
    /\ steps < MaxSteps
    /\ steps' = steps + 1
    /\ UNCHANGED <<taken, opening>>
ReadFile(n, roomy, fault) ==
    /\ due <= Len(want)
    /\ Step
    /\ file' = Read(file, n, roomy, fault)
    /\ answered' = <<file'.out, Part(want, due + 1, due + n)>>
    /\ due' = due + Len(answered'[2])
    /\ UNCHANGED want
WriteFile(n, fault) ==
    /\ due + n <= MaxLen
    /\ Step
    /\ LET cells == [k \in 1..n |-> steps + 1]
       IN  /\ file' = Write(file, cells, fault)
           /\ want' = Put(want, due, cells)
    /\ due' = due + n
    /\ UNCHANGED answered
SeekFile(at, fault) ==
    /\ at <= Len(want) + 1
    /\ Step
    /\ file' = Seek(file, at, fault)
    /\ due' = at
    /\ UNCHANGED <<want, answered>>
\* The callers cut a file at their position (AWCut(), Recover()).
CutFile(fault) ==
    /\ due <= Len(want)
    /\ Step
    /\ file' = SetFileSize(file, due, fault)
    /\ want' = SubSeq(want, 1, due)
    /\ UNCHANGED <<due, answered>>
SizeFile(fault) ==
    /\ Step
    /\ file' = Sized(file, fault)
    /\ answered' = <<<<I_GetLen(Sized(file, fault))>>, <<Len(want)>>>>
    /\ UNCHANGED <<want, due>>
Recache(mode, fault) ==
    /\ Step
    /\ file' = Opened(mode, file, fault)
    /\ UNCHANGED <<want, due, answered>>
\* Other files take and give blocks.
OthersMove(n) ==
    /\ opening = <<>>
    /\ n # taken
    /\ file.free + taken - n >= 0
    /\ taken' = n
    /\ file' = [file EXCEPT !.free = @ + taken - n]
    /\ UNCHANGED <<want, due, answered, opening, steps>>

FilesNext ==
    \/ Refuse
    \/ \E m \in Modes, i \in Insistence : Reopen(m, i)
    \/ \E n \in {0, BLOCKS - 2, BLOCKS} : OthersMove(n)
    \/ \E fault \in BOOLEAN :
         \/ \E create \in BOOLEAN : Open(create, fault)
         \/ CloseFile(fault)
         \/ \E n \in {1, BLOCK, BLOCK + 1}, roomy \in BOOLEAN : ReadFile(n, roomy, fault)
         \/ \E n \in {1, BLOCK} : WriteFile(n, fault)
         \/ \E at \in 0..MaxLen : SeekFile(at, fault)
         \/ CutFile(fault)
         \/ SizeFile(fault)
         \/ \E m \in {"CRI", "CRT", "CWR"} : Recache(m, fault)
FilesSpec == FilesInit /\ [][FilesNext]_files
------------------------------------------------------------------------------
\* The file as the caller sees it through the cache.
View(f) == IF f.mode = "WRIT" /\ f.held # <<>> THEN Put(f.disk, f.offset, f.held) ELSE f.disk

(* A read gives what was written last, whatever the cache's mode and       *)
(* however blocks come and go: the file under the write cache, the cells   *)
(* a read cache holds, the length and the position are the caller's, also  *)
(* after transfers that were tried again; a closed file is all on disk.    *)
CacheSeesFile ==
    /\ View(file) = want
    /\ opening = <<>> /\ file.mode # "CLOSED" => Tell(file) = due
    /\ file.mode = "READ" => file.held = Part(want, file.offset + 1, file.offset + Len(file.held))
    /\ answered[1] = answered[2]

(* No block of the cache is lost or given back twice: those the file does  *)
(* not hold are free or other files' (malloc16(), free16()).               *)
BlocksBack ==
    /\ file.free >= 0
    /\ file.free + taken + (IF file.mode \in {"READ", "WRIT"} THEN Held(file) ELSE 0) = BLOCKS
=============================================================================
