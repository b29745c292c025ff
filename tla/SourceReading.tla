---------------------------- MODULE SourceReading ----------------------------
(***************************************************************************)
(* create() of python/uc2/snapshot.py on a source that others change while *)
(* it is read: the directory is listed, each file is read chunk by chunk   *)
(* through one descriptor, and stat results taken before are compared with *)
(* later ones.  A chunk's content is the number of the change that made it;*)
(* every change of a file or a directory has a time of its own.            *)
(***************************************************************************)
EXTENDS Integers, Sequences, FiniteSets

CONSTANTS SourceNames,        \* the names in the source directory
          SortedBefore(_, _),  \* SortedBefore(a, b): whether a sorts before b
          Chunks,              \* chunks of a file
          MaxChanges           \* bound: changes by others
(* sorted() finds a first name in any directory.                           *)
ReadingAssumption ==
    /\ Chunks \in Nat /\ MaxChanges \in Nat
    /\ \A some \in (SUBSET SourceNames) \ {{}} : \E n \in some : \A m \in some \ {n} : SortedBefore(n, m)
ASSUME ReadingAssumption

VARIABLES dir,         \* name -> inode, or 0
          inodes,      \* the files: their chunks and the time of their last change
          dirTime, clock,
          at,          \* where the walk is: [pc, children still to read, their stat results]
          got,         \* chunks read of the file being read
          recorded,    \* name -> chunks, of what was read
          pasts        \* observer: what each inode held at any time
reading == <<dir, inodes, dirTime, clock, at, got, recorded, pasts>>

New(n) == [chunks |-> [i \in 1..Chunks |-> n], time |-> n]
ReadingInit ==
    /\ dir \in [SourceNames -> {0, 1}]
    /\ inodes = <<New(0)>> /\ pasts = <<{New(0).chunks}>>
    /\ dirTime = 0 /\ clock = 0
    /\ at = [pc |-> "start", todo |-> {}, name |-> "", before |-> <<>>, path |-> <<>>, dirBefore |-> 0]
    /\ got = <<>> /\ recorded = <<>>

\* Others write a chunk, put another file under a name, remove or add one.
Tick == clock < MaxChanges /\ clock' = clock + 1 /\ UNCHANGED <<at, got, recorded>>
OtherWrites ==
    /\ Tick
    /\ \E n \in SourceNames, i \in 1..Chunks :
          /\ dir[n] # 0
          /\ inodes' = [inodes EXCEPT ![dir[n]] = [chunks |-> [@.chunks EXCEPT ![i] = clock'], time |-> clock']]
          /\ pasts' = [pasts EXCEPT ![dir[n]] = @ \cup {inodes'[dir[n]].chunks}]
    /\ UNCHANGED <<dir, dirTime>>
OtherReplaces ==
    /\ Tick
    /\ \E n \in SourceNames : dir' = [dir EXCEPT ![n] = Len(inodes) + 1]
    /\ inodes' = Append(inodes, New(clock')) /\ pasts' = Append(pasts, {New(clock').chunks})
    /\ dirTime' = clock'
OtherRemoves ==
    /\ Tick
    /\ \E n \in SourceNames : dir[n] # 0 /\ dir' = [dir EXCEPT ![n] = 0]
    /\ dirTime' = clock'
    /\ UNCHANGED <<inodes, pasts>>

World == <<dir, inodes, dirTime, clock, pasts>>
GiveUp == at' = [at EXCEPT !.pc = "raised"]
Visit ==
    /\ at.pc = "start"
    /\ at' = [at EXCEPT !.pc = "scan", !.dirBefore = dirTime]
    /\ UNCHANGED <<World, got, recorded>>
ScanDir ==
    /\ at.pc = "scan"
    /\ at' = [at EXCEPT !.pc = "next", !.todo = {n \in SourceNames : dir[n] # 0}]
    /\ UNCHANGED <<World, got, recorded>>
LstatChild ==
    /\ at.pc = "next" /\ at.todo # {}
    /\ LET n == CHOOSE n \in at.todo : \A m \in at.todo \ {n} : SortedBefore(n, m)
       IN  at' = IF dir[n] = 0 THEN [at EXCEPT !.pc = "raised"]
                 ELSE [at EXCEPT !.pc = "open", !.name = n, !.todo = @ \ {n}, !.path = <<dir[n], inodes[dir[n]].time>>]
    /\ UNCHANGED <<World, got, recorded>>
OpenChild ==
    /\ at.pc = "open"
    /\ at' = IF dir[at.name] = 0 THEN [at EXCEPT !.pc = "raised"]
             ELSE [at EXCEPT !.pc = "read", !.before = <<dir[at.name], inodes[dir[at.name]].time>>]
    /\ got' = <<>>
    /\ UNCHANGED <<World, recorded>>
ReadChunk ==
    /\ at.pc = "read" /\ Len(got) < Chunks
    /\ got' = Append(got, inodes[at.before[1]].chunks[Len(got) + 1])
    /\ UNCHANGED <<World, at, recorded>>
After == <<at.before[1], inodes[at.before[1]].time>>
Current == IF dir[at.name] = 0 THEN <<0, 0>> ELSE <<dir[at.name], inodes[dir[at.name]].time>>
\* Faulty variant: only the identity is compared, not the times.
SameInode == at.before[1] = Current[1]
UnchangedFile == at.before = After /\ at.path = Current /\ at.before[1] = at.path[1]
EndFile ==
    /\ at.pc = "read" /\ Len(got) = Chunks
    /\ IF UnchangedFile
       THEN /\ at' = [at EXCEPT !.pc = "next"]
            /\ recorded' = [m \in DOMAIN recorded \cup {at.name} |-> IF m = at.name THEN <<at.before[1], got>> ELSE recorded[m]]
       ELSE GiveUp /\ UNCHANGED recorded
    /\ UNCHANGED <<World, got>>
EndDirectory ==
    /\ at.pc = "next" /\ at.todo = {}
    /\ at' = [at EXCEPT !.pc = IF dirTime = at.dirBefore THEN "saved" ELSE "raised"]
    /\ UNCHANGED <<World, got, recorded>>

ReadingNext == \/ OtherWrites \/ OtherReplaces \/ OtherRemoves \/ Visit \/ ScanDir \/ LstatChild \/ OpenChild \/ ReadChunk
               \/ EndFile \/ EndDirectory
ReadingSpec == ReadingInit /\ [][ReadingNext]_reading
------------------------------------------------------------------------------
(* A saved snapshot has each file as it once was, not a mixture of two     *)
(* states, and the names that the directory had all the while.             *)
NoMixture ==
    at.pc = "saved" =>
        /\ \A n \in DOMAIN recorded : recorded[n][2] \in pasts[recorded[n][1]]
        /\ dirTime = at.dirBefore => \A n \in SourceNames : (n \in DOMAIN recorded) <=> (dir[n] # 0)
        /\ dirTime = at.dirBefore => \A n \in DOMAIN recorded : recorded[n][1] = dir[n]
==============================================================================
