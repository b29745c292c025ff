---------------------------- MODULE ArchiveWriter ----------------------------
(***************************************************************************)
(* Archive creation: UC2Writer (python/uc2/_writer.py) over the native     *)
(* writer (lib/src/uc2_writer.c, python/writer.c).  Several writers of one *)
(* destination, in one or in several processes, add directories and files, *)
(* close or abort, fail, are killed, and lose power.                       *)
(*                                                                         *)
(* An add works on its own writer's memory and spool only, and that writer *)
(* refuses every other call meanwhile (_busy), so it is one step.  close() *)
(* is several: others see its temporary file and the destination.          *)
(***************************************************************************)
EXTENDS ArchiveFormat

CONSTANTS
    Writer,
    Name,       \* what a part of an archive name may be
    Path,       \* Path[w]: the archive names w is used with: sequences of names
    MaxEntries, \* max_entries
    MaxInput,   \* max_total_size, in blocks
    MaxAdds,    \* bound: the successful adds of a writer
    Old,        \* the archive at the destination before any writer
    Declared,   \* the sizes callers declare, and Unknown
    Unknown,    \* no declared size
    NoFile      \* no temporary file

ASSUME PathType == Path \in [Writer -> SUBSET (Seq(Name) \ {Root})]
ASSUME LimitsArePositive == {MaxEntries, MaxInput} \subseteq Nat \ {0}
ASSUME BoundType == MaxAdds \in [Writer -> Nat]
ASSUME OldIsReadable == Acceptable(Old)
ASSUME UnknownIsNoSize == Unknown \notin Nat /\ Declared \subseteq Nat \cup {Unknown}

\* A file that is no whole archive.
Torn == [whole |-> FALSE]

VARIABLES
    phase,      \* phase[w]: "open", the steps of close(), "closed" or "killed"
    entries,    \* entries[w]: the native writer's entries
    spool,      \* spool[w]: the native writer's input file
    directories,\* directories[w]: _directories, a path's identifier
    files,      \* files[w]: _files
    temporary,  \* temporary[w]: w's temporary file: NoFile, Torn or an archive
    synced,     \* synced[w]: whether os.fsync has returned for it
    destination,\* the destination: an archive, or Torn
    durable,    \* the destinations a power failure may leave
    added       \* observer: the adds of w that returned, in order

memory == <<entries, spool, directories, files>>
vars == <<phase, memory, temporary, synced, destination, durable, added>>

OnlyRoot == [p \in {Root} |-> 0]

Init ==
    /\ phase = [w \in Writer |-> "open"]
    /\ entries = [w \in Writer |-> <<>>]
    /\ spool = [w \in Writer |-> <<>>]
    /\ directories = [w \in Writer |-> OnlyRoot]
    /\ files = [w \in Writer |-> {}]
    /\ temporary = [w \in Writer |-> NoFile]
    /\ synced = [w \in Writer |-> FALSE]
    /\ destination = Old
    /\ durable = {Old}
    /\ added = [w \in Writer |-> <<>>]
------------------------------------------------------------------------------
(* abort(): the native writer and the temporary file are discarded.        *)
Release(w, then) ==
    /\ phase' = [phase EXCEPT ![w] = then]
    /\ entries' = [entries EXCEPT ![w] = <<>>]
    /\ spool' = [spool EXCEPT ![w] = <<>>]
    /\ directories' = [directories EXCEPT ![w] = OnlyRoot]
    /\ files' = [files EXCEPT ![w] = {}]
    /\ added' = [added EXCEPT ![w] = <<>>]

Abort(w) ==
    /\ phase[w] # "killed"
    /\ Release(w, "closed")
    /\ temporary' = [temporary EXCEPT ![w] = NoFile]
    /\ synced' = [synced EXCEPT ![w] = FALSE]
    /\ UNCHANGED <<destination, durable>>

\* _mkdir(): the directories on the way to p, p included, that do not exist.
Known(w, p) == SubSeq(p, 1, CHOOSE k \in 0..Len(p) :
                    /\ SubSeq(p, 1, k) \in DOMAIN directories[w]
                    /\ \A j \in k + 1..Len(p) : SubSeq(p, 1, j) \notin DOMAIN directories[w])

New(w, p) ==
    LET known == Known(w, p)
        from == Len(entries[w])
    IN  [k \in 1..Len(p) - Len(known) |->
            [dir |-> TRUE, name |-> p[Len(known) + k], depth |-> Len(known) + k,
             parent |-> IF k = 1 THEN directories[w][known] ELSE from + k - 1,
             spool |-> 0, size |-> 0, digest |-> 0]]

\* Faulty variant: identifiers count from the entry before.
MadeDirectoriesFromZero(w, p) ==
    LET known == Known(w, p)
        new == {SubSeq(p, 1, k) : k \in Len(known) + 1..Len(p)}
    IN  [q \in DOMAIN directories[w] \cup new |->
            IF q \in new THEN Len(entries[w]) + Len(q) - Len(known) - 1
            ELSE directories[w][q]]

MadeDirectories(w, p) ==
    LET known == Known(w, p)
        made(q) == Len(entries[w]) + Len(q) - Len(known)
        new == {SubSeq(p, 1, k) : k \in Len(known) + 1..Len(p)}
    IN  [q \in DOMAIN directories[w] \cup new |->
            IF q \in new THEN made(q) ELSE directories[w][q]]

\* add_entry(): what the native writer refuses.
Conflicts(es, e) == \E i \in DOMAIN es :
    /\ es[i].parent = e.parent
    /\ es[i].name = e.name
    /\ e.dir \/ es[i].dir

Accepts(es, new) ==
    /\ Len(es) + Len(new) <= MaxEntries
    /\ \A k \in DOMAIN new :
        /\ new[k].dir => new[k].depth <= MaxDepth
        /\ ~Conflicts(es \o SubSeq(new, 1, k - 1), new[k])

\* _mkdir(): a file on the way is refused.
Enterable(w, p) ==
    /\ Len(p) <= MaxDepth
    /\ \A d \in 1..Len(p) : SubSeq(p, 1, d) \notin files[w]

Mkdir(w, p) ==
    /\ phase[w] = "open"
    /\ Len(added[w]) < MaxAdds[w]
    /\ IF Enterable(w, p) /\ Accepts(entries[w], New(w, p))
       THEN /\ entries' = [entries EXCEPT ![w] = @ \o New(w, p)]
            /\ directories' = [directories EXCEPT ![w] = MadeDirectories(w, p)]
            /\ added' = [added EXCEPT ![w] = Append(@, [path |-> p, file |-> FALSE, data |-> <<>>])]
            /\ UNCHANGED <<phase, spool, files, temporary, synced, destination, durable>>
       ELSE Abort(w)

Fits(w, c, size) ==
    /\ Len(spool[w]) + Len(c) <= MaxInput
    /\ size # Unknown => size = Len(c)

NewFile(w, p, c) ==
    LET dirs == MadeDirectories(w, Front(p))
    IN  [dir |-> FALSE, parent |-> dirs[Front(p)], name |-> Last(p), depth |-> Len(p) - 1,
         spool |-> Len(spool[w]), size |-> Len(c), digest |-> Digest[c]]

Addable(w, p, c) == Append(New(w, Front(p)), NewFile(w, p, c))

WriteStream(w, p, c, size) ==
    /\ phase[w] = "open"
    /\ Len(added[w]) < MaxAdds[w]
    /\ IF /\ p \notin DOMAIN directories[w]
          /\ Enterable(w, Front(p))
          /\ Accepts(entries[w], Addable(w, p, c))
          /\ Fits(w, c, size)
       THEN /\ entries' = [entries EXCEPT ![w] = @ \o Addable(w, p, c)]
            /\ spool' = [spool EXCEPT ![w] = @ \o c]
            /\ directories' = [directories EXCEPT ![w] = MadeDirectories(w, Front(p))]
            /\ files' = [files EXCEPT ![w] = @ \cup {p}]
            /\ added' = [added EXCEPT ![w] = Append(@, [path |-> p, file |-> TRUE, data |-> c])]
            /\ UNCHANGED <<phase, temporary, synced, destination, durable>>
       ELSE Abort(w)
------------------------------------------------------------------------------
(* close()                                                                 *)

MakeTemporary(w) ==
    /\ phase[w] = "open"
    /\ phase' = [phase EXCEPT ![w] = "made"]
    /\ temporary' = [temporary EXCEPT ![w] = Torn]
    /\ UNCHANGED <<memory, synced, destination, durable, added>>

\* uc2_writer_finish() into the temporary file, and the flush.
Finish(w) ==
    /\ phase[w] = "made"
    /\ phase' = [phase EXCEPT ![w] = "written"]
    /\ temporary' = [temporary EXCEPT ![w] = Assemble(entries[w], spool[w])]
    /\ UNCHANGED <<memory, synced, destination, durable, added>>

\* Faulty variant: the data are flushed and not synced.
SyncNothing(w) ==
    /\ phase[w] = "written"
    /\ phase' = [phase EXCEPT ![w] = "synced"]
    /\ UNCHANGED <<memory, temporary, synced, destination, durable, added>>

Sync(w) ==
    /\ phase[w] = "written"
    /\ phase' = [phase EXCEPT ![w] = "synced"]
    /\ synced' = [synced EXCEPT ![w] = TRUE]
    /\ UNCHANGED <<memory, temporary, destination, durable, added>>

\* os.replace(): without a sync of the directory a power failure may undo it.
Replace(w) ==
    /\ phase[w] = "synced"
    /\ destination' = temporary[w]
    /\ durable' = durable \cup {IF synced[w] THEN temporary[w] ELSE Torn}
    /\ temporary' = [temporary EXCEPT ![w] = NoFile]
    /\ synced' = [synced EXCEPT ![w] = FALSE]
    /\ Release(w, "closed")

Close(w) == MakeTemporary(w) \/ Finish(w) \/ Sync(w) \/ Replace(w)

\* abort(), an exception in the context, the destructor, a failing source, a
\* failing step of close(): all discard what was added.
GiveUp(w) == phase[w] # "closed" /\ Abort(w)

\* The process is killed: its temporary file stays behind.
Kill(w) ==
    /\ phase[w] \notin {"closed", "killed"}
    /\ Release(w, "killed")
    /\ UNCHANGED <<temporary, synced, destination, durable>>

PowerFailure ==
    /\ destination' \in durable
    /\ durable' = {destination'}
    /\ phase' = [w \in Writer |-> "killed"]
    /\ entries' = [w \in Writer |-> <<>>]
    /\ spool' = [w \in Writer |-> <<>>]
    /\ directories' = [w \in Writer |-> OnlyRoot]
    /\ files' = [w \in Writer |-> {}]
    /\ added' = [w \in Writer |-> <<>>]
    /\ UNCHANGED <<temporary, synced>>

Next ==
    \/ \E w \in Writer :
        \/ \E p \in Path[w] : Mkdir(w, p)
        \/ \E p \in Path[w], c \in Content, d \in Declared : WriteStream(w, p, c, d)
        \/ Close(w)
        \/ GiveUp(w)
        \/ Kill(w)
    \/ PowerFailure

Spec == Init /\ [][Next]_vars
------------------------------------------------------------------------------
(* Properties                                                              *)

\* The variables have their types.
TypeOK ==
    /\ phase \in [Writer -> {"open", "made", "written", "synced", "closed", "killed"}]
    /\ \A w \in Writer :
        /\ \A i \in DOMAIN entries[w] :
            /\ entries[w][i].parent \in 0..i - 1
            /\ entries[w][i].depth \in 0..MaxDepth
            /\ entries[w][i].spool + entries[w][i].size <= Len(spool[w])
        /\ Len(entries[w]) <= MaxEntries
        /\ Len(spool[w]) <= MaxInput
        /\ \A p \in DOMAIN directories[w] : directories[w][p] \in 0..Len(entries[w])
        /\ synced[w] \in BOOLEAN
    /\ destination \in durable

\* The destination implements ArchiveStore: through failures, kills, a second
\* writer and power failures it holds one whole archive, and changes only to
\* what a writer that returned from close() was given.
Contents(a) == IF a # Torn /\ Acceptable(a) THEN Read(a) ELSE Torn

Store == INSTANCE ArchiveStore WITH
    Item <- [path : UNION {Path[w] : w \in Writer}, file : BOOLEAN, data : Content \cup {<<>>}],
    Original <- Old,
    archive <- destination,
    earlier <- durable,
    draft <- [w \in Writer |->
                [open |-> phase[w] \notin {"closed", "killed"}, items |-> added[w]]]

ImplementsStore == Store!StoreSpec

\* The counts a decoder finds at a dictionary of archive a are those of the rows
\* that name it, duplicates included, and every row's dictionary is there.
CountsAgree(a) ==
    /\ \A k \in DOMAIN a.masters :
        LET users == {r \in DOMAIN a.rows : a.rows[r].master = a.masters[k].id}
            blocks == UNION {{r} \X (1..a.rows[r].size) : r \in users}
        IN  /\ a.masters[k].refCount = Cardinality(users)
            /\ a.masters[k].refLen = Cardinality(blocks)
    /\ \A r \in DOMAIN a.rows : ~a.rows[r].dir =>
        \E k \in DOMAIN a.masters : a.rows[r].master = a.masters[k].id

\* A file that close() has finished writing reads back as exactly what was
\* added to its writer: every directory, every version of every file, newest
\* first, with counts that agree, whatever was found to be a duplicate, whichever dictionaries were
\* shared, and whichever digests and chunk hashes collide.
RoundTrip == \A w \in Writer :
    phase[w] \in {"written", "synced"} =>
        /\ Acceptable(temporary[w])
        /\ CountsAgree(temporary[w])
        /\ Read(temporary[w]) = Store!Tree(added[w])

\* The two views of the names agree: the native writer holds a directory or a
\* file at a path exactly when _directories or _files says so, and under the
\* identifier recorded there, so an add that Python lets through is refused by
\* the native writer for a limit only.
ViewsAgree == TypeOK /\ \A w \in Writer :
    phase[w] = "open" => \A p \in Path[w] :
        LET held == {i \in DOMAIN entries[w] :
                        /\ entries[w][i].name = Last(p)
                        /\ Front(p) \in DOMAIN directories[w]
                        /\ entries[w][i].parent = directories[w][Front(p)]}
        IN  /\ \A i \in held : entries[w][i].dir =>
                p \in DOMAIN directories[w] /\ directories[w][p] = i
            /\ p \in DOMAIN directories[w] => directories[w][p] \in held
            /\ p \in files[w] <=> \E i \in held : ~entries[w][i].dir
==============================================================================
