---------------------------- MODULE ArchiveStore ----------------------------
(***************************************************************************)
(* What UC2Writer promises of a destination path (python/uc2/_writer.py,   *)
(* the class comment, and python/README.md): the path always holds one     *)
(* whole archive; a successful close replaces it, in one step, by exactly  *)
(* what was added to that writer; everything else leaves it alone.  Only a *)
(* power failure may take the path back to an earlier whole archive.       *)
(***************************************************************************)
EXTENDS Sequences, Integers, FiniteSets

CONSTANTS
    Writer,     \* the writers of this destination
    Item,       \* what may be added: [path, file, data]
    Original,   \* the file there before any writer
    Contents(_) \* what a reader finds in a file

VARIABLES
    archive,    \* the file at the destination
    earlier,    \* the files a power failure may bring back
    draft       \* draft[w]: whether w is open, and the items added to it

storeVars == <<archive, earlier, draft>>

Fresh == [open |-> TRUE, items |-> <<>>]
Closed == [open |-> FALSE, items |-> <<>>]

\* The directories on the way to an item; a file is not one itself.
Above(item) ==
    {SubSeq(item.path, 1, d) :
        d \in 1..(IF item.file THEN Len(item.path) - 1 ELSE Len(item.path))}

\* The versions of the file at p, newest first: v - 1 items there are later than
\* the v-th.
Versions(items, p) ==
    LET own == {k \in DOMAIN items : items[k].file /\ items[k].path = p}
    IN  [v \in 1..Cardinality(own) |->
            items[CHOOSE k \in own : Cardinality({j \in own : j > k}) = v - 1].data]

Tree(items) ==
    [directories |-> UNION {Above(items[k]) : k \in DOMAIN items},
     files |-> [p \in {items[k].path : k \in {j \in DOMAIN items : items[j].file}}
                    |-> Versions(items, p)]]

StoreInit ==
    /\ archive = Original
    /\ earlier = {Original}
    /\ draft = [w \in Writer |-> Fresh]

\* One more item: the last of the draft that follows.
Add(w) ==
    /\ draft[w].open
    /\ draft'[w].items # <<>>
    /\ LET item == draft'[w].items[Len(draft'[w].items)]
       IN  /\ item \in Item
           /\ draft' = [draft EXCEPT ![w].items = Append(@, item)]
    /\ UNCHANGED <<archive, earlier>>

Commit(w) ==
    /\ draft[w].open
    /\ draft' = [draft EXCEPT ![w] = Closed]
    /\ Contents(archive') = Tree(draft[w].items)
    /\ earlier' = earlier \cup {archive'}

Discard(w) ==
    /\ draft' = [draft EXCEPT ![w] = Closed]
    /\ UNCHANGED <<archive, earlier>>

PowerFails ==
    /\ archive' \in earlier
    /\ earlier' = {archive'}
    /\ draft' = [w \in Writer |-> Closed]

StoreNext ==
    \/ \E w \in Writer : Add(w) \/ Commit(w) \/ Discard(w)
    \/ PowerFails

StoreSpec == StoreInit /\ [][StoreNext]_storeVars
=============================================================================
