----------------------------- MODULE Publishing -----------------------------
(***************************************************************************)
(* How the Python tools put something new at a name that others may use at *)
(* the same time: a batch report's directory (preserve.py), an extracted   *)
(* file (_extract.py), a new snapshot repository (snapshot.py).  Any of the*)
(* processes may be killed between two system calls, and another program   *)
(* makes and removes what is at the name.                                  *)
(***************************************************************************)
EXTENDS Integers, FiniteSets

CONSTANTS Process,
          Kinds,       \* what is published: "report", "file", "repository"
          Overwrite,   \* the processes that extract over what is there
          MaxOthers    \* bound: the other program's calls

VARIABLES kind,
          place,       \* what is at the name
          pc,
          stage,       \* stage[p]: its temporary directory or file: "none", "part" or "whole"
          seen,        \* seen[p]: what it knows of the name
          others,
          kept         \* observer: the last whole thing there, until its owner or -f removes it
publishing == <<kind, place, pc, stage, seen, others, kept>>

\* What a name stands for: nothing, or an inode with what is in it.
Nothing == [owner |-> "nobody", holds |-> {}]
Made(p, holds) == [owner |-> p, holds |-> holds]
Other == "other"
Ended == {"returned", "raised", "killed"}
Goto(p, at) == pc' = [pc EXCEPT ![p] = at]
Keep == kept' = place'

PublishingInit ==
    /\ kind \in Kinds
    /\ place \in {Nothing, Made(Other, {}), Made(Other, {"data"})}
    /\ pc = [p \in Process |-> "start"]
    /\ stage = [p \in Process |-> "none"]
    /\ seen = [p \in Process |-> Nothing]
    /\ others = 0
    /\ kept = place

Kill(p) ==
    /\ pc[p] \notin Ended /\ Goto(p, "killed")
    /\ UNCHANGED <<kind, place, stage, seen, others, kept>>
\* The finally blocks: rmtree(stage), unlink(temporary).
Cleanup(p) ==
    /\ pc[p] \in {"clean ok", "clean fail"}
    /\ stage' = [stage EXCEPT ![p] = "none"]
    /\ Goto(p, IF pc[p] = "clean ok" THEN "returned" ELSE "raised")
    /\ UNCHANGED <<kind, place, seen, others, kept>>
OtherProgram ==
    /\ others < MaxOthers /\ others' = others + 1
    /\ \/ place = Nothing /\ place' \in {Made(Other, {}), Made(Other, {"data"})}
       \/ place # Nothing /\ place' = Nothing
    /\ Keep
    /\ UNCHANGED <<kind, pc, stage, seen>>
------------------------------------------------------------------------------
(* preserve() and _publish().                                              *)
Preserve(p) ==
    /\ kind = "report" /\ pc[p] = "start"
    /\ IF place # Nothing THEN Goto(p, "raised") /\ UNCHANGED stage
       ELSE stage' = [stage EXCEPT ![p] = "part"] /\ Goto(p, "batch")
    /\ UNCHANGED <<kind, place, seen, others, kept>>
Batch(p) ==
    /\ pc[p] = "batch"
    /\ \/ stage' = [stage EXCEPT ![p] = "whole"] /\ Goto(p, "reserve")
       \/ UNCHANGED stage /\ Goto(p, "clean fail")
    /\ UNCHANGED <<kind, place, seen, others, kept>>
Reserve(p) ==
    /\ pc[p] = "reserve"
    /\ IF place # Nothing THEN Goto(p, "clean fail") /\ UNCHANGED <<place, seen, kept>>
       ELSE /\ place' = Made(p, {}) /\ seen' = [seen EXCEPT ![p] = place'] /\ Keep
            /\ Goto(p, "rename")
    /\ UNCHANGED <<kind, stage, others>>
\* os.rename() of a directory replaces an empty directory and nothing else;
\* an error of its own leaves the reservation.
Rename(p) ==
    /\ pc[p] = "rename"
    /\ \/ /\ place.holds = {}
          /\ place' = Made(p, {stage[p]}) /\ Keep /\ stage' = [stage EXCEPT ![p] = "none"] /\ Goto(p, "returned")
       \/ UNCHANGED <<place, stage, kept>> /\ Goto(p, "unreserve")
    /\ UNCHANGED <<kind, seen, others>>
\* Faulty variant: whatever is there is removed.
UnreserveAny(p) ==
    /\ pc[p] = "unreserve"
    /\ place' = Nothing /\ UNCHANGED kept
    /\ Goto(p, "clean fail")
    /\ UNCHANGED <<kind, stage, seen, others>>
Unreserve(p) ==
    /\ pc[p] = "unreserve"
    /\ place' = IF place = seen[p] THEN Nothing ELSE place
    /\ kept' = IF place = seen[p] THEN Nothing ELSE kept
    /\ Goto(p, "clean fail")
    /\ UNCHANGED <<kind, stage, seen, others>>
------------------------------------------------------------------------------
(* _posix_extract(): an empty directory of another stands here for what is *)
(* no regular file.                                                        *)
Stat(p) ==
    /\ kind = "file" /\ pc[p] = "start"
    /\ Goto(p, IF place # Nothing /\ (place.holds = {} \/ p \notin Overwrite) THEN "raised" ELSE "write")
    /\ stage' = [stage EXCEPT ![p] = IF pc'[p] = "write" THEN "part" ELSE "none"]
    /\ UNCHANGED <<kind, place, seen, others, kept>>
CopyTo(p) ==
    /\ pc[p] = "write"
    /\ \/ stage' = [stage EXCEPT ![p] = "whole"] /\ Goto(p, "link")
       \/ UNCHANGED stage /\ Goto(p, "clean fail")
    /\ UNCHANGED <<kind, place, seen, others, kept>>
Link(p) ==
    /\ pc[p] = "link"
    /\ IF IF p \in Overwrite THEN place # Nothing /\ place.holds = {} ELSE place # Nothing
       THEN Goto(p, "clean fail") /\ UNCHANGED <<place, kept>>
       ELSE place' = Made(p, {stage[p]}) /\ Keep /\ Goto(p, "clean ok")
    /\ UNCHANGED <<kind, stage, seen, others>>
------------------------------------------------------------------------------
(* _repository(create=True): the parts one by one, config.json the last.   *)
MakeRoot(p) ==
    /\ kind = "repository" /\ pc[p] = "start"
    /\ place' = IF place = Nothing THEN Made(p, {}) ELSE place
    /\ Keep /\ Goto(p, "config")
    /\ UNCHANGED <<kind, stage, seen, others>>
AskConfig(p) ==
    /\ pc[p] = "config"
    /\ Goto(p, IF place = Nothing THEN "raised" ELSE IF "config" \in place.holds THEN "open" ELSE "empty")
    /\ UNCHANGED <<kind, place, stage, seen, others, kept>>
AskEmpty(p) ==
    /\ pc[p] = "empty"
    /\ Goto(p, IF place = Nothing \/ place.holds # {} THEN "raised" ELSE "chunks")
    /\ UNCHANGED <<kind, place, stage, seen, others, kept>>
Make(p, at, part, next) ==
    /\ pc[p] = at
    /\ IF place = Nothing \/ part \in place.holds
       THEN Goto(p, IF part = "config" /\ place # Nothing THEN "open" ELSE "raised") /\ UNCHANGED <<place, kept>>
       ELSE place' = [place EXCEPT !.holds = @ \cup {part}] /\ Keep /\ Goto(p, next)
    /\ UNCHANGED <<kind, stage, seen, others>>
MakeChunks(p) == Make(p, "chunks", "chunks", "snapshots")
MakeSnapshots(p) == Make(p, "snapshots", "snapshots", "save")
SaveConfig(p) == Make(p, "save", "config", "open")
OpenIt(p) ==
    /\ pc[p] = "open"
    /\ Goto(p, IF {"chunks", "snapshots", "config"} \subseteq place.holds THEN "returned" ELSE "raised")
    /\ UNCHANGED <<kind, place, stage, seen, others, kept>>

PublishingNext ==
    \/ \E p \in Process : \/ Kill(p) \/ Cleanup(p)
                          \/ Preserve(p) \/ Batch(p) \/ Reserve(p) \/ Rename(p) \/ Unreserve(p)
                          \/ Stat(p) \/ CopyTo(p) \/ Link(p)
                          \/ MakeRoot(p) \/ AskConfig(p) \/ AskEmpty(p) \/ MakeChunks(p) \/ MakeSnapshots(p) \/ SaveConfig(p) \/ OpenIt(p)
    \/ OtherProgram
------------------------------------------------------------------------------
(* Nobody sees a part of a report or of a file, and what another put there *)
(* and filled is not taken away by a process that gives up; a repository   *)
(* with its configuration has its directories, if only programs that make  *)
(* repositories touch it.                                                  *)
PublishedWhole ==
    /\ "part" \notin place.holds
    /\ kept.holds # {} => place.holds # {}
    /\ kind = "repository" /\ "config" \in place.holds /\ others = 0 =>
          {"chunks", "snapshots"} \subseteq place.holds

(* Of several processes that publish one report, a second one returns only *)
(* after something else removed the first one's.                           *)
OneReport ==
    kind = "report" /\ others = 0 => Cardinality({p \in Process : pc[p] = "returned"}) <= 1

PublishingSpec == PublishingInit /\ [][PublishingNext]_publishing

(* What is in place with something in it is taken away or replaced only by *)
(* another program or by a process that was told to extract over it.       *)
NothingTaken ==
    [][place.holds # {} => \/ place.holds \subseteq place'.holds
                           \/ OtherProgram
                           \/ \E p \in Overwrite : Link(p)]_publishing
=============================================================================
