----------------------------- MODULE ToolProofs ------------------------------
(***************************************************************************)
(* Publication at one name, for any number of processes and kinds, killed  *)
(* anywhere beside another program: nothing is seen half made, one report  *)
(* is returned for, nothing of another is taken away.  The original's      *)
(* files, for any contents, cache size and sequence of calls: a program    *)
(* reads what it wrote, and no cache block is lost.  Timestamps, for any   *)
(* archive and proofs: what is attested is the whole archive.  The         *)
(* original's archives, for any sizes and commands, killed anywhere: one   *)
(* good copy is left, and a repair gives the archive back.                 *)
(***************************************************************************)
EXTENDS Publishing, FileCache, Timestamps, ClassicStorage, FiniteSetTheorems, SequenceTheorems, TLAPS

(* What the properties rest on.  The steps belong to what is published; a  *)
(* process holds what it has made until it has put it in place, and saw    *)
(* nothing but its own reservation.                                        *)
Stepping ==
    /\ DOMAIN pc = Process /\ DOMAIN stage = Process /\ DOMAIN seen = Process
    /\ others \in Nat
    /\ \A p \in Process :
        /\ pc[p] \in {"batch", "reserve", "rename", "unreserve"} => kind = "report"
        /\ pc[p] \in {"write", "link", "clean ok"} => kind = "file"
        /\ pc[p] \in {"config", "empty", "chunks", "snapshots", "save", "open"} => kind = "repository"
        /\ pc[p] \in {"reserve", "rename", "unreserve", "link"} => stage[p] = "whole"
        /\ pc[p] \in {"rename", "unreserve"} => seen[p] = Made(p, {})

InPlace == "holds" \in DOMAIN place /\ "part" \notin place.holds /\ kept = place

\* A report that was returned for is in place, if no other program removed it.
Returned == kind = "report" /\ others = 0 =>
    \A p \in Process : pc[p] = "returned" => place = Made(p, {"whole"})

\* The directories that a process has made are there.
Growing == kind = "repository" /\ others = 0 =>
    /\ \A p \in Process : pc[p] = "snapshots" => "chunks" \in place.holds
    /\ \A p \in Process : pc[p] = "save" => {"chunks", "snapshots"} \subseteq place.holds
    /\ "config" \in place.holds => {"chunks", "snapshots"} \subseteq place.holds

PublishingInv == Stepping /\ InPlace /\ Returned /\ Growing

LEMMA MadeHolds ==
  ASSUME NEW p, NEW holds
  PROVE  /\ Made(p, holds).holds = holds /\ Made(p, holds).owner = p
         /\ "holds" \in DOMAIN Made(p, holds) /\ "holds" \in DOMAIN Nothing /\ Nothing.holds = {}
  BY DEF Made, Nothing

LEMMA PublishingInitInv == PublishingInit => PublishingInv
<1> SUFFICES ASSUME PublishingInit PROVE PublishingInv
  OBVIOUS
<1> USE DEF PublishingInit, Nothing, Made, Other
<1>1. Stepping
  BY DEF Stepping
<1>2. InPlace /\ Returned /\ Growing
  BY DEF InPlace, Returned, Growing
<1> QED BY <1>1, <1>2 DEF PublishingInv

\* A step of p that leaves the place alone.
LEMMA StepElsewhere ==
  ASSUME PublishingInv, NEW p \in Process, UNCHANGED <<kind, place, others, kept>>, Stepping',
         \A q \in Process \ {p} : pc'[q] = pc[q],
         pc'[p] = "returned" => kind # "report",
         pc'[p] \notin {"snapshots", "save"}
  PROVE  PublishingInv'
<1>1. InPlace'
  BY DEF PublishingInv, InPlace
<1>2. Returned'
  BY DEF PublishingInv, Returned
<1>3. Growing'
  BY DEF PublishingInv, Growing
<1> QED BY <1>1, <1>2, <1>3 DEF PublishingInv

\* A step of p that puts something of its own there.
LEMMA StepInPlace ==
  ASSUME PublishingInv, NEW p \in Process, NEW holds, place' = Made(p, holds), kept' = place',
         UNCHANGED <<kind, others>>, Stepping', "part" \notin holds, kind # "repository",
         \A q \in Process \ {p} : pc'[q] = pc[q],
         pc'[p] = "returned" => holds = {"whole"},
         kind = "report" => place.holds = {}
  PROVE  PublishingInv'
<1>1. InPlace'
  BY MadeHolds DEF InPlace
<1>2. Returned'
  <2> SUFFICES ASSUME kind = "report", others = 0, NEW q \in Process, pc'[q] = "returned"
               PROVE  place' = Made(q, {"whole"})
    BY DEF Returned
  <2>1. CASE q = p
    BY <2>1
  <2>2. CASE q # p
    <3>1. place = Made(q, {"whole"})
      BY <2>2 DEF PublishingInv, Returned
    <3>2. place.holds = {"whole"}
      BY <3>1, MadeHolds
    <3> QED BY <3>2
  <2> QED BY <2>1, <2>2
<1>3. Growing'
  BY DEF Growing
<1> QED BY <1>1, <1>2, <1>3 DEF PublishingInv

\* A step of p that makes a part of a repository in what is there.
LEMMA StepMakes ==
  ASSUME PublishingInv, NEW p \in Process, NEW at, NEW part, NEW next, Make(p, at, part, next),
         <<at, part, next>> \in {<<"chunks", "chunks", "snapshots">>, <<"snapshots", "snapshots", "save">>,
                                  <<"save", "config", "open">>}
  PROVE  PublishingInv'
<1>1. /\ pc[p] = at /\ kind = "repository" /\ UNCHANGED <<kind, stage, seen, others>>
      /\ at \in {"chunks", "snapshots", "save"} /\ part \in {"chunks", "snapshots", "config"}
      /\ next \in {"snapshots", "save", "open"}
      /\ (next = "snapshots" <=> at = "chunks") /\ (next = "save" <=> at = "snapshots")
      /\ (part = "chunks" <=> at = "chunks") /\ (part = "snapshots" <=> at = "snapshots")
      /\ (part = "config" <=> at = "save")
  BY DEF Make, PublishingInv, Stepping
<1>2. CASE place = Nothing \/ part \in place.holds
  <2>1. UNCHANGED <<place, kept>> /\ pc' = [pc EXCEPT ![p] = pc'[p]] /\ pc'[p] \in {"open", "raised"}
    BY <1>2 DEF Make, Goto, PublishingInv, Stepping
  <2>2. Stepping' /\ \A q \in Process \ {p} : pc'[q] = pc[q]
    BY <1>1, <2>1 DEF PublishingInv, Stepping
  <2> QED BY <1>1, <2>1, <2>2, StepElsewhere
<1>3. CASE ~(place = Nothing \/ part \in place.holds)
  <2>1. /\ place' = [place EXCEPT !.holds = @ \cup {part}] /\ kept' = place'
        /\ pc' = [pc EXCEPT ![p] = next]
    BY <1>3 DEF Make, Keep, Goto
  <2>2. Stepping' /\ (\A q \in Process \ {p} : pc'[q] = pc[q]) /\ pc'[p] = next
    BY <1>1, <2>1 DEF PublishingInv, Stepping
  <2>3. place'.holds = place.holds \cup {part}
    BY <2>1 DEF PublishingInv, InPlace
  <2>4. InPlace' /\ Returned'
    BY <1>1, <2>1, <2>3 DEF PublishingInv, InPlace, Returned
  <2>5. Growing'
    BY <1>1, <2>2, <2>3 DEF PublishingInv, Growing
  <2> QED BY <2>2, <2>4, <2>5 DEF PublishingInv
<1> QED BY <1>2, <1>3

LEMMA PublishingStep == PublishingInv /\ [PublishingNext]_publishing => PublishingInv'
<1> SUFFICES ASSUME PublishingInv, [PublishingNext]_publishing PROVE PublishingInv'
  OBVIOUS
<1>1. CASE UNCHANGED publishing
  BY <1>1 DEF publishing, PublishingInv, Stepping, InPlace, Returned, Growing
<1>2. ASSUME NEW p \in Process, Kill(p) PROVE PublishingInv'
  <2>1. /\ UNCHANGED <<kind, place, others, kept>> /\ \A q \in Process \ {p} : pc'[q] = pc[q]
        /\ (pc'[p] = "returned" => kind # "report") /\ pc'[p] \notin {"snapshots", "save"}
    BY <1>2 DEF Kill, Goto, PublishingInv, Stepping
  <2>2. Stepping'
    BY <1>2 DEF Kill, Goto, PublishingInv, Stepping, Ended
  <2> QED BY <2>1, <2>2, StepElsewhere
<1>3. ASSUME NEW p \in Process, Cleanup(p) PROVE PublishingInv'
  <2>1. /\ UNCHANGED <<kind, place, others, kept>> /\ \A q \in Process \ {p} : pc'[q] = pc[q]
        /\ (pc'[p] = "returned" => kind # "report") /\ pc'[p] \notin {"snapshots", "save"}
    BY <1>3 DEF Cleanup, Goto, PublishingInv, Stepping
  <2>2. Stepping'
    BY <1>3 DEF Cleanup, Goto, PublishingInv, Stepping
  <2> QED BY <2>1, <2>2, StepElsewhere
<1>4. ASSUME NEW p \in Process, Preserve(p) PROVE PublishingInv'
  <2>1. /\ UNCHANGED <<kind, place, others, kept>> /\ \A q \in Process \ {p} : pc'[q] = pc[q]
        /\ (pc'[p] = "returned" => kind # "report") /\ pc'[p] \notin {"snapshots", "save"}
    BY <1>4 DEF Preserve, Goto, PublishingInv, Stepping
  <2>2. Stepping'
    BY <1>4 DEF Preserve, Goto, PublishingInv, Stepping
  <2> QED BY <2>1, <2>2, StepElsewhere
<1>5. ASSUME NEW p \in Process, Batch(p) PROVE PublishingInv'
  <2>1. /\ UNCHANGED <<kind, place, others, kept>> /\ \A q \in Process \ {p} : pc'[q] = pc[q]
        /\ (pc'[p] = "returned" => kind # "report") /\ pc'[p] \notin {"snapshots", "save"}
    BY <1>5 DEF Batch, Goto, PublishingInv, Stepping
  <2>2. Stepping'
    BY <1>5 DEF Batch, Goto, PublishingInv, Stepping
  <2> QED BY <2>1, <2>2, StepElsewhere
<1>6. ASSUME NEW p \in Process, Stat(p) PROVE PublishingInv'
  <2>1. /\ UNCHANGED <<kind, place, others, kept>> /\ \A q \in Process \ {p} : pc'[q] = pc[q]
        /\ (pc'[p] = "returned" => kind # "report") /\ pc'[p] \notin {"snapshots", "save"}
    BY <1>6 DEF Stat, Goto, PublishingInv, Stepping
  <2>2. Stepping'
    BY <1>6 DEF Stat, Goto, PublishingInv, Stepping
  <2> QED BY <2>1, <2>2, StepElsewhere
<1>7. ASSUME NEW p \in Process, CopyTo(p) PROVE PublishingInv'
  <2>1. /\ UNCHANGED <<kind, place, others, kept>> /\ \A q \in Process \ {p} : pc'[q] = pc[q]
        /\ (pc'[p] = "returned" => kind # "report") /\ pc'[p] \notin {"snapshots", "save"}
    BY <1>7 DEF CopyTo, Goto, PublishingInv, Stepping
  <2>2. Stepping'
    BY <1>7 DEF CopyTo, Goto, PublishingInv, Stepping
  <2> QED BY <2>1, <2>2, StepElsewhere
<1>8. ASSUME NEW p \in Process, AskConfig(p) PROVE PublishingInv'
  <2>1. /\ UNCHANGED <<kind, place, others, kept>> /\ \A q \in Process \ {p} : pc'[q] = pc[q]
        /\ (pc'[p] = "returned" => kind # "report") /\ pc'[p] \notin {"snapshots", "save"}
    BY <1>8 DEF AskConfig, Goto, PublishingInv, Stepping
  <2>2. Stepping'
    BY <1>8 DEF AskConfig, Goto, PublishingInv, Stepping
  <2> QED BY <2>1, <2>2, StepElsewhere
<1>9. ASSUME NEW p \in Process, AskEmpty(p) PROVE PublishingInv'
  <2>1. /\ UNCHANGED <<kind, place, others, kept>> /\ \A q \in Process \ {p} : pc'[q] = pc[q]
        /\ (pc'[p] = "returned" => kind # "report") /\ pc'[p] \notin {"snapshots", "save"}
    BY <1>9 DEF AskEmpty, Goto, PublishingInv, Stepping
  <2>2. Stepping'
    BY <1>9 DEF AskEmpty, Goto, PublishingInv, Stepping
  <2> QED BY <2>1, <2>2, StepElsewhere
<1>10. ASSUME NEW p \in Process, OpenIt(p) PROVE PublishingInv'
  <2>1. /\ UNCHANGED <<kind, place, others, kept>> /\ \A q \in Process \ {p} : pc'[q] = pc[q]
        /\ (pc'[p] = "returned" => kind # "report") /\ pc'[p] \notin {"snapshots", "save"}
    BY <1>10 DEF OpenIt, Goto, PublishingInv, Stepping
  <2>2. Stepping'
    BY <1>10 DEF OpenIt, Goto, PublishingInv, Stepping
  <2> QED BY <2>1, <2>2, StepElsewhere
<1>11. ASSUME NEW p \in Process, Reserve(p) PROVE PublishingInv'
  <2>1. CASE place # Nothing
    <3>1. /\ UNCHANGED <<kind, place, stage, seen, others, kept>> /\ pc' = [pc EXCEPT ![p] = "clean fail"]
      BY <1>11, <2>1 DEF Reserve, Goto
    <3>2. Stepping' /\ pc'[p] = "clean fail" /\ \A q \in Process \ {p} : pc'[q] = pc[q]
      BY <3>1 DEF PublishingInv, Stepping
    <3> QED BY <3>1, <3>2, StepElsewhere
  <2>2. CASE place = Nothing
    <3>1. /\ UNCHANGED <<kind, stage, others>> /\ pc[p] = "reserve" /\ pc' = [pc EXCEPT ![p] = "rename"]
          /\ place' = Made(p, {}) /\ kept' = place' /\ seen' = [seen EXCEPT ![p] = Made(p, {})]
      BY <1>11, <2>2 DEF Reserve, Goto, Keep
    <3>2. /\ Stepping' /\ pc'[p] = "rename" /\ (\A q \in Process \ {p} : pc'[q] = pc[q])
          /\ kind = "report"
      BY <3>1 DEF PublishingInv, Stepping
    <3>3. place.holds = {}
      BY <2>2 DEF Nothing
    <3> QED BY <3>1, <3>2, <3>3, StepInPlace
  <2> QED BY <2>1, <2>2
<1>12. ASSUME NEW p \in Process, Rename(p) PROVE PublishingInv'
  <2>1. kind = "report" /\ stage[p] = "whole" /\ UNCHANGED <<kind, seen, others>> /\ pc[p] = "rename"
    BY <1>12 DEF Rename, PublishingInv, Stepping
  <2>2. CASE /\ place.holds = {} /\ place' = Made(p, {stage[p]}) /\ Keep
             /\ stage' = [stage EXCEPT ![p] = "none"] /\ Goto(p, "returned")
    <3>1. Stepping' /\ \A q \in Process \ {p} : pc'[q] = pc[q]
      BY <2>1, <2>2 DEF Goto, PublishingInv, Stepping
    <3>2. place' = Made(p, {"whole"}) /\ kept' = place'
      BY <2>1, <2>2 DEF Keep
    <3> QED BY <2>1, <2>2, <3>1, <3>2, StepInPlace
  <2>3. CASE UNCHANGED <<place, stage, kept>> /\ Goto(p, "unreserve")
    <3>1. Stepping' /\ pc'[p] = "unreserve" /\ \A q \in Process \ {p} : pc'[q] = pc[q]
      BY <2>1, <2>3 DEF Goto, PublishingInv, Stepping
    <3> QED BY <2>1, <2>3, <3>1, StepElsewhere
  <2> QED BY <1>12, <2>2, <2>3 DEF Rename
<1>13. ASSUME NEW p \in Process, Unreserve(p) PROVE PublishingInv'
  <2>1. /\ kind = "report" /\ UNCHANGED <<kind, stage, seen, others>> /\ pc[p] = "unreserve"
        /\ pc' = [pc EXCEPT ![p] = "clean fail"] /\ seen[p] = Made(p, {})
    BY <1>13 DEF Unreserve, Goto, PublishingInv, Stepping
  <2>2. Stepping' /\ pc'[p] = "clean fail" /\ \A q \in Process \ {p} : pc'[q] = pc[q]
    BY <2>1 DEF PublishingInv, Stepping
  <2>3. CASE place # seen[p]
    <3>1. UNCHANGED <<place, kept>>
      BY <1>13, <2>3 DEF Unreserve
    <3> QED BY <2>1, <2>2, <3>1, StepElsewhere
  <2>4. CASE place = seen[p]
    <3>1. place' = Nothing /\ kept' = Nothing
      BY <1>13, <2>4 DEF Unreserve
    <3>2. place = Made(p, {}) /\ place.holds = {} /\ Nothing.holds = {} /\ "holds" \in DOMAIN Nothing
      <4>1. place = Made(p, {})
        BY <2>1, <2>4
      <4> QED BY <4>1, MadeHolds
    <3>3. InPlace'
      BY <3>1, <3>2 DEF InPlace
    <3>4. Returned'
      <4> SUFFICES ASSUME NEW q \in Process, pc'[q] = "returned", others = 0 PROVE FALSE
        BY <2>1 DEF Returned
      <4>1. pc[q] = "returned"
        BY <2>2
      <4>2. place = Made(q, {"whole"})
        BY <2>1, <4>1 DEF PublishingInv, Returned
      <4> QED BY <3>2, <4>2, MadeHolds
    <3>5. Growing'
      BY <2>1 DEF Growing
    <3> QED BY <2>2, <3>3, <3>4, <3>5 DEF PublishingInv
  <2> QED BY <2>3, <2>4
<1>14. ASSUME NEW p \in Process, Link(p) PROVE PublishingInv'
  <2>1. kind = "file" /\ stage[p] = "whole" /\ UNCHANGED <<kind, stage, seen, others>> /\ pc[p] = "link"
    BY <1>14 DEF Link, PublishingInv, Stepping
  <2>2. CASE Goto(p, "clean fail") /\ UNCHANGED <<place, kept>>
    <3>1. Stepping' /\ pc'[p] = "clean fail" /\ \A q \in Process \ {p} : pc'[q] = pc[q]
      BY <2>1, <2>2 DEF Goto, PublishingInv, Stepping
    <3> QED BY <2>1, <2>2, <3>1, StepElsewhere
  <2>3. CASE place' = Made(p, {stage[p]}) /\ Keep /\ Goto(p, "clean ok")
    <3>1. Stepping' /\ pc'[p] = "clean ok" /\ \A q \in Process \ {p} : pc'[q] = pc[q]
      BY <2>1, <2>3 DEF Goto, PublishingInv, Stepping
    <3>2. place' = Made(p, {"whole"}) /\ kept' = place'
      BY <2>1, <2>3 DEF Keep
    <3> QED BY <2>1, <3>1, <3>2, StepInPlace
  <2> QED BY <1>14, <2>2, <2>3 DEF Link
<1>15. ASSUME NEW p \in Process, MakeRoot(p) PROVE PublishingInv'
  <2>1. /\ kind = "repository" /\ UNCHANGED <<kind, stage, seen, others>>
        /\ pc' = [pc EXCEPT ![p] = "config"] /\ kept' = place'
    BY <1>15 DEF MakeRoot, Goto, Keep
  <2>2. Stepping' /\ pc'[p] = "config" /\ \A q \in Process \ {p} : pc'[q] = pc[q]
    BY <2>1 DEF PublishingInv, Stepping
  <2>3. place' = place \/ (place.holds = {} /\ place'.holds = {} /\ "holds" \in DOMAIN place')
    BY <1>15, MadeHolds DEF MakeRoot
  <2>4. InPlace' /\ Returned'
    BY <2>1, <2>3 DEF PublishingInv, InPlace, Returned
  <2>5. Growing'
    BY <2>1, <2>2, <2>3 DEF PublishingInv, Growing
  <2> QED BY <2>2, <2>4, <2>5 DEF PublishingInv
<1>16. ASSUME NEW p \in Process, MakeChunks(p) PROVE PublishingInv'
  BY <1>16, StepMakes DEF MakeChunks
<1>17. ASSUME NEW p \in Process, MakeSnapshots(p) PROVE PublishingInv'
  BY <1>17, StepMakes DEF MakeSnapshots
<1>18. ASSUME NEW p \in Process, SaveConfig(p) PROVE PublishingInv'
  BY <1>18, StepMakes DEF SaveConfig
<1>19. CASE OtherProgram
  <2>1. /\ UNCHANGED <<kind, pc, stage, seen>> /\ others' = others + 1 /\ kept' = place'
        /\ "part" \notin place'.holds /\ "holds" \in DOMAIN place'
    BY <1>19, MadeHolds DEF OtherProgram, Keep
  <2>2. others' \in Nat /\ others' # 0
    <3>1. others \in Nat
      BY DEF PublishingInv, Stepping
    <3> QED BY <2>1, <3>1
  <2>3. Stepping'
    BY <2>1, <2>2 DEF PublishingInv, Stepping
  <2> QED BY <2>1, <2>2, <2>3 DEF PublishingInv, InPlace, Returned, Growing
<1> QED BY <1>1, <1>2, <1>3, <1>4, <1>5, <1>6, <1>7, <1>8, <1>9, <1>10, <1>11, <1>12, <1>13, <1>14, <1>15, <1>16, <1>17, <1>18, <1>19 DEF PublishingNext

LEMMA InvWhole == PublishingInv => PublishedWhole
  BY DEF PublishingInv, InPlace, Growing, PublishedWhole

LEMMA InvOneReport == PublishingInv => OneReport
<1> DEFINE done == {p \in Process : pc[p] = "returned"}
<1> SUFFICES ASSUME PublishingInv, kind = "report", others = 0 PROVE Cardinality(done) <= 1
  BY DEF OneReport
<1>1. ASSUME NEW p \in done, NEW q \in done PROVE p = q
  <2>1. place = Made(p, {"whole"}) /\ place = Made(q, {"whole"})
    BY DEF PublishingInv, Returned
  <2>2. place.owner = p /\ place.owner = q
    BY <2>1, MadeHolds
  <2> QED BY <2>2
<1>2. CASE done = {}
  BY <1>2, FS_EmptySet
<1>3. CASE done # {}
  <2>1. PICK p \in done : TRUE
    BY <1>3
  <2>2. done = {p}
    BY <1>1, <2>1
  <2> HIDE DEF done
  <2>3. Cardinality(done) = 1
    BY <2>2, FS_Singleton, Zenon
  <2> QED BY <2>3
<1> QED BY <1>2, <1>3

LEMMA StepTakesNothing ==
  ASSUME PublishingInv, PublishingNext, place.holds # {}
  PROVE  place.holds \subseteq place'.holds \/ OtherProgram \/ \E p \in Overwrite : Link(p)
<1>1. place # Nothing
  BY MadeHolds
<1>2. ASSUME NEW p \in Process, Unreserve(p) PROVE place' = place
  <2>1. seen[p] = Made(p, {})
    BY <1>2 DEF Unreserve, PublishingInv, Stepping
  <2>2. place # seen[p]
    BY <2>1, MadeHolds
  <2> QED BY <1>2, <2>2 DEF Unreserve
<1>3. ASSUME NEW p \in Process, Link(p), p \notin Overwrite PROVE place' = place
  BY <1>1, <1>3 DEF Link
<1>4. ASSUME NEW p \in Process, Reserve(p) \/ Rename(p) \/ MakeRoot(p) PROVE place' = place
  BY <1>1, <1>4 DEF Reserve, Rename, MakeRoot
<1>5. ASSUME NEW p \in Process, NEW at, NEW part, NEW next, Make(p, at, part, next)
      PROVE  place.holds \subseteq place'.holds
  <2>1. place' = place \/ place' = [place EXCEPT !.holds = @ \cup {part}]
    BY <1>5 DEF Make
  <2> QED BY <2>1 DEF PublishingInv, InPlace
<1>6. ASSUME NEW p \in Process, MakeChunks(p) \/ MakeSnapshots(p) \/ SaveConfig(p)
      PROVE  place.holds \subseteq place'.holds
  BY <1>5, <1>6 DEF MakeChunks, MakeSnapshots, SaveConfig
<1>7. ASSUME NEW p \in Process, Kill(p) \/ Cleanup(p) \/ Preserve(p) \/ Batch(p) \/ Stat(p) \/ CopyTo(p)
                                \/ AskConfig(p) \/ AskEmpty(p) \/ OpenIt(p)
      PROVE  place' = place
  BY <1>7 DEF Kill, Cleanup, Preserve, Batch, Stat, CopyTo, AskConfig, AskEmpty, OpenIt
<1>8. ASSUME NEW p \in Process, Link(p) PROVE place' = place \/ \E q \in Overwrite : Link(q)
  BY <1>3, <1>8
<1> QED BY <1>2, <1>4, <1>6, <1>7, <1>8 DEF PublishingNext

\* Whatever any number of processes and another program do at a name, and whoever
\* is killed: no part of a report or a file is ever seen there, and a repository
\* with its configuration has its directories.
THEOREM WholePublished == PublishingSpec => []PublishedWhole
<1>1. PublishingInv /\ [PublishingNext]_publishing => PublishingInv'
  BY PublishingStep
<1> QED BY <1>1, PublishingInitInv, InvWhole, PTL DEF PublishingSpec

\* At most one of any number of processes returns for a report, unless another
\* program has removed one.
THEOREM OneReturned == PublishingSpec => []OneReport
<1>1. PublishingInv /\ [PublishingNext]_publishing => PublishingInv'
  BY PublishingStep
<1> QED BY <1>1, PublishingInitInv, InvOneReport, PTL DEF PublishingSpec

\* Nobody who gives up takes away what another has put in place and filled, and
\* nobody replaces it who was not told to.
THEOREM OthersKept == PublishingSpec => NothingTaken
<1>1. PublishingInv /\ [PublishingNext]_publishing => PublishingInv'
  BY PublishingStep
<1>2. PublishingInv /\ [PublishingNext]_publishing =>
        [place.holds # {} => \/ place.holds \subseteq place'.holds
                             \/ OtherProgram
                             \/ \E p \in Overwrite : Link(p)]_publishing
  BY StepTakesNothing
<1> QED BY <1>1, <1>2, PublishingInitInv, PTL DEF PublishingSpec, NothingTaken
------------------------------------------------------------------------------
(* The original's files behind their cache.                                *)
(* What DOS and the program know of a file agrees: the position, and the   *)
(* length if it is known.                                                  *)
Based(f) ==
    /\ DOMAIN f = {"disk", "dos", "pos", "len", "mode", "held", "offset", "vfptr", "free", "out"}
    /\ f.disk \in Seq(Nat) /\ f.pos \in Nat /\ f.dos = f.pos /\ f.len \in {UNKN, Len(f.disk)}
    /\ f.held \in Seq(Nat) /\ f.offset \in Nat /\ f.vfptr \in Nat /\ f.free \in Nat

(* A write cache ends at the caller's position; a read cache has what is   *)
(* on disk where it lies; without a cache nothing is held.                 *)
Sound(f) ==
    /\ Based(f)
    /\ Len(View(f)) < UNKN
    /\ f.mode \in {"NONE", "READ", "WRIT", "CLOSED"}
    /\ f.mode \in {"NONE", "CLOSED"} => f.held = <<>>
    /\ f.mode = "READ" => f.held = Part(f.disk, f.offset + 1, f.offset + Len(f.held))
    /\ f.mode = "WRIT" => f.vfptr = f.offset + Len(f.held)

FilesInv ==
    /\ Sound(file)
    /\ opening \in {<<>>} \cup (Modes \X Insistence)
    /\ opening # <<>> => file.mode = "NONE"
    /\ want = View(file)
    /\ Len(want) <= MaxLen
    /\ opening = <<>> /\ file.mode # "CLOSED" => Tell(file) = due
    /\ due \in Nat /\ steps \in Nat
    /\ answered[1] = answered[2]
    /\ taken \in Int /\ file.free + Held(file) + taken = BLOCKS

LEMMA SameCells ==
  ASSUME NEW s \in Seq(Nat), NEW t \in Seq(Nat), Len(s) = Len(t), \A k \in 1..Len(s) : s[k] = t[k]
  PROVE  s = t
BY SeqEqual

LEMMA FunctionCells ==
  ASSUME NEW n \in Nat, NEW s \in [1..n -> Nat]
  PROVE  s \in Seq(Nat) /\ Len(s) = n /\ DOMAIN s = 1..n
OBVIOUS

LEMMA ElementCells ==
  ASSUME NEW s \in Seq(Nat)
  PROVE  Len(s) \in Nat /\ DOMAIN s = 1..Len(s) /\ \A k \in 1..Len(s) : s[k] \in Nat
OBVIOUS

LEMMA JoinedCells ==
  ASSUME NEW s \in Seq(Nat), NEW t \in Seq(Nat)
  PROVE  /\ s \o t \in Seq(Nat) /\ Len(s \o t) = Len(s) + Len(t)
         /\ \A k \in 1..Len(s) : (s \o t)[k] = s[k]
         /\ \A k \in Len(s) + 1..Len(s) + Len(t) : (s \o t)[k] = t[k - Len(s)]
OBVIOUS

LEMMA EmptyCells ==
  /\ <<>> \in Seq(Nat) /\ Len(<<>>) = 0
  /\ \A s \in Seq(Nat) : Len(s) = 0 <=> s = <<>>
<1>1. <<>> \in Seq(Nat) /\ Len(<<>>) = 0
  OBVIOUS
<1>2. ASSUME NEW s \in Seq(Nat) PROVE Len(s) = 0 <=> s = <<>>
  BY EmptySeq
<1> QED
  BY <1>1, <1>2

LEMMA OneCell ==
  ASSUME NEW c \in Nat
  PROVE  <<c>> \in Seq(Nat) /\ Len(<<c>>) = 1 /\ <<c>>[1] = c
OBVIOUS

LEMMA PutFacts ==
  ASSUME NEW d \in Seq(Nat), NEW at \in Nat, NEW c \in Seq(Nat)
  PROVE  /\ Put(d, at, c) \in Seq(Nat)
         /\ Len(Put(d, at, c)) = IF at + Len(c) > Len(d) THEN at + Len(c) ELSE Len(d)
         /\ \A k \in 1..Len(Put(d, at, c)) :
              Put(d, at, c)[k] = IF k > at /\ k <= at + Len(c) THEN c[k - at] ELSE IF k <= Len(d) THEN d[k] ELSE Gap
<1> DEFINE n == IF at + Len(c) > Len(d) THEN at + Len(c) ELSE Len(d)
           el(k) == IF k > at /\ k <= at + Len(c) THEN c[k - at] ELSE IF k <= Len(d) THEN d[k] ELSE Gap
<1>1. n \in Nat /\ Len(c) \in Nat /\ Len(d) \in Nat
  BY ElementCells
<1>2. \A k \in 1..n : el(k) \in Nat
  BY <1>1, ElementCells DEF Gap
<1>3. Put(d, at, c) = [k \in 1..n |-> el(k)]
  BY DEF Put
<1> HIDE DEF n, el
<1>4. Put(d, at, c) \in [1..n -> Nat] /\ \A k \in 1..n : Put(d, at, c)[k] = el(k)
  BY <1>2, <1>3
<1>5. Put(d, at, c) \in Seq(Nat) /\ Len(Put(d, at, c)) = n
  BY <1>1, <1>4, FunctionCells
<1> QED
  BY <1>4, <1>5 DEF n, el

LEMMA PutEmpty ==
  ASSUME NEW d \in Seq(Nat), NEW at \in 0..Len(d)
  PROVE  Put(d, at, <<>>) = d
<1>1. <<>> \in Seq(Nat) /\ Len(<<>>) = 0 /\ Len(d) \in Nat
  BY EmptyCells, ElementCells
<1> DEFINE c == <<>>
           p == Put(d, at, c)
<1>2. c \in Seq(Nat) /\ Len(c) = 0 /\ at \in Nat
  BY <1>1
<1> HIDE DEF c
<1>3. /\ p \in Seq(Nat)
      /\ Len(p) = IF at + Len(c) > Len(d) THEN at + Len(c) ELSE Len(d)
      /\ \A k \in 1..Len(p) : p[k] = IF k > at /\ k <= at + Len(c) THEN c[k - at] ELSE IF k <= Len(d) THEN d[k] ELSE Gap
  BY <1>2, PutFacts
<1> HIDE DEF p
<1>4. Len(p) = Len(d)
  BY <1>1, <1>2, <1>3
<1>5. \A k \in 1..Len(d) : p[k] = d[k]
  BY <1>1, <1>2, <1>3, <1>4
<1>6. p = d
  BY <1>3, <1>4, <1>5, SameCells
<1> QED
  BY <1>6 DEF p, c

\* A transfer that is begun again from its start leaves what it would have left at once.
LEMMA PutAgain ==
  ASSUME NEW d \in Seq(Nat), NEW at \in Nat, NEW c \in Seq(Nat), c # <<>>
  PROVE  Put(Put(d, at, <<c[1]>>), at, c) = Put(d, at, c) /\ Put(d, at, <<c[1]>>) \in Seq(Nat)
<1>1. Len(c) \in Nat /\ Len(c) >= 1 /\ c[1] \in Nat /\ Len(d) \in Nat
  BY EmptyCells, ElementCells
<1>2. <<c[1]>> \in Seq(Nat) /\ Len(<<c[1]>>) = 1
  BY <1>1, OneCell
<1> DEFINE e == Put(d, at, <<c[1]>>)
<1>3. /\ e \in Seq(Nat)
      /\ Len(e) = IF at + 1 > Len(d) THEN at + 1 ELSE Len(d)
      /\ \A k \in 1..Len(e) : ~(k > at /\ k <= at + 1) => e[k] = IF k <= Len(d) THEN d[k] ELSE Gap
  BY <1>2, PutFacts
<1> HIDE DEF e
<1> DEFINE l == Put(e, at, c)
           r == Put(d, at, c)
<1>4. /\ l \in Seq(Nat)
      /\ Len(l) = IF at + Len(c) > Len(e) THEN at + Len(c) ELSE Len(e)
      /\ \A k \in 1..Len(l) : l[k] = IF k > at /\ k <= at + Len(c) THEN c[k - at] ELSE IF k <= Len(e) THEN e[k] ELSE Gap
  BY <1>1, <1>3, PutFacts
<1>5. /\ r \in Seq(Nat)
      /\ Len(r) = IF at + Len(c) > Len(d) THEN at + Len(c) ELSE Len(d)
      /\ \A k \in 1..Len(r) : r[k] = IF k > at /\ k <= at + Len(c) THEN c[k - at] ELSE IF k <= Len(d) THEN d[k] ELSE Gap
  BY <1>1, PutFacts
<1> HIDE DEF l, r
<1>6. Len(l) = Len(r) /\ Len(l) \in Nat /\ Len(e) \in Nat
  BY <1>1, <1>3, <1>4, <1>5
<1>7. ASSUME NEW k \in 1..Len(l) PROVE l[k] = r[k]
  <2>1. CASE k > at /\ k <= at + Len(c)
    BY <2>1, <1>4, <1>5, <1>6
  <2>2. CASE ~(k > at /\ k <= at + Len(c))
    <3>1. ~(k > at /\ k <= at + 1)
      BY <2>2, <1>1
    <3>2. l[k] = IF k <= Len(e) THEN e[k] ELSE Gap
      BY <2>2, <1>4
    <3>3. r[k] = IF k <= Len(d) THEN d[k] ELSE Gap
      BY <2>2, <1>5, <1>6
    <3>4. k \in Nat /\ (k <= Len(e) => k \in 1..Len(e)) /\ (k <= Len(d) => k <= Len(e))
      BY <1>1, <1>3, <1>6
    <3> QED
      BY <1>3, <3>1, <3>2, <3>3, <3>4
  <2> QED
    BY <2>1, <2>2
<1>8. l = r
  BY <1>4, <1>5, <1>6, <1>7, SameCells
<1> QED
  BY <1>3, <1>8 DEF e, l, r

LEMMA LaterEnd ==
  ASSUME NEW at \in Nat, NEW m \in Nat, NEW n \in Nat, NEW d \in Nat, NEW e \in Nat, e = IF at + m > d THEN at + m ELSE d
  PROVE  (IF at + m + n > e THEN at + m + n ELSE e) = IF at + (m + n) > d THEN at + (m + n) ELSE d
OBVIOUS

\* What is put behind what was put is put with it.
LEMMA PutBehind ==
  ASSUME NEW d \in Seq(Nat), NEW at \in Nat, NEW b \in Seq(Nat), NEW c \in Seq(Nat)
  PROVE  Put(Put(d, at, b), at + Len(b), c) = Put(d, at, b \o c)
<1>1. Len(b) \in Nat /\ Len(c) \in Nat /\ Len(d) \in Nat /\ at + Len(b) \in Nat
  BY ElementCells
<1> DEFINE e == Put(d, at, b)
<1>2. /\ e \in Seq(Nat)
      /\ Len(e) = IF at + Len(b) > Len(d) THEN at + Len(b) ELSE Len(d)
      /\ \A k \in 1..Len(e) : e[k] = IF k > at /\ k <= at + Len(b) THEN b[k - at] ELSE IF k <= Len(d) THEN d[k] ELSE Gap
  BY PutFacts
<1> HIDE DEF e
<1> DEFINE j == b \o c
<1>3. /\ j \in Seq(Nat) /\ Len(j) = Len(b) + Len(c)
      /\ \A k \in 1..Len(b) : j[k] = b[k]
      /\ \A k \in Len(b) + 1..Len(b) + Len(c) : j[k] = c[k - Len(b)]
  BY JoinedCells
<1> HIDE DEF j
<1> DEFINE l == Put(e, at + Len(b), c)
           r == Put(d, at, j)
<1>4. /\ l \in Seq(Nat)
      /\ Len(l) = IF at + Len(b) + Len(c) > Len(e) THEN at + Len(b) + Len(c) ELSE Len(e)
      /\ \A k \in 1..Len(l) : l[k] = IF k > at + Len(b) /\ k <= at + Len(b) + Len(c) THEN c[k - (at + Len(b))] ELSE IF k <= Len(e) THEN e[k] ELSE Gap
  BY <1>1, <1>2, PutFacts
<1>5. /\ r \in Seq(Nat)
      /\ Len(r) = IF at + Len(j) > Len(d) THEN at + Len(j) ELSE Len(d)
      /\ \A k \in 1..Len(r) : r[k] = IF k > at /\ k <= at + Len(j) THEN j[k - at] ELSE IF k <= Len(d) THEN d[k] ELSE Gap
  BY <1>1, <1>3, PutFacts
<1> HIDE DEF l, r
<1>6. Len(l) = Len(r) /\ Len(l) \in Nat /\ Len(e) \in Nat
  <2>1. Len(e) \in Nat /\ Len(l) \in Nat /\ Len(r) \in Nat /\ Len(j) \in Nat
    BY <1>2, <1>3, <1>4, <1>5, ElementCells
  <2>2. Len(e) = (IF at + Len(b) > Len(d) THEN at + Len(b) ELSE Len(d)) /\ Len(j) = Len(b) + Len(c)
    BY <1>2, <1>3
  <2>3. Len(l) = (IF at + Len(b) + Len(c) > Len(e) THEN at + Len(b) + Len(c) ELSE Len(e))
    BY <1>4
  <2>4. Len(r) = (IF at + Len(j) > Len(d) THEN at + Len(j) ELSE Len(d))
    BY <1>5
  <2>5. Len(l) = (IF at + (Len(b) + Len(c)) > Len(d) THEN at + (Len(b) + Len(c)) ELSE Len(d))
    <3> DEFINE lb == Len(b)
               lc == Len(c)
               ld == Len(d)
               le == Len(e)
    <3>1. lb \in Nat /\ lc \in Nat /\ ld \in Nat /\ le \in Nat /\ le = IF at + lb > ld THEN at + lb ELSE ld
      BY <2>1, <2>2, <1>1
    <3>2. Len(l) = IF at + lb + lc > le THEN at + lb + lc ELSE le
      BY <2>3
    <3> HIDE DEF lb, lc, ld, le
    <3>3. (IF at + lb + lc > le THEN at + lb + lc ELSE le) = IF at + (lb + lc) > ld THEN at + (lb + lc) ELSE ld
      BY <3>1, LaterEnd
    <3>4. Len(l) = IF at + (lb + lc) > ld THEN at + (lb + lc) ELSE ld
      BY <3>2, <3>3
    <3> QED
      BY <3>4 DEF lb, lc, ld
  <2> QED
    BY <2>1, <2>2, <2>4, <2>5
<1>7. ASSUME NEW k \in 1..Len(l) PROVE l[k] = r[k]
  <2>6. /\ k \in Nat /\ k >= 1 /\ k <= Len(l) /\ k \in 1..Len(r)
        /\ (k <= at + Len(b) => k \in 1..Len(e)) /\ (k <= Len(d) => k \in 1..Len(e)) /\ (k <= Len(e) => k \in 1..Len(e))
    BY <1>1, <1>2, <1>6
  <2>7. l[k] = IF k > at + Len(b) /\ k <= at + Len(b) + Len(c) THEN c[k - (at + Len(b))] ELSE IF k <= Len(e) THEN e[k] ELSE Gap
    BY <1>4
  <2>8. r[k] = IF k > at /\ k <= at + Len(j) THEN j[k - at] ELSE IF k <= Len(d) THEN d[k] ELSE Gap
    BY <1>5, <2>6
  <2>1. CASE k <= at
    <3>1. l[k] = IF k <= Len(e) THEN e[k] ELSE Gap
      BY <2>1, <2>6, <2>7, <1>1
    <3>2. r[k] = IF k <= Len(d) THEN d[k] ELSE Gap
      BY <2>1, <2>6, <2>8, <1>1
    <3>3. k <= Len(e) => e[k] = IF k <= Len(d) THEN d[k] ELSE Gap
      BY <2>1, <2>6, <1>1, <1>2
    <3> QED
      BY <3>1, <3>2, <3>3, <2>6, <1>1, <1>6
  <2>2. CASE k > at /\ k <= at + Len(b)
    <3>1. k <= Len(e) /\ k \in 1..Len(e)
      BY <2>2, <2>6, <1>1
    <3>2. l[k] = e[k]
      BY <2>2, <2>6, <2>7, <1>1, <3>1
    <3>3. e[k] = b[k - at]
      BY <2>2, <3>1, <1>2
    <3>0. k \in Nat /\ k > at /\ k <= at + Len(b) /\ Len(j) = Len(b) + Len(c)
      BY <2>2, <2>6, <1>3
    <3>4. k - at \in 1..Len(b) /\ k <= at + Len(j)
      BY <3>0, <1>1
    <3>5. r[k] = j[k - at]
      BY <2>2, <2>8, <3>4
    <3>6. j[k - at] = b[k - at]
      BY <3>4, <1>3
    <3> QED
      BY <3>2, <3>3, <3>5, <3>6
  <2>3. CASE k > at + Len(b) /\ k <= at + Len(b) + Len(c)
    <3>1. l[k] = c[k - (at + Len(b))]
      BY <2>3, <2>7
    <3>2. r[k] = j[k - at] /\ k - at \in Len(b) + 1..Len(b) + Len(c)
      BY <2>3, <2>6, <2>8, <1>1, <1>3
    <3>3. j[k - at] = c[(k - at) - Len(b)]
      BY <3>2, <1>3
    <3>4. (k - at) - Len(b) = k - (at + Len(b))
      BY <1>1
    <3> QED
      BY <3>1, <3>2, <3>3, <3>4
  <2>4. CASE k > at + Len(b) + Len(c)
    <3>1. l[k] = IF k <= Len(e) THEN e[k] ELSE Gap
      BY <2>4, <2>6, <2>7, <1>1
    <3>2. r[k] = IF k <= Len(d) THEN d[k] ELSE Gap
      BY <2>4, <2>6, <2>8, <1>1, <1>3
    <3>3. k \in Nat /\ k >= 1 /\ ~(k > at /\ k <= at + Len(b))
      BY <2>4, <2>6, <1>1
    <3>4. ASSUME k <= Len(e) PROVE e[k] = IF k <= Len(d) THEN d[k] ELSE Gap
      <4>1. k \in 1..Len(e)
        BY <3>3, <3>4, <1>1
      <4> QED
        BY <3>3, <4>1, <1>2
    <3> QED
      BY <3>1, <3>2, <3>4, <2>6, <1>1, <1>6
  <2>5. k \in Nat
    BY <1>4, ElementCells
  <2> QED
    BY <2>1, <2>2, <2>3, <2>4, <2>5, <1>1
<1> QED
  BY <1>4, <1>5, <1>6, <1>7, SameCells DEF l, r, e, j

\* The smaller of two ends, measured from a start before both of them, and from one behind the second.
LEMMA LeastFrom ==
  ASSUME NEW a \in Nat, NEW n \in Nat, NEW d \in Nat
  PROVE  /\ a < d => /\ Least(a + n, d) \in a..d
                     /\ Least(a + n, d) - a = Least(n, d - a)
         /\ a >= d => Least(a + n, d) <= a
         /\ Least(a + n, d) \in Nat
BY DEF Least

LEMMA LeastShort ==
  ASSUME NEW a \in Nat, NEW n \in Nat, NEW d \in Nat, a <= d, NEW p \in Nat, p # n, p = IF a >= d THEN 0 ELSE Least(n, d - a)
  PROVE  a + p = d
BY DEF Least

LEMMA LeastWithin ==
  ASSUME NEW a \in Nat, NEW m \in Nat, NEW d \in Nat, NEW n \in Nat, n >= 1, n <= m, a + n <= d, NEW b \in Nat, m <= b
  PROVE  /\ Least(m, d - a) \in 1..b /\ n <= Least(m, d - a)
         /\ Least(a + m, d) = Least(a + Least(m, d - a), d)
<1>1. CASE m < d - a
  BY <1>1 DEF Least
<1>2. CASE ~(m < d - a)
  <2>1. Least(m, d - a) = d - a /\ d - a <= m /\ d - a >= n
    BY <1>2 DEF Least
  <2>2. Least(a + m, d) = d /\ Least(a + (d - a), d) = d
    BY <2>1 DEF Least
  <2> QED
    BY <2>1, <2>2
<1> QED
  BY <1>1, <1>2

LEMMA PartFacts ==
  ASSUME NEW d \in Seq(Nat), NEW a \in Nat, NEW n \in Nat
  PROVE  /\ Part(d, a + 1, a + n) \in Seq(Nat)
         /\ Len(Part(d, a + 1, a + n)) = IF a >= Len(d) THEN 0 ELSE Least(n, Len(d) - a)
         /\ \A k \in 1..Len(Part(d, a + 1, a + n)) : Part(d, a + 1, a + n)[k] = d[a + k]
<1>1. Len(d) \in Nat
  BY ElementCells
<1>2. CASE a >= Len(d)
  <2>1. Least(a + n, Len(d)) <= a /\ Least(a + n, Len(d)) \in Nat
    BY <1>1, <1>2, LeastFrom
  <2>2. Part(d, a + 1, a + n) = <<>>
    BY <2>1, SubSeqEmpty DEF Part
  <2> DEFINE q == Part(d, a + 1, a + n)
  <2>3. q \in Seq(Nat) /\ Len(q) = 0
    BY <2>2, EmptyCells
  <2> HIDE DEF q
  <2>4. \A k \in 1..Len(q) : q[k] = d[a + k]
    BY <2>3
  <2>5. Len(q) = IF a >= Len(d) THEN 0 ELSE Least(n, Len(d) - a)
    BY <2>3, <1>2
  <2> QED
    BY <2>3, <2>4, <2>5 DEF q
<1>3. CASE a < Len(d)
  <2> DEFINE to == Least(a + n, Len(d))
  <2>1. to \in a..Len(d) /\ to - a = Least(n, Len(d) - a) /\ a + 1 \in 1..Len(d) + 1
    <3> DEFINE e == Len(d)
    <3>1. e \in Nat /\ a < e
      BY <1>1, <1>3
    <3> HIDE DEF e
    <3>2. Least(a + n, e) \in a..e /\ Least(a + n, e) - a = Least(n, e - a)
      BY <3>1, LeastFrom, Zenon
    <3>3. a + 1 \in 1..e + 1
      BY <3>1
    <3> QED
      BY <3>2, <3>3 DEF e
  <2> HIDE DEF to
  <2>2. /\ SubSeq(d, a + 1, to) \in Seq(Nat)
        /\ Len(SubSeq(d, a + 1, to)) = IF a + 1 <= to THEN to - (a + 1) + 1 ELSE 0
        /\ \A k \in 1..(to - (a + 1) + 1) : SubSeq(d, a + 1, to)[k] = d[(a + 1) + k - 1]
    <3>1. \A i \in a + 1..to : d[i] \in Nat
      BY <2>1, <1>1, ElementCells
    <3> QED
      BY <3>1, <2>1, <1>1, SubSeqProperties
  <2>3. Part(d, a + 1, a + n) = SubSeq(d, a + 1, to)
    BY DEF Part, to
  <2>4. Len(SubSeq(d, a + 1, to)) = to - a
    <3>1. to \in Nat /\ a <= to
      BY <2>1, <1>1
    <3>2. (IF a + 1 <= to THEN to - (a + 1) + 1 ELSE 0) = to - a
      BY <3>1
    <3> QED
      BY <2>2, <3>2
  <2>5. \A k \in 1..to - a : SubSeq(d, a + 1, to)[k] = d[a + k]
    <3> DEFINE s == SubSeq(d, a + 1, to)
    <3>1. \A k \in 1..(to - (a + 1) + 1) : s[k] = d[(a + 1) + k - 1]
      BY <2>2
    <3> HIDE DEF s
    <3>2. to \in Nat /\ to - (a + 1) + 1 = to - a
      BY <2>1, <1>1
    <3>3. \A k \in 1..to - a : (a + 1) + k - 1 = a + k
      BY <3>2
    <3>4. \A k \in 1..to - a : s[k] = d[(a + 1) + k - 1]
      BY <3>1, <3>2
    <3>5. \A k \in 1..to - a : s[k] = d[a + k]
      BY <3>3, <3>4
    <3> QED
      BY <3>5 DEF s
  <2> DEFINE q == Part(d, a + 1, a + n)
  <2>6. q \in Seq(Nat) /\ Len(q) = to - a /\ \A k \in 1..to - a : q[k] = d[a + k]
    BY <2>2, <2>3, <2>4, <2>5
  <2> HIDE DEF q
  <2>7. Len(q) = IF a >= Len(d) THEN 0 ELSE Least(n, Len(d) - a)
    BY <2>1, <2>6, <1>1, <1>3
  <2> QED
    BY <2>6, <2>7 DEF q
<1> QED
  BY <1>1, <1>2, <1>3

(* Blocks that n cells take.                                               *)
Blocks(n) == (n + BLOCK - 1) \div BLOCK

LEMMA Division ==
  ASSUME NEW b \in Nat \ {0}, NEW a \in Int
  PROVE  a \div b \in Int /\ a % b \in 0..b - 1 /\ a = b * (a \div b) + (a % b)
OBVIOUS

LEMMA NextMultiple ==
  ASSUME NEW b \in Nat \ {0}, NEW q \in Int, NEW p \in Int, q > p
  PROVE  b * q >= b * p + b
OBVIOUS

LEMMA DivisionUnique ==
  ASSUME NEW b \in Nat \ {0}, NEW q \in Int, NEW r \in 0..b - 1, NEW a \in Int, a = b * q + r
  PROVE  a \div b = q /\ a % b = r
<1>1. a \div b \in Int /\ a % b \in 0..b - 1 /\ a = b * (a \div b) + (a % b)
  BY Division
<1>2. ~(a \div b > q)
  BY <1>1, NextMultiple
<1>3. ~(a \div b < q)
  BY <1>1, NextMultiple
<1> QED
  BY <1>1, <1>2, <1>3

LEMMA BlocksFew ==
  ASSUME FileCacheAssumption
  PROVE  Blocks(0) = 0 /\ \A n \in 1..BLOCK : Blocks(n) = 1
<1>1. BLOCK \in Nat \ {0}
  BY DEF FileCacheAssumption
<1>2. 0 + BLOCK - 1 = BLOCK * 0 + (BLOCK - 1) /\ BLOCK - 1 \in 0..BLOCK - 1
  BY <1>1
<1>3. Blocks(0) = 0
  BY <1>1, <1>2, DivisionUnique DEF Blocks
<1>4. ASSUME NEW n \in 1..BLOCK PROVE Blocks(n) = 1
  <2>1. n + BLOCK - 1 = BLOCK * 1 + (n - 1) /\ n - 1 \in 0..BLOCK - 1 /\ n + BLOCK - 1 \in Int
    BY <1>1
  <2> QED
    BY <1>1, <2>1, DivisionUnique DEF Blocks
<1> QED
  BY <1>3, <1>4

\* Whole blocks, and one more unless nothing is left over.
LEMMA BlocksOf ==
  ASSUME FileCacheAssumption, NEW n \in Nat
  PROVE  /\ n \div BLOCK \in Nat /\ n % BLOCK \in 0..BLOCK - 1
         /\ Blocks(n) = (n \div BLOCK) + (IF n % BLOCK = 0 THEN 0 ELSE 1)
<1> DEFINE q == n \div BLOCK
           r == n % BLOCK
<1>1. BLOCK \in Nat \ {0}
  BY DEF FileCacheAssumption
<1>2. q \in Int /\ r \in 0..BLOCK - 1 /\ n = BLOCK * q + r
  BY <1>1, Division
<1>3. q \in Nat
  BY <1>1, <1>2, NextMultiple
<1> HIDE DEF q, r
<1>4. CASE r = 0
  <2>1. n + BLOCK - 1 = BLOCK * q + (BLOCK - 1) /\ BLOCK - 1 \in 0..BLOCK - 1 /\ n + BLOCK - 1 \in Int
    BY <1>1, <1>2, <1>4
  <2>2. Blocks(n) = q
    BY <1>1, <1>2, <2>1, DivisionUnique DEF Blocks
  <2> QED
    BY <1>2, <1>3, <1>4, <2>2 DEF q, r
<1>5. CASE r # 0
  <2>1. BLOCK * (q + 1) = BLOCK * q + BLOCK
    BY <1>1, <1>2
  <2> DEFINE up == q + 1
             less == r - 1
  <2>2. n + BLOCK - 1 = BLOCK * up + less /\ less \in 0..BLOCK - 1 /\ n + BLOCK - 1 \in Int /\ up \in Int
    BY <1>1, <1>2, <1>5, <2>1
  <2> HIDE DEF up, less
  <2>3. Blocks(n) = up
    BY <1>1, <2>2, DivisionUnique DEF Blocks
  <2> QED
    BY <1>2, <1>3, <1>5, <2>3 DEF q, r, up
<1> QED
  BY <1>4, <1>5

\* CacheBlocks(): what a write takes is what the cache then holds more.
LEMMA BlocksClaimed ==
  ASSUME FileCacheAssumption, NEW h \in Nat, NEW n \in Nat
  PROVE  /\ Blocks(h + n) = Blocks(h) + Claimed(h % BLOCK, n)
         /\ Claimed(h % BLOCK, n) \in Int /\ Claimed(h % BLOCK, n) <= (n \div BLOCK) + 2
<1> DEFINE q == h \div BLOCK
           r == h % BLOCK
           p == (r + n) \div BLOCK
           s == (r + n) % BLOCK
<1>1. BLOCK \in Nat \ {0}
  BY DEF FileCacheAssumption
<1>2. q \in Nat /\ r \in 0..BLOCK - 1 /\ h = BLOCK * q + r
  BY <1>1, Division, BlocksOf
<1>3. r + n \in Nat
  BY <1>1, <1>2
<1>4. p \in Nat /\ s \in 0..BLOCK - 1 /\ r + n = BLOCK * p + s
  BY <1>1, <1>3, Division, BlocksOf
<1>5. n \div BLOCK \in Nat /\ n % BLOCK \in 0..BLOCK - 1 /\ n = BLOCK * (n \div BLOCK) + (n % BLOCK)
  BY <1>1, Division, BlocksOf
<1>6. Blocks(h) = q + (IF r = 0 THEN 0 ELSE 1)
  BY BlocksOf
<1>7. Claimed(r, n) = (IF r = 0 THEN 1 ELSE 0) + p - (IF s = 0 THEN 1 ELSE 0)
  BY DEF Claimed
<1> HIDE DEF q, r, p, s
<1>8. BLOCK * (q + p) = BLOCK * q + BLOCK * p
  BY <1>1, <1>2, <1>4
<1> DEFINE all == q + p
           cells == h + n
<1>9. cells = BLOCK * all + s /\ all \in Int /\ cells \in Nat
  BY <1>2, <1>3, <1>4, <1>8, <1>1
<1> HIDE DEF all, cells
<1>10. cells \div BLOCK = all /\ cells % BLOCK = s
  BY <1>1, <1>4, <1>9, DivisionUnique
<1>11. Blocks(h + n) = (q + p) + (IF s = 0 THEN 0 ELSE 1)
  BY <1>9, <1>10, BlocksOf DEF all, cells
<1>12. p <= (n \div BLOCK) + 1
  <2>1. BLOCK * ((n \div BLOCK) + 1) = BLOCK * (n \div BLOCK) + BLOCK
    BY <1>1, <1>5
  <2>2. SUFFICES ASSUME p > (n \div BLOCK) + 1 PROVE FALSE
    BY <1>4, <1>5
  <2>3. BLOCK * p >= BLOCK * ((n \div BLOCK) + 1) + BLOCK
    BY <1>1, <1>4, <1>5, <2>2, NextMultiple
  <2> QED
    BY <1>1, <1>2, <1>4, <1>5, <2>1, <2>3
<1>13. Claimed(r, n) \in Int /\ Claimed(r, n) <= (n \div BLOCK) + 2 /\ Blocks(h + n) = Blocks(h) + Claimed(r, n)
  BY <1>2, <1>4, <1>5, <1>6, <1>7, <1>11, <1>12
<1> QED
  BY <1>13 DEF r
------------------------------------------------------------------------------
(* The transfers: what changes and what does not.                          *)
Framed(f, g) == g.mode = f.mode /\ g.held = f.held /\ g.offset = f.offset /\ g.vfptr = f.vfptr /\ g.free = f.free

LEMMA SeekEffect ==
  ASSUME NEW f, Based(f), NEW at \in Nat
  PROVE  Based(I_Seek(f, at)) /\ I_Seek(f, at).pos = at /\ I_Seek(f, at).disk = f.disk /\ Framed(f, I_Seek(f, at))
BY DEF Based, I_Seek, Framed

LEMMA WrittenEffect ==
  ASSUME NEW f, DOMAIN f = {"disk", "dos", "pos", "len", "mode", "held", "offset", "vfptr", "free", "out"}, NEW c
  PROVE  /\ DOMAIN Written(f, c) = DOMAIN f
         /\ Written(f, c).disk = Put(f.disk, f.dos, c) /\ Written(f, c).dos = f.dos + Len(c) /\ Written(f, c).pos = f.pos + Len(c)
         /\ Written(f, c).len = IF f.len < f.pos + Len(c) THEN f.pos + Len(c) ELSE f.len
         /\ Framed(f, Written(f, c))
BY DEF Written, Framed

LEMMA HalfEffect ==
  ASSUME NEW f, Based(f), NEW c \in Seq(Nat), NEW fault \in BOOLEAN
  PROVE  /\ DOMAIN Half(f, c, fault) = DOMAIN f
         /\ Half(f, c, fault).dos = f.pos /\ Half(f, c, fault).pos = f.pos /\ Half(f, c, fault).len = f.len
         /\ Put(Half(f, c, fault).disk, f.pos, c) = Put(f.disk, f.pos, c)
         /\ Framed(f, Half(f, c, fault))
<1>1. CASE ~(fault /\ c # <<>>)
  BY <1>1 DEF Half, Based, Framed
<1>2. CASE fault /\ c # <<>>
  <2> DEFINE h == [f EXCEPT !.disk = Put(@, f.dos, <<c[1]>>), !.dos = @ + 1]
  <2>1. /\ DOMAIN h = DOMAIN f /\ h.disk = Put(f.disk, f.dos, <<c[1]>>) /\ h.pos = f.pos /\ h.len = f.len
        /\ Framed(f, h)
    BY DEF Based, Framed
  <2>2. Half(f, c, fault) = [h EXCEPT !.dos = h.pos]
    BY <1>2 DEF Half, Reseek
  <2> HIDE DEF h
  <2>3. /\ DOMAIN Half(f, c, fault) = DOMAIN f /\ Half(f, c, fault).disk = h.disk /\ Half(f, c, fault).dos = f.pos
        /\ Half(f, c, fault).pos = f.pos /\ Half(f, c, fault).len = f.len /\ Framed(f, Half(f, c, fault))
    BY <2>1, <2>2 DEF Based, Framed
  <2>4. Put(h.disk, f.pos, c) = Put(f.disk, f.pos, c)
    BY <1>2, <2>1, PutAgain DEF Based
  <2> QED
    BY <2>3, <2>4
<1> QED
  BY <1>1, <1>2

LEMMA WriteEffect ==
  ASSUME FileCacheAssumption, NEW f, Based(f), NEW c \in Seq(Nat), NEW fault \in BOOLEAN, Len(Put(f.disk, f.pos, c)) < UNKN
  PROVE  /\ Based(I_Write(f, c, fault)) /\ I_Write(f, c, fault).pos = f.pos + Len(c)
         /\ I_Write(f, c, fault).disk = Put(f.disk, f.pos, c)
         /\ Framed(f, I_Write(f, c, fault))
<1> DEFINE h == Half(f, c, fault)
           g == Written(h, c)
           p == Put(f.disk, f.pos, c)
<1>1. /\ DOMAIN h = DOMAIN f /\ h.dos = f.pos /\ h.pos = f.pos /\ h.len = f.len /\ Put(h.disk, f.pos, c) = p /\ Framed(f, h)
  BY HalfEffect
<1> HIDE DEF h
<1>2. /\ DOMAIN g = DOMAIN f /\ g.disk = p /\ g.dos = f.pos + Len(c) /\ g.pos = f.pos + Len(c)
      /\ g.len = (IF f.len < f.pos + Len(c) THEN f.pos + Len(c) ELSE f.len) /\ Framed(h, g)
  <2>1. DOMAIN h = {"disk", "dos", "pos", "len", "mode", "held", "offset", "vfptr", "free", "out"}
    BY <1>1 DEF Based
  <2>2. /\ DOMAIN g = DOMAIN h /\ g.disk = Put(h.disk, h.dos, c) /\ g.dos = h.dos + Len(c) /\ g.pos = h.pos + Len(c)
        /\ g.len = (IF h.len < h.pos + Len(c) THEN h.pos + Len(c) ELSE h.len) /\ Framed(h, g)
    BY <2>1, WrittenEffect
  <2> HIDE DEF g
  <2> QED
    BY <1>1, <2>2
<1>3. g = I_Write(f, c, fault)
  BY DEF I_Write, h
<1> HIDE DEF g
<1>4. p \in Seq(Nat) /\ Len(p) = (IF f.pos + Len(c) > Len(f.disk) THEN f.pos + Len(c) ELSE Len(f.disk)) /\ Len(p) < UNKN
  BY PutFacts DEF Based
<1> HIDE DEF p
<1>5. Len(c) \in Nat /\ Len(f.disk) \in Nat /\ f.pos \in Nat
  BY ElementCells DEF Based
<1>6. g.len \in {UNKN, Len(p)}
  BY <1>2, <1>4, <1>5 DEF Based, UNKN, FileCacheAssumption
<1>7. Framed(f, g)
  BY <1>1, <1>2 DEF Framed
<1>8. Based(g)
  BY <1>2, <1>4, <1>5, <1>6, <1>7 DEF Based, Framed
<1> QED
  BY <1>2, <1>3, <1>7, <1>8 DEF p

LEMMA ReadEffect ==
  ASSUME NEW f, Based(f), NEW n \in Nat, NEW fault \in BOOLEAN, f.pos <= Len(f.disk)
  PROVE  /\ Based(I_Read(f, n, fault)) /\ I_Read(f, n, fault).out = Part(f.disk, f.pos + 1, f.pos + n)
         /\ I_Read(f, n, fault).pos = f.pos + Len(Part(f.disk, f.pos + 1, f.pos + n))
         /\ I_Read(f, n, fault).disk = f.disk
         /\ Framed(f, I_Read(f, n, fault))
<1> DEFINE h == IF fault THEN Reseek([f EXCEPT !.dos = @ + 1]) ELSE f
           p == Part(f.disk, f.pos + 1, f.pos + n)
           g == Taken(h, n, p)
<1>1. Based(h) /\ h.pos = f.pos /\ h.disk = f.disk /\ Framed(f, h) /\ h.len = f.len
  BY DEF Based, Reseek, Framed
<1> HIDE DEF h
<1>2. I_Read(f, n, fault) = g
  BY <1>1 DEF I_Read, ReadHere, h, Based
<1>3. /\ DOMAIN g = DOMAIN h /\ g.out = p /\ g.dos = h.dos + Len(p) /\ g.pos = h.pos + Len(p) /\ g.disk = h.disk
      /\ g.len = (IF Len(p) # n THEN h.pos + Len(p) ELSE h.len) /\ Framed(h, g)
  BY <1>1 DEF Taken, Based, Framed
<1>4. f.pos \in Nat /\ Len(f.disk) \in Nat
  BY ElementCells DEF Based
<1>5. /\ p \in Seq(Nat) /\ Len(p) \in Nat
      /\ Len(p) = IF f.pos >= Len(f.disk) THEN 0 ELSE Least(n, Len(f.disk) - f.pos)
  <2>1. f.disk \in Seq(Nat)
    BY DEF Based
  <2>2. p \in Seq(Nat) /\ Len(p) = IF f.pos >= Len(f.disk) THEN 0 ELSE Least(n, Len(f.disk) - f.pos)
    BY <1>4, <2>1, PartFacts, Zenon
  <2> HIDE DEF p
  <2> QED
    BY <2>2, ElementCells
<1> HIDE DEF g, p
<1>6. g.len \in {UNKN, Len(g.disk)}
  <2>1. CASE Len(p) = n
    BY <2>1, <1>1, <1>3 DEF Based
  <2>2. CASE Len(p) # n
    <3> DEFINE a == f.pos
               d == Len(f.disk)
               e == Len(p)
    <3>2. /\ a \in Nat /\ d \in Nat /\ e \in Nat /\ a <= d /\ e # n
          /\ e = IF a >= d THEN 0 ELSE Least(n, d - a)
      BY <2>2, <1>4, <1>5
    <3> HIDE DEF a, d, e
    <3>3. a + e = d
      BY <3>2, LeastShort
    <3>1. f.pos + Len(p) = Len(f.disk)
      BY <3>3 DEF a, d, e
    <3> QED
      BY <3>1, <2>2, <1>1, <1>3
  <2> QED
    BY <2>1, <2>2
<1>7. Framed(f, g)
  BY <1>1, <1>3 DEF Framed
<1>8. Based(g)
  <2>1. DOMAIN g = {"disk", "dos", "pos", "len", "mode", "held", "offset", "vfptr", "free", "out"}
    BY <1>1, <1>3 DEF Based
  <2>2. g.disk \in Seq(Nat) /\ g.pos \in Nat /\ g.dos = g.pos
    <3>1. h.pos + Len(p) \in Nat
      BY <1>1, <1>4, <1>5
    <3>2. h.dos = h.pos /\ h.disk \in Seq(Nat)
      BY <1>1 DEF Based
    <3> QED
      BY <1>3, <3>1, <3>2
  <2>3. g.held \in Seq(Nat) /\ g.offset \in Nat /\ g.vfptr \in Nat /\ g.free \in Nat
    BY <1>7 DEF Based, Framed
  <2> QED
    BY <2>1, <2>2, <2>3, <1>6 DEF Based
<1> QED
  BY <1>1, <1>2, <1>3, <1>7, <1>8 DEF p
------------------------------------------------------------------------------
(* The cache: the file that the caller sees stays as it is.                *)
Same(f, g) ==
    /\ Sound(g) /\ g.mode # "CLOSED"
    /\ View(g) = View(f) /\ Tell(g) = Tell(f)
    /\ g.free + Held(g) = f.free + Held(f)

Usable(f) == Sound(f) /\ f.mode # "CLOSED"

LEMMA NoneHeld ==
  ASSUME FileCacheAssumption, NEW f, f.held = <<>>
  PROVE  Held(f) = 0
BY BlocksFew, EmptyCells DEF Held, Blocks

LEMMA SomeHeld ==
  ASSUME FileCacheAssumption, NEW f, f.held \in Seq(Nat)
  PROVE  Held(f) = Blocks(Len(f.held)) /\ Held(f) \in Nat
<1>1. Len(f.held) \in Nat
  BY ElementCells
<1>2. Held(f) = Blocks(Len(f.held))
  BY DEF Held, Blocks
<1> DEFINE n == Len(f.held)
<1> HIDE DEF n
<1>3. n \in Nat
  BY <1>1 DEF n
<1>4. n \div BLOCK \in Nat /\ Blocks(n) = (n \div BLOCK) + (IF n % BLOCK = 0 THEN 0 ELSE 1)
  BY <1>3, BlocksOf
<1>5. Blocks(n) \in Nat
  BY <1>4
<1> QED
  BY <1>2, <1>5 DEF n

LEMMA NothingLies ==
  ASSUME NEW d \in Seq(Nat), NEW a \in Nat
  PROVE  Part(d, a + 1, a + Len(<<>>)) = <<>>
<1>1. Least(a + Len(<<>>), Len(d)) \in Int /\ Least(a + Len(<<>>), Len(d)) < a + 1
  BY ElementCells, EmptyCells DEF Least
<1> QED
  BY <1>1, SubSeqEmpty DEF Part

LEMMA ViewFacts ==
  ASSUME NEW f, Usable(f)
  PROVE  /\ View(f) \in Seq(Nat) /\ Len(View(f)) \in Nat /\ Len(View(f)) < UNKN
         /\ f.mode \in {"NONE", "READ"} => View(f) = f.disk
         /\ f.held = <<>> => View(f) = f.disk
         /\ f.mode = "WRIT" /\ f.held # <<>> => View(f) = Put(f.disk, f.offset, f.held)
         /\ Tell(f) \in Nat
<1>1. /\ f.mode \in {"NONE", "READ"} => View(f) = f.disk
      /\ f.held = <<>> => View(f) = f.disk
      /\ f.mode = "WRIT" /\ f.held # <<>> => View(f) = Put(f.disk, f.offset, f.held)
  BY DEF View
<1>2. View(f) \in Seq(Nat)
  BY PutFacts DEF View, Usable, Sound, Based
<1> QED
  BY <1>1, <1>2, ElementCells DEF Usable, Sound, Based, Tell

LEMMA SavedEffect ==
  ASSUME FileCacheAssumption, NEW f, Usable(f), NEW fault \in BOOLEAN
  PROVE  Based(Saved(f, fault)) /\ Saved(f, fault).disk = View(f) /\ Framed(f, Saved(f, fault))
<1>1. CASE f.mode = "WRIT" /\ f.held # <<>>
  <2> DEFINE s == I_Seek(f, f.offset)
  <2>1. Based(s) /\ s.pos = f.offset /\ s.disk = f.disk /\ Framed(f, s)
    BY SeekEffect DEF Usable, Sound, Based
  <2>2. View(f) = Put(s.disk, s.pos, f.held) /\ Len(Put(s.disk, s.pos, f.held)) < UNKN
    BY <1>1, <2>1, ViewFacts
  <2>3. f.held \in Seq(Nat) /\ Saved(f, fault) = I_Write(s, f.held, fault)
    BY <1>1 DEF Saved, Usable, Sound, Based
  <2> HIDE DEF s
  <2>4. /\ Based(I_Write(s, f.held, fault)) /\ I_Write(s, f.held, fault).disk = Put(s.disk, s.pos, f.held)
        /\ Framed(s, I_Write(s, f.held, fault))
    BY <2>1, <2>2, <2>3, WriteEffect
  <2> QED
    BY <2>1, <2>2, <2>3, <2>4 DEF Framed
<1>2. CASE ~(f.mode = "WRIT" /\ f.held # <<>>)
  BY <1>2 DEF Saved, View, Usable, Sound, Framed
<1> QED
  BY <1>1, <1>2

LEMMA FlushEffect ==
  ASSUME FileCacheAssumption, NEW f, Usable(f), f.mode # "NONE", NEW fault \in BOOLEAN
  PROVE  /\ Same(f, Flush(f, fault))
         /\ Flush(f, fault).mode = f.mode /\ Flush(f, fault).held = <<>> /\ Flush(f, fault).disk = View(f)
         /\ Flush(f, fault).vfptr = f.vfptr /\ Flush(f, fault).offset = f.vfptr
<1> DEFINE s == Saved(f, fault)
           g == [s EXCEPT !.free = @ + Held(s), !.held = <<>>, !.offset = s.vfptr]
<1>1. Based(s) /\ s.disk = View(f) /\ Framed(f, s)
  BY SavedEffect
<1>2. Flush(f, fault) = g
  BY DEF Flush, Emptied, Usable
<1> HIDE DEF s
<1>3. /\ DOMAIN g = DOMAIN s /\ g.disk = s.disk /\ g.dos = s.dos /\ g.pos = s.pos /\ g.len = s.len /\ g.mode = s.mode /\ g.held = <<>>
      /\ g.offset = s.vfptr /\ g.vfptr = s.vfptr /\ g.free = s.free + Held(s)
  BY <1>1 DEF Based
<1> HIDE DEF g
<1>4. Held(s) = Held(f) /\ Held(s) \in Nat /\ Held(g) = 0
  <2>1. Held(s) \in Nat
    BY <1>1, SomeHeld DEF Based
  <2>2. Held(s) = Held(f)
    BY <1>1 DEF Held, Framed
  <2>3. Held(g) = 0
    BY <1>3, NoneHeld
  <2> QED
    BY <2>1, <2>2, <2>3
<1>5. Based(g)
  BY <1>1, <1>3, <1>4, EmptyCells DEF Based
<1>6. View(g) = g.disk /\ View(g) = View(f)
  BY <1>1, <1>3 DEF View
<1>7. Sound(g)
  <2>1. Len(View(g)) < UNKN
    BY <1>6, ViewFacts
  <2>2. g.mode = f.mode /\ g.mode \in {"READ", "WRIT"}
    BY <1>1, <1>3 DEF Framed, Usable, Sound
  <2>3. g.held = Part(g.disk, g.offset + 1, g.offset + Len(g.held))
    <3>1. g.offset \in Nat /\ g.disk \in Seq(Nat) /\ g.held = <<>>
      BY <1>3, <1>5 DEF Based
    <3> QED
      BY <3>1, NothingLies
  <2>4. g.vfptr = g.offset + Len(g.held)
    BY <1>3, <1>5, EmptyCells DEF Based
  <2> QED
    BY <1>5, <2>1, <2>2, <2>3, <2>4 DEF Sound
<1>8. Tell(g) = Tell(f)
  BY <1>1, <1>3 DEF Tell, Framed, Usable
<1> QED
  BY <1>1, <1>2, <1>3, <1>4, <1>6, <1>7, <1>8 DEF Same, Framed, Usable, Based

LEMMA UnCacheEffect ==
  ASSUME FileCacheAssumption, NEW f, Usable(f), NEW fault \in BOOLEAN
  PROVE  /\ Same(f, UnCache(f, fault))
         /\ UnCache(f, fault).mode = "NONE" /\ UnCache(f, fault).disk = View(f) /\ UnCache(f, fault).pos = Tell(f)
         /\ UnCache(f, fault).held = <<>>
<1>1. CASE f.mode = "NONE"
  BY <1>1, ViewFacts DEF UnCache, Same, Usable, Tell, Sound
<1>2. CASE f.mode # "NONE"
  <2> DEFINE h == Flush(f, fault)
             m == [h EXCEPT !.mode = "NONE"]
             g == I_Seek(m, h.vfptr)
  <2>1. Same(f, h) /\ h.held = <<>> /\ h.disk = View(f) /\ h.vfptr = f.vfptr
    BY <1>2, FlushEffect
  <2>2. UnCache(f, fault) = g
    BY <1>2 DEF UnCache, Unplugged
  <2> HIDE DEF h
  <2>3. /\ Based(m) /\ m.disk = h.disk /\ m.mode = "NONE" /\ m.held = <<>> /\ m.free = h.free
    BY <2>1 DEF Same, Sound, Based
  <2> HIDE DEF m
  <2>4. Based(g) /\ g.pos = h.vfptr /\ g.disk = h.disk /\ Framed(m, g)
    <3>1. h.vfptr \in Nat
      BY <2>1 DEF Same, Sound, Based
    <3> QED
      BY <2>3, <3>1, SeekEffect
  <2> HIDE DEF g
  <2>5. g.mode = "NONE" /\ g.held = <<>> /\ g.free = h.free /\ Held(g) = 0 /\ Held(h) = 0
    BY <2>1, <2>3, <2>4, NoneHeld DEF Framed
  <2>6. View(g) = g.disk /\ Tell(g) = g.pos /\ Tell(f) = f.vfptr
    BY <1>2, <2>5 DEF View, Tell
  <2>7. Sound(g)
    BY <2>1, <2>4, <2>5, <2>6, ViewFacts DEF Sound
  <2> QED
    BY <2>1, <2>2, <2>4, <2>5, <2>6, <2>7 DEF Same
<1> QED
  BY <1>1, <1>2

LEMMA PluggedEffect ==
  ASSUME FileCacheAssumption, NEW f, Usable(f), f.mode = "NONE", NEW mode \in {"READ", "WRIT"}
  PROVE  /\ Same(f, Plugged(f, mode)) /\ Plugged(f, mode).mode = mode /\ Plugged(f, mode).out = f.out
         /\ Plugged(f, mode).disk = f.disk /\ Plugged(f, mode).held = <<>> /\ Plugged(f, mode).free = f.free
<1> DEFINE g == Plugged(f, mode)
<1>1. /\ DOMAIN g = DOMAIN f /\ g.disk = f.disk /\ g.dos = f.dos /\ g.pos = f.pos /\ g.len = f.len /\ g.mode = mode /\ g.held = <<>>
      /\ g.offset = f.pos /\ g.vfptr = f.pos /\ g.free = f.free /\ g.out = f.out
  BY DEF Plugged, Usable, Sound, Based
<1> HIDE DEF g
<1>2. Based(g)
  BY <1>1, EmptyCells DEF Usable, Sound, Based
<1>3. f.held = <<>> /\ Held(f) = 0 /\ Held(g) = 0
  BY <1>1, NoneHeld DEF Usable, Sound
<1>4. View(g) = View(f) /\ Tell(g) = Tell(f)
  BY <1>1, <1>3 DEF View, Tell
<1>5. Sound(g)
  <2>1. Len(View(g)) < UNKN
    BY <1>4, ViewFacts
  <2>2. g.held = Part(g.disk, g.offset + 1, g.offset + Len(g.held))
    <3>1. g.offset \in Nat /\ g.disk \in Seq(Nat) /\ g.held = <<>>
      BY <1>1, <1>2 DEF Based
    <3> QED
      BY <3>1, NothingLies
  <2>3. g.vfptr = g.offset + Len(g.held)
    BY <1>1, <1>2, EmptyCells DEF Based
  <2> QED
    BY <1>1, <1>2, <2>1, <2>2, <2>3 DEF Sound
<1> QED
  BY <1>1, <1>3, <1>4, <1>5 DEF Same, g

LEMMA SameOf ==
  ASSUME NEW f, NEW g, NEW h, Same(f, g), Same(g, h)
  PROVE  Same(f, h) /\ Usable(g) /\ Usable(h)
BY DEF Same, Usable

LEMMA CacheEffect ==
  ASSUME FileCacheAssumption, NEW f, Usable(f), NEW fault \in BOOLEAN
  PROVE  /\ Same(f, CacheR(f, fault)) /\ CacheR(f, fault).mode = "READ"
         /\ Same(f, CacheW(f, fault)) /\ CacheW(f, fault).mode = "WRIT"
         /\ f.mode = "NONE" => CacheR(f, fault).out = f.out /\ CacheW(f, fault).out = f.out
<1> DEFINE u == UnCache(f, fault)
<1>1. Same(f, u) /\ u.mode = "NONE" /\ Usable(u)
  BY UnCacheEffect DEF Same, Usable
<1>2. f.mode = "NONE" => u.out = f.out
  BY DEF UnCache
<1>3. Same(f, f)
  BY DEF Same, Usable
<1> HIDE DEF u
<1>4. ASSUME NEW mode \in {"READ", "WRIT"}
      PROVE  Same(f, Plugged(u, mode)) /\ Plugged(u, mode).mode = mode /\ Plugged(u, mode).out = u.out
  BY <1>1, PluggedEffect, SameOf
<1>5. /\ CacheR(f, fault) = IF f.mode = "READ" THEN f ELSE Plugged(u, "READ")
      /\ CacheW(f, fault) = IF f.mode = "WRIT" THEN f ELSE Plugged(u, "WRIT")
  BY DEF CacheR, CacheW, u
<1> QED
  BY <1>2, <1>3, <1>4, <1>5
------------------------------------------------------------------------------
(* Reading.                                                                *)
Reads(f, g, n) ==
    /\ Sound(g) /\ g.mode = f.mode /\ View(g) = View(f)
    /\ g.out = Part(View(f), Tell(f) + 1, Tell(f) + n) /\ Tell(g) = Tell(f) + Len(g.out)
    /\ g.free + Held(g) = f.free + Held(f)

\* What n cells at v are, taken from m cells at o.
Within(d, o, m, v, n) ==
    SubSeq(Part(d, o + 1, o + m), v - o + 1, v - o + n) = Part(d, v + 1, v + n) /\ Len(Part(d, v + 1, v + n)) = n

LEMMA PartWithin ==
  ASSUME NEW d \in Seq(Nat), NEW o \in Nat, NEW m \in Nat, Len(Part(d, o + 1, o + m)) = m,
         NEW v \in Nat, NEW n \in Nat \ {0}, v >= o, v + n <= o + m
  PROVE  Within(d, o, m, v, n)
<1> DEFINE h == Part(d, o + 1, o + m)
           s == SubSeq(h, v - o + 1, v - o + n)
           t == Part(d, v + 1, v + n)
<1>2. h \in Seq(Nat) /\ Len(h) = (IF o >= Len(d) THEN 0 ELSE Least(m, Len(d) - o)) /\ \A k \in 1..Len(h) : h[k] = d[o + k]
  BY PartFacts
<1>3. m = Len(h)
  OBVIOUS
<1> HIDE DEF h
<1>1. Len(d) \in Nat /\ \A k \in 1..m : h[k] \in Nat
  BY <1>2, <1>3, ElementCells
<1>4. v + n <= Len(d)
  BY <1>1, <1>2, <1>3 DEF Least
<1>5. t \in Seq(Nat) /\ Len(t) = n /\ \A k \in 1..n : t[k] = d[v + k]
  <2>1. ~(v >= Len(d)) /\ Least(n, Len(d) - v) = n
    BY <1>1, <1>4 DEF Least
  <2>2. t \in Seq(Nat) /\ Len(t) = (IF v >= Len(d) THEN 0 ELSE Least(n, Len(d) - v)) /\ \A k \in 1..Len(t) : t[k] = d[v + k]
    BY PartFacts
  <2> HIDE DEF t
  <2> QED
    BY <2>1, <2>2
<1>6. s \in Seq(Nat) /\ Len(s) = n /\ \A k \in 1..n : s[k] = h[v - o + k]
  <2> DEFINE a == v - o + 1
             b == v - o + n
  <2>1. a \in 1..m /\ b \in 1..m /\ b - a + 1 = n /\ a \in Int /\ b \in Int /\ a <= b
    BY <1>1, <1>4
  <2> HIDE DEF a, b
  <2>2. \A i \in a..b : h[i] \in Nat
    BY <1>1, <2>1
  <2>3. /\ SubSeq(h, a, b) \in Seq(Nat) /\ Len(SubSeq(h, a, b)) = (IF a <= b THEN b - a + 1 ELSE 0)
        /\ \A k \in 1..b - a + 1 : SubSeq(h, a, b)[k] = h[a + k - 1]
    BY <2>1, <2>2, SubSeqProperties
  <2>4. \A k \in 1..n : a + k - 1 = v - o + k
    BY DEF a
  <2> QED
    BY <2>1, <2>3, <2>4 DEF a, b
<1> HIDE DEF s, t
<1>7. \A k \in 1..n : s[k] = t[k]
  <2> SUFFICES ASSUME NEW k \in 1..n PROVE s[k] = t[k]
    OBVIOUS
  <2>1. v - o + k \in 1..m /\ o + (v - o + k) = v + k
    BY <1>1, <1>4
  <2> QED
    BY <1>2, <1>3, <1>5, <1>6, <2>1
<1>8. s = t
  BY <1>5, <1>6, <1>7, SameCells
<1> QED
  BY <1>5, <1>8 DEF s, t, h, Within

LEMMA LengthKnown ==
  ASSUME NEW f, Based(f)
  PROVE  I_GetLen(f) = Len(f.disk) /\ Len(f.disk) \in Nat
BY ElementCells DEF Based, I_GetLen

LEMMA FromCacheReads ==
  ASSUME NEW f, Usable(f), f.mode = "READ", NEW n \in Nat \ {0}, Fits(f, n)
  PROVE  Reads(f, FromCache(f, n), n)
<1> DEFINE g == FromCache(f, n)
           p == Part(f.disk, f.vfptr + 1, f.vfptr + n)
<1>1. /\ DOMAIN g = DOMAIN f /\ g.disk = f.disk /\ g.dos = f.dos /\ g.pos = f.pos /\ g.len = f.len /\ g.mode = f.mode /\ g.held = f.held
      /\ g.offset = f.offset /\ g.vfptr = f.vfptr + n /\ g.free = f.free
      /\ g.out = SubSeq(f.held, f.vfptr - f.offset + 1, f.vfptr - f.offset + n)
  BY DEF FromCache, Usable, Sound, Based
<1> HIDE DEF g
<1>2. g.out = p /\ Len(p) = n
  <2>1. /\ f.disk \in Seq(Nat) /\ f.offset \in Nat /\ f.held \in Seq(Nat) /\ f.vfptr \in Nat
        /\ f.held = Part(f.disk, f.offset + 1, f.offset + Len(f.held))
    BY ElementCells DEF Usable, Sound, Based
  <2>2. f.vfptr >= f.offset /\ f.vfptr + n <= f.offset + Len(f.held)
    BY DEF Fits
  <2> DEFINE d == f.disk
             o == f.offset
             h == f.held
             v == f.vfptr
  <2> HIDE DEF d, o, h, v
  <2> DEFINE m == Len(h)
  <2>3. d \in Seq(Nat) /\ o \in Nat /\ m \in Nat /\ v \in Nat /\ v >= o /\ v + n <= o + m
    BY <2>1, <2>2, ElementCells DEF d, o, h, v
  <2>6. h = Part(d, o + 1, o + m)
    BY <2>1 DEF d, o, h
  <2>4. Len(Part(d, o + 1, o + m)) = m
    BY <2>6
  <2> HIDE DEF m
  <2>5. Within(d, o, m, v, n)
    BY <2>3, <2>4, PartWithin
  <2> QED
    BY <1>1, <2>6, <2>5 DEF d, o, h, v, Within
<1> HIDE DEF p
<1>3. View(g) = f.disk /\ View(f) = f.disk /\ Tell(f) = f.vfptr /\ Tell(g) = f.vfptr + n /\ Held(g) = Held(f)
  BY <1>1 DEF View, Tell, Held
<1>4. Based(g)
  BY <1>1 DEF Usable, Sound, Based
<1>5. Sound(g)
  BY <1>1, <1>3, <1>4 DEF Usable, Sound
<1> QED
  BY <1>1, <1>2, <1>3, <1>5 DEF Reads, p, g

LEMMA PastCacheReads ==
  ASSUME NEW f, Usable(f), f.mode = "READ", f.vfptr <= Len(f.disk), NEW n \in Nat, NEW fault \in BOOLEAN
  PROVE  Reads(f, PastCache(f, n, fault), n)
<1> DEFINE s == I_Seek(f, f.vfptr)
           r == I_Read(s, n, fault)
           g == [r EXCEPT !.vfptr = r.pos]
           p == Part(f.disk, f.vfptr + 1, f.vfptr + n)
<1>1. Based(s) /\ s.pos = f.vfptr /\ s.disk = f.disk /\ Framed(f, s)
  BY SeekEffect DEF Usable, Sound, Based
<1> HIDE DEF s
<1>2. Based(r) /\ r.out = p /\ r.pos = f.vfptr + Len(p) /\ r.disk = f.disk /\ Framed(s, r)
  <2>1. s.pos <= Len(s.disk)
    BY <1>1
  <2>2. /\ Based(r) /\ r.out = Part(s.disk, s.pos + 1, s.pos + n) /\ r.pos = s.pos + Len(Part(s.disk, s.pos + 1, s.pos + n))
        /\ r.disk = s.disk /\ Framed(s, r)
    BY <1>1, <2>1, ReadEffect
  <2> HIDE DEF r
  <2> QED
    BY <1>1, <2>2
<1>3. PastCache(f, n, fault) = g
  BY DEF PastCache, Followed, s
<1> HIDE DEF r, p
<1>4. /\ Based(g) /\ g.disk = r.disk /\ g.mode = r.mode /\ g.held = r.held /\ g.offset = r.offset /\ g.vfptr = r.pos
      /\ g.free = r.free /\ g.out = r.out
  BY <1>2 DEF Based
<1> HIDE DEF g
<1>5. View(g) = f.disk /\ View(f) = f.disk /\ Tell(f) = f.vfptr /\ Tell(g) = f.vfptr + Len(p) /\ Held(g) = Held(f)
  BY <1>1, <1>2, <1>4 DEF View, Tell, Held, Framed
<1>6. Sound(g)
  BY <1>1, <1>2, <1>4, <1>5 DEF Usable, Sound, Framed
<1> QED
  BY <1>1, <1>2, <1>3, <1>4, <1>5, <1>6 DEF Reads, Framed, p

LEMMA RefillReads ==
  ASSUME FileCacheAssumption, NEW f, Usable(f), f.mode = "READ", f.held = <<>>, NEW n \in 1..BLOCK, f.vfptr + n <= Len(f.disk),
         NEW roomy \in BOOLEAN, NEW fault \in BOOLEAN
  PROVE  Reads(f, Refill(f, n, roomy, fault), n)
<1>1. CASE f.free = 0 \/ ~roomy
  <2>1. BLOCK \in Nat /\ f.vfptr \in Nat /\ Len(f.disk) \in Nat
    BY ElementCells DEF FileCacheAssumption, Usable, Sound, Based
  <2>2. f.vfptr <= Len(f.disk) /\ n \in Nat
    BY <2>1
  <2> QED
    BY <1>1, <2>2, PastCacheReads DEF Refill
<1>2. CASE ~(f.free = 0 \/ ~roomy)
  <2> DEFINE m == IF n < SMALL THEN FILL ELSE BLOCK
             s == I_Seek(f, f.vfptr)
             r == I_Read(s, m, fault)
             h == [r EXCEPT !.offset = f.vfptr, !.held = r.out, !.free = @ - 1]
             p == Part(f.disk, f.vfptr + 1, f.vfptr + m)
  <2>1. m \in 1..BLOCK /\ n <= m /\ BLOCK \in Nat \ {0} /\ f.vfptr \in Nat /\ Len(f.disk) \in Nat /\ f.disk \in Seq(Nat)
    <3>1. f.vfptr \in Nat /\ Len(f.disk) \in Nat /\ f.disk \in Seq(Nat)
      BY ElementCells DEF Usable, Sound, Based
    <3>2. BLOCK \in Nat \ {0} /\ m \in 1..BLOCK /\ n <= m
      BY DEF FileCacheAssumption
    <3> QED
      BY <3>1, <3>2
  <2> HIDE DEF m
  <2>2. Based(s) /\ s.pos = f.vfptr /\ s.disk = f.disk /\ Framed(f, s)
    BY SeekEffect DEF Usable, Sound, Based
  <2> HIDE DEF s
  <2>3. Based(r) /\ r.out = p /\ r.disk = f.disk /\ Framed(s, r)
    <3>1. s.pos <= Len(s.disk) /\ m \in Nat
      BY <2>1, <2>2
    <3>2. /\ Based(r) /\ r.out = Part(s.disk, s.pos + 1, s.pos + m) /\ r.disk = s.disk /\ Framed(s, r)
      BY <2>2, <3>1, ReadEffect
    <3> HIDE DEF r
    <3> QED
      BY <2>2, <3>2
  <2>4. Refill(f, n, roomy, fault) = FromCache(h, n)
    BY <1>2 DEF Refill, Filled, s, m
  <2> HIDE DEF r
  <2>5. p \in Seq(Nat) /\ Len(p) = Least(m, Len(f.disk) - f.vfptr) /\ Len(p) \in 1..BLOCK /\ n <= Len(p)
    <3>1. m \in Nat /\ ~(f.vfptr >= Len(f.disk))
      BY <2>1
    <3>2. p \in Seq(Nat) /\ Len(p) = Least(m, Len(f.disk) - f.vfptr)
      BY <2>1, <3>1, PartFacts
    <3> HIDE DEF p
    <3>3. m \in Nat /\ n \in Nat /\ n >= 1 /\ f.vfptr + n <= Len(f.disk) /\ BLOCK \in Nat /\ m <= BLOCK
      BY <2>1
    <3>4. Least(m, Len(f.disk) - f.vfptr) \in 1..BLOCK /\ n <= Least(m, Len(f.disk) - f.vfptr)
      BY <2>1, <3>3, LeastWithin
    <3> QED
      BY <3>2, <3>4
  <2>6. p = Part(f.disk, f.vfptr + 1, f.vfptr + Len(p))
    <3>1. Least(f.vfptr + m, Len(f.disk)) = Least(f.vfptr + Len(p), Len(f.disk))
      <4> HIDE DEF p
      <4>1. m \in Nat /\ n \in Nat /\ n >= 1 /\ f.vfptr + n <= Len(f.disk) /\ BLOCK \in Nat /\ m <= BLOCK
        BY <2>1
      <4>2. Least(f.vfptr + m, Len(f.disk)) = Least(f.vfptr + Least(m, Len(f.disk) - f.vfptr), Len(f.disk))
        <5> DEFINE a == f.vfptr
                   l == Len(f.disk)
        <5>1. a \in Nat /\ l \in Nat /\ m \in Nat /\ n \in Nat /\ n >= 1 /\ a + n <= l /\ BLOCK \in Nat /\ m <= BLOCK /\ n <= m
          BY <2>1, <4>1
        <5> HIDE DEF a, l
        <5>2. Least(a + m, l) = Least(a + Least(m, l - a), l)
          BY <5>1, LeastWithin
        <5> QED
          BY <5>2 DEF a, l
      <4> QED
        BY <2>5, <4>2
    <3> QED
      BY <3>1 DEF Part
  <2> HIDE DEF p
  <2>7. /\ DOMAIN h = DOMAIN r /\ h.disk = f.disk /\ h.dos = r.dos /\ h.pos = r.pos /\ h.len = r.len /\ h.mode = "READ" /\ h.held = p
        /\ h.offset = f.vfptr /\ h.vfptr = f.vfptr /\ h.free = f.free - 1
    BY <2>2, <2>3 DEF Based, Framed
  <2> HIDE DEF h
  <2>8. Held(h) = 1 /\ Held(f) = 0
    <3>1. Held(h) = Blocks(Len(p))
      BY <2>5, <2>7, SomeHeld
    <3> QED
      BY <2>5, <3>1, BlocksFew, NoneHeld
  <2>9. Based(h) /\ f.free \in Nat /\ f.free # 0
    <3>1. f.free \in Nat \ {0} /\ h.free \in Nat
      BY <1>2, <2>7 DEF Based, Usable, Sound
    <3>2. h.len \in {UNKN, Len(h.disk)} /\ h.disk \in Seq(Nat) /\ h.held \in Seq(Nat) /\ h.offset \in Nat /\ h.vfptr \in Nat
      BY <2>1, <2>3, <2>5, <2>7 DEF Based
    <3>3. DOMAIN h = {"disk", "dos", "pos", "len", "mode", "held", "offset", "vfptr", "free", "out"} /\ h.pos \in Nat /\ h.dos = h.pos
      BY <2>3, <2>7 DEF Based
    <3> QED
      BY <3>1, <3>2, <3>3 DEF Based
  <2>10. View(h) = f.disk /\ View(f) = f.disk /\ Tell(h) = f.vfptr /\ Tell(f) = f.vfptr
    BY <2>7 DEF View, Tell
  <2>11. Usable(h)
    <3>1. h.held = Part(h.disk, h.offset + 1, h.offset + Len(h.held))
      BY <2>6, <2>7
    <3> QED
      BY <2>7, <2>9, <2>10, <3>1 DEF Usable, Sound
  <2>12. Fits(h, n)
    BY <2>1, <2>5, <2>7 DEF Fits
  <2>13. Reads(h, FromCache(h, n), n)
    <3>1. n \in Nat \ {0}
      BY <2>1
    <3> QED
      BY <2>7, <2>11, <2>12, <3>1, FromCacheReads
  <2>14. h.free + Held(h) = f.free + Held(f)
    BY <2>7, <2>8, <2>9
  <2> QED
    BY <2>4, <2>7, <2>10, <2>13, <2>14 DEF Reads
<1> QED
  BY <1>1, <1>2

LEMMA ReadCachedReads ==
  ASSUME FileCacheAssumption, NEW f, Usable(f), f.mode = "READ", NEW n \in Nat \ {0}, f.vfptr <= Len(f.disk),
         NEW roomy \in BOOLEAN, NEW fault \in BOOLEAN
  PROVE  Reads(f, ReadCached(f, n, roomy, fault), n)
<1>1. I_GetLen(f) = Len(f.disk) /\ Len(f.disk) \in Nat /\ f.vfptr \in Nat /\ BLOCK \in Nat /\ f.disk \in Seq(Nat)
  BY LengthKnown DEF Usable, Sound, Based, FileCacheAssumption
<1>2. View(f) = f.disk /\ Tell(f) = f.vfptr
  BY DEF View, Tell
<1>3. CASE Fits(f, n)
  BY <1>3, FromCacheReads DEF ReadCached
<1>4. CASE ~Fits(f, n) /\ Len(f.disk) <= f.vfptr
  <2> DEFINE g == [f EXCEPT !.out = <<>>]
  <2>1. ReadCached(f, n, roomy, fault) = g
    BY <1>1, <1>4 DEF ReadCached
  <2>2. /\ Based(g) /\ g.disk = f.disk /\ g.mode = "READ" /\ g.held = f.held /\ g.offset = f.offset /\ g.vfptr = f.vfptr
        /\ g.free = f.free /\ g.out = <<>>
    BY DEF Usable, Sound, Based
  <2> HIDE DEF g
  <2>3. Part(f.disk, f.vfptr + 1, f.vfptr + n) = <<>>
    <3>1. Part(f.disk, f.vfptr + 1, f.vfptr + n) \in Seq(Nat) /\ Len(Part(f.disk, f.vfptr + 1, f.vfptr + n)) = 0
      BY <1>1, <1>4, PartFacts
    <3> QED
      BY <3>1, EmptyCells
  <2>4. View(g) = f.disk /\ Tell(g) = f.vfptr /\ Held(g) = Held(f)
    BY <2>2 DEF View, Tell, Held
  <2>5. Sound(g)
    BY <1>2, <2>2, <2>4 DEF Usable, Sound
  <2>6. Tell(g) = Tell(f) + Len(g.out)
    BY <1>1, <1>2, <2>2, <2>4, EmptyCells
  <2> QED
    BY <1>2, <2>1, <2>2, <2>3, <2>4, <2>5, <2>6 DEF Reads
<1>5. CASE ~Fits(f, n) /\ ~(Len(f.disk) <= f.vfptr)
  <2> DEFINE k == Least(n, Len(f.disk) - f.vfptr)
             g == Flush(f, FALSE)
  <2>1. k \in Nat \ {0} /\ f.vfptr + k <= Len(f.disk)
    BY <1>1, <1>5 DEF Least
  <2>2. Part(f.disk, f.vfptr + 1, f.vfptr + k) = Part(f.disk, f.vfptr + 1, f.vfptr + n)
    <3>1. Least(f.vfptr + k, Len(f.disk)) = Least(f.vfptr + n, Len(f.disk))
      BY <1>1, <1>5 DEF Least
    <3> QED
      BY <3>1 DEF Part
  <2>3. ReadCached(f, n, roomy, fault) = Fetch(f, k, roomy, fault)
    BY <1>1, <1>5 DEF ReadCached
  <2> HIDE DEF k
  <2>4. SUFFICES Reads(f, Fetch(f, k, roomy, fault), k)
    BY <1>2, <2>2, <2>3 DEF Reads
  <2>5. CASE Fits(f, k)
    BY <2>1, <2>5, FromCacheReads DEF Fetch
  <2>6. CASE ~Fits(f, k) /\ k > BLOCK
    BY <2>1, <2>6, PastCacheReads DEF Fetch
  <2>7. CASE ~Fits(f, k) /\ ~(k > BLOCK)
    <3>1. Same(f, g) /\ g.mode = "READ" /\ g.held = <<>> /\ g.disk = View(f) /\ g.vfptr = f.vfptr
      BY FlushEffect
    <3>2. Usable(g)
      BY <3>1 DEF Same, Usable
    <3>3. Fetch(f, k, roomy, fault) = Refill(g, k, roomy, fault)
      BY <2>7 DEF Fetch
    <3> HIDE DEF g
    <3>4. k \in 1..BLOCK
      BY <1>1, <2>1, <2>7
    <3>5. Reads(g, Refill(g, k, roomy, fault), k)
      BY <1>2, <2>1, <3>1, <3>2, <3>4, RefillReads
    <3> QED
      BY <3>1, <3>3, <3>5 DEF Reads, Same
  <2> QED
    BY <2>5, <2>6, <2>7
<1> QED
  BY <1>3, <1>4, <1>5

\* Read(): in a write cache, past it and into a new one.
LEMMA ReadReads ==
  ASSUME FileCacheAssumption, NEW f, Usable(f), NEW n \in Nat \ {0}, Tell(f) <= Len(View(f)), NEW roomy \in BOOLEAN, NEW fault \in BOOLEAN
  PROVE  Reads(f, Read(f, n, roomy, fault), n)
<1>1. CASE f.mode = "READ"
  BY <1>1, ReadCachedReads DEF Read, View, Tell
<1>2. CASE f.mode = "NONE"
  <2> DEFINE g == I_Read(f, n, fault)
  <2>1. View(f) = f.disk /\ Tell(f) = f.pos /\ f.held = <<>>
    BY <1>2 DEF View, Tell, Usable, Sound
  <2>2. /\ Based(g) /\ g.out = Part(f.disk, f.pos + 1, f.pos + n) /\ g.pos = f.pos + Len(g.out) /\ g.disk = f.disk
        /\ Framed(f, g)
    BY <2>1, ReadEffect DEF Usable, Sound
  <2>3. Read(f, n, roomy, fault) = g
    BY <1>2 DEF Read
  <2> HIDE DEF g
  <2>4. View(g) = g.disk /\ Tell(g) = g.pos /\ g.mode = "NONE" /\ g.held = <<>> /\ Held(g) = Held(f)
    BY <1>2, <2>1, <2>2 DEF View, Tell, Framed, Held
  <2>5. Sound(g)
    BY <2>1, <2>2, <2>4 DEF Usable, Sound
  <2> QED
    BY <1>2, <2>1, <2>2, <2>3, <2>4, <2>5 DEF Reads, Framed
<1>3. CASE f.mode = "WRIT"
  <2> DEFINE u == UnCache(f, fault)
             g == I_Read(u, n, FALSE)
             w == CacheW(g, FALSE)
  <2>1. Same(f, u) /\ u.mode = "NONE" /\ u.disk = View(f) /\ u.pos = Tell(f) /\ u.held = <<>>
    BY UnCacheEffect
  <2>2. Read(f, n, roomy, fault) = w
    BY <1>3 DEF Read
  <2> HIDE DEF u
  <2>3. Based(u) /\ Held(u) = 0
    BY <2>1, NoneHeld DEF Same, Sound
  <2>4. /\ Based(g) /\ g.out = Part(u.disk, u.pos + 1, u.pos + n) /\ g.pos = u.pos + Len(g.out) /\ g.disk = u.disk
        /\ Framed(u, g)
    <3>1. u.pos <= Len(u.disk) /\ FALSE \in BOOLEAN
      BY <2>1
    <3>2. /\ Based(g) /\ g.out = Part(u.disk, u.pos + 1, u.pos + n)
          /\ g.pos = u.pos + Len(Part(u.disk, u.pos + 1, u.pos + n)) /\ g.disk = u.disk /\ Framed(u, g)
      BY <2>3, <3>1, ReadEffect
    <3> HIDE DEF g
    <3> QED
      BY <3>2
  <2> HIDE DEF g
  <2>5. View(g) = g.disk /\ Tell(g) = g.pos /\ g.mode = "NONE" /\ g.held = <<>> /\ Held(g) = 0
    BY <2>1, <2>4, NoneHeld DEF View, Tell, Framed
  <2>6. Usable(g)
    BY <2>1, <2>4, <2>5, ViewFacts DEF Usable, Sound
  <2>7. Same(g, w) /\ w.mode = "WRIT" /\ w.out = g.out
    BY <2>5, <2>6, CacheEffect
  <2> HIDE DEF w
  <2>8. g.free = u.free
    BY <2>4 DEF Framed
  <2>9. w.free + Held(w) = f.free + Held(f)
    BY <2>1, <2>3, <2>5, <2>7, <2>8 DEF Same
  <2> QED
    BY <1>3, <2>1, <2>2, <2>4, <2>5, <2>7, <2>9 DEF Reads, Same
<1> QED
  BY <1>1, <1>2, <1>3 DEF Usable, Sound
------------------------------------------------------------------------------
(* Writing.                                                                *)
Writes(f, g, c) ==
    /\ Sound(g) /\ g.mode = f.mode
    /\ View(g) = Put(View(f), Tell(f), c) /\ Tell(g) = Tell(f) + Len(c)
    /\ g.free + Held(g) = f.free + Held(f)

LEMMA IntoCacheWrites ==
  ASSUME FileCacheAssumption, NEW f, Usable(f), f.mode = "WRIT", NEW c \in Seq(Nat), c # <<>>, Enough(f, Len(c)),
         Len(Put(View(f), Tell(f), c)) < UNKN
  PROVE  Writes(f, IntoCache(f, c), c)
<1> DEFINE g == IntoCache(f, c)
           held == f.held
           h == Len(held)
           n == Len(c)
           claim == Claimed(h % BLOCK, n)
<1>1. held \in Seq(Nat) /\ h \in Nat /\ n \in Nat \ {0} /\ f.vfptr = f.offset + h /\ f.offset \in Nat /\ f.disk \in Seq(Nat) /\ f.free \in Nat
  BY ElementCells, EmptyCells DEF Usable, Sound, Based
<1>2. /\ DOMAIN g = DOMAIN f /\ g.disk = f.disk /\ g.dos = f.dos /\ g.pos = f.pos /\ g.len = f.len /\ g.mode = f.mode /\ g.held = held \o c
      /\ g.offset = f.offset /\ g.vfptr = f.vfptr + n /\ g.free = f.free - Claimed((f.vfptr - f.offset) % BLOCK, n)
  BY DEF IntoCache, Usable, Sound, Based
<1>3. f.vfptr - f.offset = h
  BY <1>1
<1>4. g.free = f.free - claim
  BY <1>2, <1>3
<1> HIDE DEF g
<1>5. f.free >= (n \div BLOCK) + 2
  BY DEF Enough
<1>6. held \o c \in Seq(Nat) /\ Len(held \o c) = h + n
  BY <1>1, JoinedCells
<1> HIDE DEF held
<1> DEFINE joined == held \o c
<1> HIDE DEF joined
<1>7. View(g) = Put(View(f), Tell(f), c)
  <2>1. g.held = joined /\ joined # <<>>
    <3>1. joined \in Seq(Nat) /\ Len(joined) # 0
      BY <1>1, <1>6 DEF joined
    <3> QED
      BY <1>2, <3>1, EmptyCells DEF joined
  <2>2. View(g) = Put(f.disk, f.offset, joined)
    BY <1>2, <2>1 DEF View
  <2>3. CASE held = <<>>
    <3>1. View(f) = f.disk /\ joined = c /\ h = 0
      BY <2>3, ViewFacts, EmptyCells DEF held, joined
    <3>2. Tell(f) = f.offset
      BY <1>1, <3>1 DEF Tell
    <3> QED
      BY <2>2, <3>1, <3>2
  <2>4. CASE held # <<>>
    <3>1. View(f) = Put(f.disk, f.offset, held) /\ Tell(f) = f.offset + h
      BY <1>1, <2>4, ViewFacts DEF held, Tell
    <3> DEFINE disk == f.disk
               offset == f.offset
    <3>3. disk \in Seq(Nat) /\ offset \in Nat /\ held \in Seq(Nat) /\ c \in Seq(Nat)
      BY <1>1
    <3> HIDE DEF disk, offset
    <3>4. Put(Put(disk, offset, held), offset + Len(held), c) = Put(disk, offset, held \o c)
      BY <3>3, PutBehind, Zenon
    <3>2. Put(Put(f.disk, f.offset, held), f.offset + Len(held), c) = Put(f.disk, f.offset, held \o c)
      BY <3>4 DEF disk, offset
    <3> QED
      BY <2>2, <3>1, <3>2 DEF joined
  <2> QED
    BY <2>3, <2>4
<1> HIDE DEF n
<1>8. Held(g) = Blocks(h + n) /\ Held(f) = Blocks(h)
  <2>1. g.held \in Seq(Nat) /\ Len(g.held) = h + n
    BY <1>2, <1>6 DEF n
  <2> QED
    BY <2>1, SomeHeld, <1>1 DEF held
<1> HIDE DEF h
<1>9. Blocks(h + n) = Blocks(h) + claim /\ claim \in Int /\ claim <= (n \div BLOCK) + 2
  BY <1>1, BlocksClaimed
<1> HIDE DEF claim
<1>10. g.free \in Nat /\ g.free + Held(g) = f.free + Held(f)
  <2> DEFINE whole == n \div BLOCK
             before == Blocks(h)
  <2>1. before \in Nat /\ whole \in Nat
    BY <1>1, <1>8, SomeHeld, BlocksOf DEF held, n
  <2>2. Held(f) = before /\ Held(g) = before + claim /\ claim <= whole + 2 /\ f.free >= whole + 2
    BY <1>5, <1>8, <1>9
  <2>3. claim \in Int /\ f.free \in Nat
    BY <1>1, <1>9
  <2> HIDE DEF whole, before
  <2>4. f.free - claim \in Nat
    BY <2>1, <2>2, <2>3
  <2>5. f.free - claim + (before + claim) = f.free + before
    BY <2>1, <2>3
  <2> QED
    BY <1>4, <2>2, <2>4, <2>5
<1>11. Based(g)
  <2>1. g.held \in Seq(Nat) /\ g.offset \in Nat /\ g.vfptr \in Nat
    BY <1>1, <1>2, <1>6 DEF n
  <2> QED
    BY <1>2, <1>10, <2>1 DEF Based, Usable, Sound
<1>12. Tell(g) = Tell(f) + n
  BY <1>2 DEF Tell
<1>13. Sound(g)
  <2>1. g.vfptr = g.offset + Len(g.held)
    BY <1>1, <1>2, <1>6 DEF n
  <2>2. Len(View(g)) < UNKN
    BY <1>7
  <2> QED
    BY <1>2, <1>11, <2>1, <2>2 DEF Sound
<1> QED
  BY <1>2, <1>7, <1>10, <1>12, <1>13 DEF Writes, g, n

LEMMA WriteFlushedWrites ==
  ASSUME FileCacheAssumption, NEW f, Usable(f), f.mode = "WRIT", f.held = <<>>, NEW c \in Seq(Nat), c # <<>>,
         Len(Put(View(f), Tell(f), c)) < UNKN, NEW fault \in BOOLEAN
  PROVE  Writes(f, WriteFlushed(f, c, fault), c)
<1>1. CASE Enough(f, Len(c))
  BY <1>1, IntoCacheWrites DEF WriteFlushed
<1>2. CASE ~Enough(f, Len(c))
  <2> DEFINE s == I_Seek(f, f.vfptr)
             w == I_Write(s, c, fault)
             g == [w EXCEPT !.vfptr = w.pos, !.offset = w.pos]
             p == Put(f.disk, f.vfptr, c)
  <2>1. WriteFlushed(f, c, fault) = g
    BY <1>2 DEF WriteFlushed, Moved
  <2>2. Based(s) /\ s.pos = f.vfptr /\ s.disk = f.disk /\ Framed(f, s)
    BY SeekEffect DEF Usable, Sound, Based
  <2> HIDE DEF s
  <2>3. View(f) = f.disk /\ Tell(f) = f.vfptr /\ Len(p) < UNKN
    BY ViewFacts DEF Tell
  <2>4. Based(w) /\ w.pos = f.vfptr + Len(c) /\ w.disk = p /\ Framed(s, w)
    <3>1. Len(Put(s.disk, s.pos, c)) < UNKN
      BY <2>2, <2>3
    <3> QED
      BY <2>2, <3>1, WriteEffect
  <2> HIDE DEF w, p
  <2>5. Based(g) /\ g.disk = p /\ g.mode = "WRIT" /\ g.held = <<>> /\ g.offset = w.pos /\ g.vfptr = w.pos /\ g.free = f.free
    BY <2>2, <2>4 DEF Based, Framed
  <2> HIDE DEF g
  <2>6. View(g) = p /\ Tell(g) = f.vfptr + Len(c) /\ Held(g) = 0 /\ Held(f) = 0
    BY <2>4, <2>5, NoneHeld DEF View, Tell
  <2>7. Sound(g)
    <3>1. g.vfptr = g.offset + Len(g.held)
      BY <2>5, EmptyCells DEF Based
    <3> QED
      BY <2>3, <2>5, <2>6, <3>1 DEF Sound
  <2> QED
    BY <2>1, <2>3, <2>5, <2>6, <2>7 DEF Writes, p
<1> QED
  BY <1>1, <1>2

\* Write(): in a read cache, past it and into a new one.
LEMMA WriteWrites ==
  ASSUME FileCacheAssumption, NEW f, Usable(f), NEW c \in Seq(Nat), c # <<>>, Len(Put(View(f), Tell(f), c)) < UNKN, NEW fault \in BOOLEAN
  PROVE  Writes(f, Write(f, c, fault), c)
<1>1. CASE f.mode = "NONE"
  <2> DEFINE g == I_Write(f, c, fault)
             p == Put(f.disk, f.pos, c)
  <2>1. View(f) = f.disk /\ Tell(f) = f.pos /\ f.held = <<>> /\ Based(f) /\ Len(p) < UNKN
    BY <1>1, ViewFacts DEF Tell, Usable, Sound
  <2>2. Based(g) /\ g.pos = f.pos + Len(c) /\ g.disk = p /\ Framed(f, g)
    BY <2>1, WriteEffect
  <2>3. Write(f, c, fault) = g
    BY <1>1 DEF Write
  <2> HIDE DEF g, p
  <2>4. View(g) = g.disk /\ Tell(g) = g.pos /\ g.mode = "NONE" /\ g.held = <<>> /\ Held(g) = Held(f)
    BY <1>1, <2>1, <2>2 DEF View, Tell, Framed, Held
  <2>5. Sound(g)
    BY <2>1, <2>2, <2>4 DEF Sound
  <2> QED
    BY <1>1, <2>1, <2>2, <2>3, <2>4, <2>5 DEF Writes, Framed, p
<1>2. CASE f.mode = "WRIT"
  <2>1. CASE Enough(f, Len(c))
    BY <1>2, <2>1, IntoCacheWrites DEF Write
  <2>2. CASE ~Enough(f, Len(c))
    <3> DEFINE g == Flush(f, fault)
    <3>1. Same(f, g) /\ g.mode = "WRIT" /\ g.held = <<>>
      BY <1>2, FlushEffect
    <3>2. Write(f, c, fault) = WriteFlushed(g, c, FALSE)
      BY <1>2, <2>2 DEF Write
    <3> HIDE DEF g
    <3>3. Usable(g) /\ Len(Put(View(g), Tell(g), c)) < UNKN
      BY <3>1 DEF Same, Usable
    <3>4. Writes(g, WriteFlushed(g, c, FALSE), c)
      BY <3>1, <3>3, WriteFlushedWrites
    <3> QED
      BY <1>2, <3>1, <3>2, <3>4 DEF Writes, Same
  <2> QED
    BY <2>1, <2>2
<1>3. CASE f.mode = "READ"
  <2> DEFINE u == UnCache(f, FALSE)
             g == I_Write(u, c, fault)
             w == CacheR(g, FALSE)
             p == Put(View(f), Tell(f), c)
  <2>1. Same(f, u) /\ u.mode = "NONE" /\ u.disk = View(f) /\ u.pos = Tell(f) /\ u.held = <<>>
    BY UnCacheEffect
  <2>2. Write(f, c, fault) = w
    BY <1>3 DEF Write
  <2> HIDE DEF u
  <2>3. Based(u) /\ Held(u) = 0
    BY <2>1, NoneHeld DEF Same, Sound
  <2>4. Based(g) /\ g.pos = u.pos + Len(c) /\ g.disk = p /\ Framed(u, g)
    <3>1. Put(u.disk, u.pos, c) = p
      BY <2>1
    <3> QED
      BY <2>3, <3>1, WriteEffect
  <2> HIDE DEF g, p
  <2>5. View(g) = p /\ Tell(g) = g.pos /\ g.mode = "NONE" /\ g.held = <<>> /\ Held(g) = 0
    BY <2>1, <2>4, NoneHeld DEF View, Tell, Framed
  <2>6. Usable(g)
    BY <2>4, <2>5 DEF Usable, Sound, p
  <2>7. Same(g, w) /\ w.mode = "READ"
    BY <2>6, CacheEffect
  <2> HIDE DEF w
  <2>8. g.free = u.free
    BY <2>4 DEF Framed
  <2>9. w.free + Held(w) = f.free + Held(f)
    BY <2>1, <2>3, <2>5, <2>7, <2>8 DEF Same
  <2>10. Tell(w) = Tell(f) + Len(c)
    BY <2>1, <2>4, <2>5, <2>7 DEF Same
  <2> QED
    BY <1>3, <2>2, <2>5, <2>7, <2>9, <2>10 DEF Writes, Same, p
<1> QED
  BY <1>1, <1>2, <1>3 DEF Usable, Sound
------------------------------------------------------------------------------
(* Moving, cutting, asking for the size, and the cache of the whole file.  *)
LEMMA SeekMoves ==
  ASSUME FileCacheAssumption, NEW f, Usable(f), NEW at \in Nat, NEW fault \in BOOLEAN
  PROVE  /\ Sound(Seek(f, at, fault)) /\ Seek(f, at, fault).mode = f.mode /\ View(Seek(f, at, fault)) = View(f)
         /\ Tell(Seek(f, at, fault)) = at /\ Seek(f, at, fault).free + Held(Seek(f, at, fault)) = f.free + Held(f)
<1>1. CASE f.mode = "NONE"
  <2> DEFINE g == I_Seek(f, at)
  <2>1. Based(g) /\ g.pos = at /\ g.disk = f.disk /\ Framed(f, g)
    BY SeekEffect DEF Usable, Sound
  <2>2. Seek(f, at, fault) = g
    BY <1>1 DEF Seek
  <2> HIDE DEF g
  <2>3. View(g) = View(f) /\ Tell(g) = at /\ Held(g) = Held(f)
    BY <1>1, <2>1 DEF View, Tell, Held, Framed
  <2>4. Sound(g)
    BY <1>1, <2>1, <2>3 DEF Usable, Sound, Framed
  <2> QED
    BY <2>1, <2>2, <2>3, <2>4 DEF Framed
<1>2. CASE f.mode # "NONE" /\ f.vfptr = at
  BY <1>2 DEF Seek, Tell, Usable
<1>3. CASE f.mode = "WRIT" /\ f.vfptr # at
  <2> DEFINE h == Flush(f, fault)
             g == [h EXCEPT !.vfptr = at, !.offset = IF h.mode = "WRIT" THEN at ELSE @]
  <2>1. Same(f, h) /\ h.mode = "WRIT" /\ h.held = <<>>
    BY <1>3, FlushEffect
  <2>2. Seek(f, at, fault) = g
    BY <1>3 DEF Seek, Placed
  <2> HIDE DEF h
  <2>3. /\ Based(g) /\ g.disk = h.disk /\ g.mode = "WRIT" /\ g.held = <<>> /\ g.offset = at /\ g.vfptr = at /\ g.free = h.free
    BY <2>1 DEF Same, Sound, Based
  <2> HIDE DEF g
  <2>4. View(g) = View(h) /\ Tell(g) = at /\ Held(g) = Held(h)
    BY <2>1, <2>3 DEF View, Tell, Held
  <2>5. Sound(g)
    <3>1. g.vfptr = g.offset + Len(g.held)
      BY <2>3, EmptyCells
    <3> QED
      BY <2>1, <2>3, <2>4, <3>1 DEF Same, Sound
  <2> QED
    BY <1>3, <2>1, <2>2, <2>3, <2>4, <2>5 DEF Same
<1>4. CASE f.mode = "READ" /\ f.vfptr # at
  <2> DEFINE g == [f EXCEPT !.vfptr = at, !.offset = IF f.mode = "WRIT" THEN at ELSE @]
  <2>1. Seek(f, at, fault) = g
    BY <1>4 DEF Seek, Placed
  <2>2. /\ Based(g) /\ g.disk = f.disk /\ g.mode = "READ" /\ g.held = f.held /\ g.offset = f.offset /\ g.vfptr = at /\ g.free = f.free
    BY <1>4 DEF Usable, Sound, Based
  <2> HIDE DEF g
  <2>3. View(g) = View(f) /\ Tell(g) = at /\ Held(g) = Held(f)
    BY <1>4, <2>2 DEF View, Tell, Held
  <2>4. Sound(g)
    BY <1>4, <2>2, <2>3 DEF Usable, Sound
  <2> QED
    BY <1>4, <2>1, <2>2, <2>3, <2>4
<1> QED
  BY <1>1, <1>2, <1>3, <1>4 DEF Usable, Sound

LEMMA CutCells ==
  ASSUME NEW d \in Seq(Nat), NEW n \in 0..Len(d)
  PROVE  SubSeq(d, 1, n) \in Seq(Nat) /\ Len(SubSeq(d, 1, n)) = n /\ (n = Len(d) => SubSeq(d, 1, n) = d)
<1>1. Len(d) \in Nat /\ n \in Nat /\ \A k \in 1..n : d[k] \in Nat
  BY ElementCells
<1>2. /\ SubSeq(d, 1, n) \in Seq(Nat) /\ Len(SubSeq(d, 1, n)) = (IF 1 <= n THEN n - 1 + 1 ELSE 0)
      /\ \A k \in 1..n - 1 + 1 : SubSeq(d, 1, n)[k] = d[1 + k - 1]
  BY <1>1, SubSeqProperties
<1> DEFINE s == SubSeq(d, 1, n)
<1>3. s \in Seq(Nat) /\ Len(s) = n /\ \A k \in 1..n : s[k] = d[k]
  BY <1>1, <1>2
<1> HIDE DEF s
<1>4. n = Len(d) => s = d
  BY <1>3, SameCells
<1> QED
  BY <1>3, <1>4 DEF s

\* SetFileSize(), where the caller is.
LEMMA SetFileSizeCuts ==
  ASSUME FileCacheAssumption, NEW f, Usable(f), NEW n \in Nat, n = Tell(f), n <= Len(View(f)), NEW fault \in BOOLEAN
  PROVE  /\ Usable(SetFileSize(f, n, fault)) /\ View(SetFileSize(f, n, fault)) = SubSeq(View(f), 1, n)
         /\ Tell(SetFileSize(f, n, fault)) = n
         /\ SetFileSize(f, n, fault).free + Held(SetFileSize(f, n, fault)) = f.free + Held(f)
<1>1. ASSUME NEW u, Usable(u), u.mode = "NONE", u.disk = View(f), u.pos = n
      PROVE  /\ Usable(I_SetLen(u, n)) /\ I_SetLen(u, n).mode = "NONE" /\ View(I_SetLen(u, n)) = SubSeq(View(f), 1, n)
             /\ Tell(I_SetLen(u, n)) = n /\ I_SetLen(u, n).free = u.free /\ Held(I_SetLen(u, n)) = Held(u)
  <2> DEFINE g == I_SetLen(u, n)
             d == View(f)
             c == SubSeq(d, 1, n)
  <2>1. d \in Seq(Nat) /\ n \in 0..Len(d) /\ Len(d) \in Nat /\ Len(d) < UNKN
    BY ViewFacts
  <2> HIDE DEF d
  <2>2. c \in Seq(Nat) /\ Len(c) = n /\ (n = Len(d) => c = d)
    BY <2>1, CutCells
  <2>3. /\ DOMAIN g = DOMAIN u /\ g.disk = (IF n = u.len THEN u.disk ELSE IF n <= Len(u.disk) THEN SubSeq(u.disk, 1, n) ELSE Put(u.disk, n - 1, <<Gap>>))
        /\ g.dos = u.dos /\ g.pos = u.pos /\ g.len = n /\ g.mode = u.mode /\ g.held = u.held
        /\ g.offset = u.offset /\ g.vfptr = u.vfptr /\ g.free = u.free
    BY DEF I_SetLen, Usable, Sound, Based
  <2> HIDE DEF g, c
  <2>4. u.disk = d /\ u.len \in {UNKN, Len(d)}
    BY <1>1 DEF Usable, Sound, Based, d
  <2>5. g.disk = c
    <3>1. CASE n = u.len
      <4>1. n = Len(d)
        BY <2>1, <2>4, <3>1
      <4> QED
        BY <2>2, <2>3, <2>4, <3>1, <4>1
    <3>2. CASE n # u.len
      BY <2>1, <2>3, <2>4, <3>2 DEF c
    <3> QED
      BY <3>1, <3>2
  <2>6. Based(g)
    BY <1>1, <2>2, <2>3, <2>5 DEF Usable, Sound, Based
  <2>7. View(g) = c /\ Tell(g) = n /\ Held(g) = Held(u)
    BY <1>1, <2>3, <2>5 DEF View, Tell, Held
  <2>8. Usable(g)
    BY <1>1, <2>1, <2>2, <2>3, <2>6, <2>7 DEF Usable, Sound, UNKN, FileCacheAssumption
  <2> QED
    BY <1>1, <2>3, <2>7, <2>8 DEF g, c, d
<1>2. CASE f.mode = "NONE"
  <2>1. f.disk = View(f) /\ f.pos = n
    BY <1>2 DEF View, Tell
  <2>2. SetFileSize(f, n, fault) = I_SetLen(f, n)
    BY <1>2 DEF SetFileSize
  <2> QED
    BY <1>1, <1>2, <2>1, <2>2
<1>3. CASE f.mode # "NONE"
  <2> DEFINE u == UnCache(f, fault)
             g == I_SetLen(u, n)
             w == CacheW(g, FALSE)
  <2>1. Same(f, u) /\ u.mode = "NONE" /\ u.disk = View(f) /\ u.pos = n
    BY UnCacheEffect
  <2>2. SetFileSize(f, n, fault) = w
    BY <1>3 DEF SetFileSize
  <2> HIDE DEF u
  <2>3. Usable(u)
    BY <2>1 DEF Same, Usable
  <2>4. Usable(g) /\ View(g) = SubSeq(View(f), 1, n) /\ Tell(g) = n /\ g.free = u.free /\ Held(g) = Held(u)
    BY <1>1, <2>1, <2>3
  <2> HIDE DEF g
  <2>5. Same(g, w)
    BY <2>4, CacheEffect
  <2> QED
    BY <2>1, <2>2, <2>4, <2>5 DEF Same, Usable
<1> QED
  BY <1>2, <1>3

\* GetFileSize().
LEMMA SizedKnows ==
  ASSUME FileCacheAssumption, NEW f, Usable(f), NEW fault \in BOOLEAN
  PROVE  Same(f, Sized(f, fault)) /\ I_GetLen(Sized(f, fault)) = Len(View(f))
<1>1. CASE f.mode # "WRIT"
  <2>1. Sized(f, fault) = f /\ View(f) = f.disk
    BY <1>1 DEF Sized, View
  <2> QED
    BY <2>1, LengthKnown DEF Same, Usable, Sound
<1>2. CASE f.mode = "WRIT"
  <2> DEFINE u == UnCache(f, fault)
             w == Plugged(u, "WRIT")
  <2>1. Same(f, u) /\ u.mode = "NONE" /\ u.disk = View(f)
    BY UnCacheEffect
  <2>2. Sized(f, fault) = w
    BY <1>2, <2>1 DEF Sized, CacheW, UnCache
  <2> HIDE DEF u
  <2>3. Usable(u)
    BY <2>1 DEF Same, Usable
  <2>4. Same(u, w) /\ w.disk = u.disk
    BY <2>1, <2>3, PluggedEffect
  <2> HIDE DEF w
  <2>5. I_GetLen(w) = Len(w.disk)
    BY <2>4, LengthKnown DEF Same, Sound
  <2> QED
    BY <2>1, <2>2, <2>4, <2>5, SameOf
<1> QED
  BY <1>1, <1>2

LEMMA TotalEffect ==
  ASSUME FileCacheAssumption, NEW f, Usable(f), f.mode = "READ", f.held = <<>>, NEW fault \in BOOLEAN
  PROVE  Same(f, TotalOf(f, fault))
<1> DEFINE length == Len(f.disk)
<1>1. TotalOf(f, fault) = Total(f, length, fault) /\ length \in Nat
  BY LengthKnown DEF TotalOf, Usable, Sound
<1> HIDE DEF length
<1>2. CASE length = 0 \/ 1 + (length \div BLOCK) > f.free
  BY <1>1, <1>2 DEF Total, Same, Usable
<1>3. CASE ~(length = 0 \/ 1 + (length \div BLOCK) > f.free)
  <2> DEFINE zero == 0
             s == I_Seek(f, zero)
             r == I_Read(s, length, fault)
             g == [r EXCEPT !.offset = zero, !.held = r.out, !.out = f.out, !.free = @ - Blocks(length)]
             p == Part(f.disk, zero + 1, zero + length)
  <2>1. Total(f, length, fault) = g
    BY <1>3 DEF Total, Blocks
  <2> HIDE DEF zero
  <2>2. zero \in Nat /\ zero <= length
    BY <1>1 DEF zero
  <2>3. Based(s) /\ s.pos = zero /\ s.disk = f.disk /\ Framed(f, s)
    BY <2>2, SeekEffect DEF Usable, Sound
  <2> HIDE DEF s
  <2>4. Based(r) /\ r.out = p /\ r.disk = f.disk /\ Framed(s, r)
    <3>1. s.pos <= Len(s.disk)
      BY <2>2, <2>3 DEF length
    <3> QED
      BY <1>1, <2>3, <3>1, ReadEffect
  <2> HIDE DEF r
  <2>5. p \in Seq(Nat) /\ Len(p) = length
    <3>1. p \in Seq(Nat) /\ Len(p) = (IF zero >= Len(f.disk) THEN 0 ELSE Least(length, Len(f.disk) - zero))
      <4>1. f.disk \in Seq(Nat)
        BY DEF Usable, Sound, Based
      <4> QED
        BY <1>1, <2>2, <4>1, PartFacts
    <3> HIDE DEF p
    <3> QED
      BY <1>1, <1>3, <3>1 DEF zero, length, Least
  <2> HIDE DEF p
  <2>6. /\ DOMAIN g = DOMAIN r /\ g.disk = f.disk /\ g.dos = r.dos /\ g.pos = r.pos /\ g.len = r.len /\ g.mode = "READ" /\ g.held = p
        /\ g.offset = zero /\ g.vfptr = f.vfptr /\ g.free = f.free - Blocks(length)
    BY <2>3, <2>4 DEF Based, Framed
  <2> HIDE DEF g
  <2>7. Held(g) = Blocks(length) /\ Held(f) = 0
    BY <2>5, <2>6, SomeHeld, NoneHeld
  <2>8. Blocks(length) \in Nat /\ f.free \in Nat /\ Blocks(length) <= f.free
    <3>1. length \div BLOCK \in Nat /\ Blocks(length) = (length \div BLOCK) + (IF length % BLOCK = 0 THEN 0 ELSE 1)
      BY <1>1, BlocksOf
    <3>2. f.free \in Nat
      BY DEF Usable, Sound, Based
    <3> QED
      BY <1>3, <3>1, <3>2
  <2>9. Based(g)
    <3>1. DOMAIN g = {"disk", "dos", "pos", "len", "mode", "held", "offset", "vfptr", "free", "out"} /\ g.pos \in Nat /\ g.dos = g.pos
      BY <2>4, <2>6 DEF Based
    <3>2. g.disk \in Seq(Nat) /\ g.len \in {UNKN, Len(g.disk)} /\ g.held \in Seq(Nat)
      BY <2>4, <2>5, <2>6 DEF Based
    <3>3. g.offset \in Nat /\ g.vfptr \in Nat /\ g.free \in Nat
      BY <2>2, <2>6, <2>8 DEF Usable, Sound, Based
    <3> QED
      BY <3>1, <3>2, <3>3 DEF Based
  <2>10. View(g) = View(f) /\ Tell(g) = Tell(f)
    BY <2>6 DEF View, Tell
  <2>11. g.held = Part(g.disk, g.offset + 1, g.offset + Len(g.held))
    BY <2>5, <2>6 DEF p
  <2>12. Sound(g)
    BY <2>6, <2>9, <2>10, <2>11 DEF Sound, Usable
  <2>13. g.free + Held(g) = f.free + Held(f)
    BY <2>6, <2>7, <2>8
  <2> QED
    BY <1>1, <2>1, <2>6, <2>10, <2>12, <2>13 DEF Same
<1> QED
  BY <1>2, <1>3

LEMMA OpenedSame ==
  ASSUME FileCacheAssumption, NEW f, Usable(f), NEW mode \in Modes, NEW fault \in BOOLEAN
  PROVE  Same(f, Opened(mode, f, fault))
<1>1. Same(f, f)
  BY DEF Same, Usable
<1>2. CASE mode = "NOC"
  BY <1>1, <1>2 DEF Opened
<1>3. CASE mode = "CRI"
  BY <1>3, CacheEffect DEF Opened
<1>4. CASE mode = "CWR"
  BY <1>4, CacheEffect DEF Opened
<1>5. CASE mode = "CRT"
  <2> DEFINE u == UnCache(f, fault)
             g == Plugged(u, "READ")
  <2>1. Same(f, u) /\ u.mode = "NONE"
    BY UnCacheEffect
  <2>2. CacheR(u, FALSE) = g
    BY <2>1 DEF CacheR, UnCache
  <2>3. Opened(mode, f, fault) = IF f.mode = "READ" /\ Len(f.held) = I_GetLen(f) THEN f ELSE TotalOf(CacheR(u, FALSE), fault)
    BY <1>5 DEF Opened, CacheRT
  <2> HIDE DEF u
  <2>4. Usable(u)
    BY <2>1 DEF Same, Usable
  <2>5. Same(u, g) /\ g.mode = "READ" /\ g.held = <<>>
    BY <2>1, <2>4, PluggedEffect
  <2> HIDE DEF g
  <2>6. Same(f, g) /\ Usable(g)
    BY <2>1, <2>5, SameOf
  <2>7. Same(f, TotalOf(g, fault))
    BY <2>5, <2>6, TotalEffect, SameOf
  <2> QED
    BY <1>1, <2>2, <2>3, <2>7
<1> QED
  BY <1>2, <1>3, <1>4, <1>5 DEF Modes
------------------------------------------------------------------------------
LEMMA FilesStart == ASSUME FileCacheAssumption PROVE FilesInit => FilesInv
<1> SUFFICES ASSUME FilesInit PROVE FilesInv
  OBVIOUS
<1>1. /\ DOMAIN file = {"disk", "dos", "pos", "len", "mode", "held", "offset", "vfptr", "free", "out"}
      /\ file.disk = <<>> /\ file.dos = 0 /\ file.pos = 0 /\ file.len = UNKN /\ file.mode = "NONE" /\ file.held = <<>>
      /\ file.offset = 0 /\ file.vfptr = 0 /\ file.free = BLOCKS
  BY DEF FilesInit, Fresh
<1>2. BLOCKS \in Nat /\ MaxLen \in Nat
  BY DEF FileCacheAssumption, UNKN
<1>3. Based(file)
  BY <1>1, <1>2, EmptyCells DEF Based
<1>4. View(file) = <<>> /\ Held(file) = 0
  BY <1>1, NoneHeld DEF View
<1>5. Sound(file)
  BY <1>1, <1>2, <1>3, <1>4, EmptyCells DEF Sound, UNKN
<1>6. opening = <<"CWR", "MUST">> /\ "CWR" \in Modes /\ "MUST" \in Insistence /\ opening # <<>>
  BY DEF FilesInit, Modes, Insistence
<1> QED
  BY <1>1, <1>2, <1>4, <1>5, <1>6, EmptyCells DEF FilesInit, FilesInv

(* What a call on the open file does to the file and what it gives back    *)
(* keep the invariant.                                                     *)
LEMMA OpenFile ==
  ASSUME FilesInv, opening = <<>>, file.mode # "CLOSED"
  PROVE  Usable(file) /\ View(file) = want /\ Tell(file) = due /\ want \in Seq(Nat) /\ Len(want) \in Nat
BY ViewFacts DEF FilesInv, Usable

LEMMA CallStays ==
  ASSUME FilesInv, Step, Usable(file'), View(file') = want', Tell(file') = due', file'.free + Held(file') = file.free + Held(file),
         Len(want') <= MaxLen, due' \in Nat, answered'[1] = answered'[2]
  PROVE  FilesInv'
BY DEF FilesInv, Step, Usable

LEMMA ReadFileStays ==
  ASSUME FileCacheAssumption, FilesInv, NEW n \in Nat \ {0}, NEW roomy \in BOOLEAN, NEW fault \in BOOLEAN, ReadFile(n, roomy, fault)
  PROVE  FilesInv'
<1>1. /\ Step /\ due <= Len(want) /\ file' = Read(file, n, roomy, fault) /\ want' = want
      /\ answered' = <<file'.out, Part(want, due + 1, due + n)>> /\ due' = due + Len(answered'[2])
  BY DEF ReadFile
<1>2. Usable(file) /\ View(file) = want /\ Tell(file) = due /\ want \in Seq(Nat)
  BY <1>1, OpenFile DEF Step
<1>3. Reads(file, file', n)
  BY <1>1, <1>2, ReadReads
<1>4. file'.out = Part(want, due + 1, due + n) /\ answered'[1] = answered'[2] /\ due' = due + Len(file'.out)
  BY <1>1, <1>2, <1>3 DEF Reads
<1>5. due' \in Nat
  <2>1. due \in Nat
    BY DEF FilesInv
  <2>2. Part(want, due + 1, due + n) \in Seq(Nat)
    BY <1>2, <2>1, PartFacts
  <2> QED
    BY <1>4, <2>1, <2>2, ElementCells
<1>6. Len(want') <= MaxLen
  BY <1>1 DEF FilesInv
<1> QED
  BY <1>1, <1>2, <1>3, <1>4, <1>5, <1>6, CallStays DEF Reads, Usable

LEMMA WriteFileStays ==
  ASSUME FileCacheAssumption, FilesInv, NEW n \in Nat \ {0}, NEW fault \in BOOLEAN, WriteFile(n, fault)
  PROVE  FilesInv'
<1> DEFINE cells == [k \in 1..n |-> steps + 1]
<1>1. /\ Step /\ due + n <= MaxLen /\ file' = Write(file, cells, fault) /\ want' = Put(want, due, cells) /\ due' = due + n
      /\ answered' = answered
  BY DEF WriteFile
<1>2. Usable(file) /\ View(file) = want /\ Tell(file) = due /\ want \in Seq(Nat) /\ Len(want) \in Nat
  BY <1>1, OpenFile DEF Step
<1>3. cells \in Seq(Nat) /\ Len(cells) = n /\ cells # <<>>
  <2>1. cells \in [1..n -> Nat]
    BY DEF FilesInv
  <2> HIDE DEF cells
  <2>2. cells \in Seq(Nat) /\ Len(cells) = n
    BY <2>1, FunctionCells
  <2> QED
    BY <2>2, EmptyCells
<1> HIDE DEF cells
<1>4. due \in Nat /\ Len(want) <= MaxLen /\ MaxLen \in Nat /\ due' \in Nat /\ answered'[1] = answered'[2]
  BY <1>1 DEF FilesInv, FileCacheAssumption
<1>5. Len(want') <= MaxLen /\ Len(want') < UNKN
  <2>1. Len(want') = IF due + Len(cells) > Len(want) THEN due + Len(cells) ELSE Len(want)
    BY <1>1, <1>2, <1>3, <1>4, PutFacts
  <2> QED
    BY <1>1, <1>2, <1>3, <1>4, <2>1 DEF UNKN
<1>6. Writes(file, file', cells)
  BY <1>1, <1>2, <1>3, <1>5, WriteWrites
<1> QED
  BY <1>1, <1>2, <1>3, <1>4, <1>5, <1>6, CallStays DEF Writes, Usable

LEMMA SeekFileStays ==
  ASSUME FileCacheAssumption, FilesInv, NEW at \in Nat, NEW fault \in BOOLEAN, SeekFile(at, fault)
  PROVE  FilesInv'
<1>1. Step /\ file' = Seek(file, at, fault) /\ due' = at /\ want' = want /\ answered' = answered
  BY DEF SeekFile
<1>2. Usable(file) /\ View(file) = want
  BY <1>1, OpenFile DEF Step
<1>3. /\ Sound(file') /\ file'.mode = file.mode /\ View(file') = want /\ Tell(file') = at
      /\ file'.free + Held(file') = file.free + Held(file)
  BY <1>1, <1>2, SeekMoves
<1>4. Len(want') <= MaxLen /\ answered'[1] = answered'[2]
  BY <1>1 DEF FilesInv
<1> QED
  BY <1>1, <1>2, <1>3, <1>4, CallStays DEF Usable

LEMMA CutFileStays ==
  ASSUME FileCacheAssumption, FilesInv, NEW fault \in BOOLEAN, CutFile(fault)
  PROVE  FilesInv'
<1>1. /\ Step /\ due <= Len(want) /\ file' = SetFileSize(file, due, fault) /\ want' = SubSeq(want, 1, due) /\ due' = due
      /\ answered' = answered
  BY DEF CutFile
<1>2. Usable(file) /\ View(file) = want /\ Tell(file) = due /\ want \in Seq(Nat) /\ Len(want) \in Nat
  BY <1>1, OpenFile DEF Step
<1>3. due \in Nat /\ Len(want) <= MaxLen /\ MaxLen \in Nat /\ answered'[1] = answered'[2]
  BY <1>1 DEF FilesInv, FileCacheAssumption
<1>4. Usable(file') /\ View(file') = want' /\ Tell(file') = due' /\ file'.free + Held(file') = file.free + Held(file)
  BY <1>1, <1>2, <1>3, SetFileSizeCuts
<1>5. Len(want') <= MaxLen
  <2>1. Len(want') = due
    BY <1>1, <1>2, <1>3, CutCells
  <2> QED
    BY <1>1, <1>2, <1>3, <2>1
<1> QED
  BY <1>1, <1>3, <1>4, <1>5, CallStays

LEMMA SizeFileStays ==
  ASSUME FileCacheAssumption, FilesInv, NEW fault \in BOOLEAN, SizeFile(fault)
  PROVE  FilesInv'
<1>1. Step /\ file' = Sized(file, fault) /\ answered' = <<<<I_GetLen(Sized(file, fault))>>, <<Len(want)>>>> /\ want' = want /\ due' = due
  BY DEF SizeFile
<1>2. Usable(file) /\ View(file) = want /\ Tell(file) = due
  BY <1>1, OpenFile DEF Step
<1>3. Same(file, file') /\ I_GetLen(Sized(file, fault)) = Len(want)
  BY <1>1, <1>2, SizedKnows
<1>4. Len(want') <= MaxLen /\ answered'[1] = answered'[2] /\ due' \in Nat
  BY <1>1, <1>3 DEF FilesInv
<1> QED
  BY <1>1, <1>2, <1>3, <1>4, CallStays DEF Same, Usable

LEMMA RecacheStays ==
  ASSUME FileCacheAssumption, FilesInv, NEW mode \in Modes, NEW fault \in BOOLEAN, Recache(mode, fault)
  PROVE  FilesInv'
<1>1. Step /\ file' = Opened(mode, file, fault) /\ want' = want /\ due' = due /\ answered' = answered
  BY DEF Recache
<1>2. Usable(file) /\ View(file) = want /\ Tell(file) = due
  BY <1>1, OpenFile DEF Step
<1>3. Same(file, file')
  BY <1>1, <1>2, OpenedSame
<1>4. Len(want') <= MaxLen /\ answered'[1] = answered'[2] /\ due' \in Nat
  BY <1>1 DEF FilesInv
<1> QED
  BY <1>1, <1>2, <1>3, <1>4, CallStays DEF Same, Usable

LEMMA OpenStays ==
  ASSUME FileCacheAssumption, FilesInv, NEW create \in BOOLEAN, NEW fault \in BOOLEAN, Open(create, fault)
  PROVE  FilesInv'
<1> DEFINE f == [Fresh(IF create THEN <<>> ELSE file.disk, IF create THEN 0 ELSE UNKN) EXCEPT !.free = file.free]
<1>1. /\ opening # <<>> /\ file.mode = "NONE" /\ file' = Opened(opening[1], f, fault) /\ want' = (IF create THEN <<>> ELSE want)
      /\ due' = 0 /\ opening' = <<>> /\ answered' = answered /\ taken' = taken /\ steps' = steps
  BY DEF Open
<1>2. Sound(file) /\ file.held = <<>> /\ want = file.disk /\ file.disk \in Seq(Nat) /\ Held(file) = 0 /\ file.free \in Nat
  <2>1. Sound(file) /\ file.held = <<>> /\ want = View(file) /\ file.disk \in Seq(Nat) /\ file.free \in Nat
    BY <1>1 DEF FilesInv, Sound, Based
  <2> QED
    BY <2>1, NoneHeld DEF View
<1>3. /\ DOMAIN f = {"disk", "dos", "pos", "len", "mode", "held", "offset", "vfptr", "free", "out"}
      /\ f.disk = (IF create THEN <<>> ELSE file.disk) /\ f.dos = 0 /\ f.pos = 0 /\ f.len = (IF create THEN 0 ELSE UNKN)
      /\ f.mode = "NONE" /\ f.held = <<>> /\ f.offset = 0 /\ f.vfptr = 0 /\ f.free = file.free
  BY DEF Fresh
<1> HIDE DEF f
<1>4. f.disk = want' /\ want' \in Seq(Nat) /\ Len(want') <= MaxLen /\ Len(want') < UNKN /\ f.len \in {UNKN, Len(f.disk)}
  <2>1. MaxLen \in Nat /\ Len(want) <= MaxLen /\ Len(want) \in Nat
    BY <1>2, ElementCells DEF FileCacheAssumption, FilesInv
  <2>2. CASE create
    BY <1>1, <1>3, <2>1, <2>2, EmptyCells DEF UNKN
  <2>3. CASE ~create
    BY <1>1, <1>2, <1>3, <2>1, <2>3 DEF UNKN
  <2> QED
    BY <2>2, <2>3
<1>5. Based(f)
  BY <1>2, <1>3, <1>4, EmptyCells DEF Based
<1>6. View(f) = want' /\ Tell(f) = 0 /\ Held(f) = 0
  BY <1>3, <1>4, NoneHeld DEF View, Tell
<1>7. Usable(f)
  BY <1>3, <1>4, <1>5, <1>6 DEF Usable, Sound
<1>8. opening[1] \in Modes
  BY <1>1 DEF FilesInv
<1>9. Same(f, file')
  BY <1>1, <1>7, <1>8, OpenedSame
<1> QED
  BY <1>1, <1>2, <1>3, <1>4, <1>6, <1>9 DEF FilesInv, Same

LEMMA RefuseStays ==
  ASSUME FileCacheAssumption, FilesInv, Refuse
  PROVE  FilesInv'
<1>1. /\ opening # <<>> /\ opening' \in {opening, <<>>} /\ file' = (IF opening' = <<>> THEN [file EXCEPT !.mode = "CLOSED"] ELSE file)
      /\ UNCHANGED <<want, due, answered, taken, steps>>
  BY DEF Refuse
<1>2. CASE opening' # <<>>
  BY <1>1, <1>2 DEF FilesInv
<1>3. CASE opening' = <<>>
  <2>1. Sound(file) /\ file.mode = "NONE" /\ file.held = <<>> /\ Held(file) = 0
    <3>1. Sound(file) /\ file.mode = "NONE" /\ file.held = <<>>
      BY <1>1 DEF FilesInv, Sound
    <3> QED
      BY <3>1, NoneHeld
  <2>2. Based(file') /\ file'.disk = file.disk /\ file'.mode = "CLOSED" /\ file'.held = <<>> /\ file'.free = file.free
    BY <1>1, <1>3, <2>1 DEF Sound, Based
  <2>3. View(file') = View(file) /\ Held(file') = 0
    BY <2>1, <2>2, NoneHeld DEF View
  <2>4. Sound(file')
    BY <2>1, <2>2, <2>3 DEF Sound
  <2> QED
    BY <1>1, <1>3, <2>1, <2>2, <2>3, <2>4 DEF FilesInv
<1> QED
  BY <1>2, <1>3

LEMMA CloseFileStays ==
  ASSUME FileCacheAssumption, FilesInv, NEW fault \in BOOLEAN, CloseFile(fault)
  PROVE  FilesInv'
<1> DEFINE u == UnCache(file, fault)
<1>1. /\ file.mode # "CLOSED" /\ opening = <<>> /\ file' = [u EXCEPT !.mode = "CLOSED"]
      /\ UNCHANGED <<want, due, answered, taken, opening, steps>>
  BY DEF CloseFile, Close
<1>2. Usable(file) /\ View(file) = want
  BY <1>1, OpenFile
<1>3. Same(file, u) /\ u.disk = want /\ u.held = <<>>
  BY <1>2, UnCacheEffect
<1> HIDE DEF u
<1>4. Based(file') /\ file'.disk = want /\ file'.mode = "CLOSED" /\ file'.held = <<>> /\ file'.free = u.free
  BY <1>1, <1>3 DEF Same, Sound, Based
<1>5. View(file') = want /\ Held(file') = 0 /\ Held(u) = 0
  BY <1>3, <1>4, NoneHeld DEF View
<1>6. Sound(file')
  BY <1>2, <1>4, <1>5, ViewFacts DEF Sound
<1>7. file'.free + Held(file') = file.free + Held(file)
  BY <1>3, <1>4, <1>5 DEF Same
<1> QED
  BY <1>1, <1>4, <1>5, <1>6, <1>7 DEF FilesInv

LEMMA ReopenStays ==
  ASSUME FileCacheAssumption, FilesInv, NEW mode \in Modes, NEW how \in Insistence, Reopen(mode, how)
  PROVE  FilesInv'
<1>1. /\ file.mode = "CLOSED" /\ opening' = <<mode, how>> /\ file' = [file EXCEPT !.mode = "NONE"]
      /\ UNCHANGED <<want, due, answered, taken, steps>>
  BY DEF Reopen
<1>2. Sound(file) /\ file.held = <<>> /\ View(file) = want
  BY <1>1 DEF FilesInv, Sound
<1>3. Based(file') /\ file'.disk = file.disk /\ file'.mode = "NONE" /\ file'.held = <<>> /\ file'.free = file.free
  BY <1>1, <1>2 DEF Sound, Based
<1>4. View(file') = want /\ Held(file') = Held(file)
  BY <1>1, <1>2, <1>3 DEF View, Held
<1>5. Sound(file')
  BY <1>2, <1>3, <1>4 DEF Sound
<1>6. opening' \in Modes \X Insistence /\ opening' # <<>>
  BY <1>1
<1> QED
  BY <1>1, <1>3, <1>4, <1>5, <1>6 DEF FilesInv

LEMMA OthersMoveStays ==
  ASSUME FileCacheAssumption, FilesInv, NEW n \in Int, OthersMove(n)
  PROVE  FilesInv'
<1>1. /\ opening = <<>> /\ file.free + taken - n >= 0 /\ taken' = n /\ file' = [file EXCEPT !.free = @ + taken - n]
      /\ UNCHANGED <<want, due, answered, opening, steps>>
  BY DEF OthersMove
<1>2. Sound(file) /\ file.free \in Nat /\ taken \in Int /\ file.held \in Seq(Nat)
  BY DEF FilesInv, Sound, Based
<1>3. /\ DOMAIN file' = DOMAIN file /\ file'.disk = file.disk /\ file'.dos = file.dos /\ file'.pos = file.pos /\ file'.len = file.len
      /\ file'.mode = file.mode /\ file'.held = file.held /\ file'.offset = file.offset /\ file'.vfptr = file.vfptr
      /\ file'.free = file.free + taken - n
  BY <1>1, <1>2 DEF Sound, Based
<1>4. Based(file')
  <2>1. file'.free \in Nat
    BY <1>1, <1>2, <1>3
  <2> QED
    BY <1>2, <1>3, <2>1 DEF Sound, Based
<1>5. View(file') = View(file) /\ Tell(file') = Tell(file) /\ Held(file') = Held(file)
  BY <1>3 DEF View, Tell, Held
<1>6. Sound(file')
  BY <1>2, <1>3, <1>4, <1>5 DEF Sound
<1>7. file'.free + Held(file') + taken' = BLOCKS
  <2> DEFINE held == Held(file)
  <2>1. file.free + held + taken = BLOCKS
    BY DEF FilesInv
  <2>2. file'.free + Held(file') + taken' = file.free + taken - n + held + n
    BY <1>1, <1>3, <1>5
  <2>3. held \in Int
    BY <1>2, SomeHeld
  <2> HIDE DEF held
  <2> QED
    BY <1>2, <2>1, <2>2, <2>3
<1> QED
  BY <1>1, <1>3, <1>5, <1>6, <1>7 DEF FilesInv

LEMMA FilesStay == ASSUME FileCacheAssumption, FilesInv, [FilesNext]_files PROVE FilesInv'
<1>1. CASE UNCHANGED files
  BY <1>1 DEF files, FilesInv
<1>2. BLOCK \in Nat \ {0} /\ BLOCKS \in Nat /\ MaxLen \in Nat /\ BLOCK + 1 \in Nat \ {0}
  BY DEF FileCacheAssumption, UNKN
<1>3. CASE Refuse
  BY <1>3, RefuseStays
<1>4. ASSUME NEW m \in Modes, NEW i \in Insistence, Reopen(m, i) PROVE FilesInv'
  BY <1>4, ReopenStays
<1>5. ASSUME NEW n \in {0, BLOCKS - 2, BLOCKS}, OthersMove(n) PROVE FilesInv'
  <2>1. n \in Int
    BY <1>2
  <2> QED
    BY <1>5, <2>1, OthersMoveStays
<1>6. ASSUME NEW fault \in BOOLEAN, NEW create \in BOOLEAN, Open(create, fault) PROVE FilesInv'
  BY <1>6, OpenStays
<1>7. ASSUME NEW fault \in BOOLEAN, CloseFile(fault) PROVE FilesInv'
  BY <1>7, CloseFileStays
<1>8. ASSUME NEW fault \in BOOLEAN, NEW n \in {1, BLOCK, BLOCK + 1}, NEW roomy \in BOOLEAN, ReadFile(n, roomy, fault) PROVE FilesInv'
  <2>1. n \in Nat \ {0}
    BY <1>2
  <2> QED
    BY <1>8, <2>1, ReadFileStays
<1>9. ASSUME NEW fault \in BOOLEAN, NEW n \in {1, BLOCK}, WriteFile(n, fault) PROVE FilesInv'
  <2>1. n \in Nat \ {0}
    BY <1>2
  <2> QED
    BY <1>9, <2>1, WriteFileStays
<1>10. ASSUME NEW fault \in BOOLEAN, NEW at \in 0..MaxLen, SeekFile(at, fault) PROVE FilesInv'
  BY <1>2, <1>10, SeekFileStays
<1>11. ASSUME NEW fault \in BOOLEAN, CutFile(fault) PROVE FilesInv'
  BY <1>11, CutFileStays
<1>12. ASSUME NEW fault \in BOOLEAN, SizeFile(fault) PROVE FilesInv'
  BY <1>12, SizeFileStays
<1>13. ASSUME NEW fault \in BOOLEAN, NEW m \in {"CRI", "CRT", "CWR"}, Recache(m, fault) PROVE FilesInv'
  BY <1>13, RecacheStays DEF Modes
<1> QED
  BY <1>1, <1>3, <1>4, <1>5, <1>6, <1>7, <1>8, <1>9, <1>10, <1>11, <1>12, <1>13 DEF FilesNext

LEMMA FilesHold == FilesSpec => []FilesInv
<1>1. FilesInit => FilesInv
  BY FileCacheAssumption, FilesStart
<1>2. FilesInv /\ [FilesNext]_files => FilesInv'
  BY FileCacheAssumption, FilesStay
<1> QED
  BY <1>1, <1>2, PTL DEF FilesSpec

\* Whatever is read, written, cut off or asked for, through whichever cache, with
\* transfers that DOS cuts short and blocks that other files take: what the
\* original's programs read of a file, and the size it tells, are those of one
\* plain file with the same writes (Read(), Write(), Seek(), SetFileSize(), ReCache()
\* and Close() of LLIO.CPP).
THEOREM FileAsWritten == FilesSpec => []CacheSeesFile
<1>1. FilesInv => CacheSeesFile
  BY DEF FilesInv, CacheSeesFile, Sound, View
<1> QED
  BY <1>1, FilesHold, PTL

\* The blocks that this file, other files and the pool have are always all there
\* are, and a file that is closed or has no cache has none (LLIO.CPP).
THEOREM BlocksAccounted == FilesSpec => []BlocksBack
<1>1. ASSUME FilesInv PROVE BlocksBack
  <2> DEFINE held == Held(file)
  <2>1. file.free \in Nat /\ taken \in Int /\ file.held \in Seq(Nat) /\ file.free + held + taken = BLOCKS
    BY <1>1 DEF FilesInv, Sound, Based
  <2>2. held \in Nat
    BY <2>1, FileCacheAssumption, SomeHeld
  <2>3. file.mode \notin {"READ", "WRIT"} => held = 0
    BY <1>1, FileCacheAssumption, NoneHeld DEF FilesInv, Sound
  <2>4. BlocksBack <=> /\ file.free >= 0
                      /\ file.free + taken + (IF file.mode \in {"READ", "WRIT"} THEN held ELSE 0) = BLOCKS
    BY DEF BlocksBack
  <2> HIDE DEF held
  <2> QED
    BY <2>1, <2>2, <2>3, <2>4
<1> QED
  BY <1>1, FilesHold, PTL
------------------------------------------------------------------------------
(* Timestamps.  All cells there are: of the archive, the proofs and the    *)
(* trailers, and zeros; what is at each place of a trailer, whatever the   *)
(* cells of its proof, which may come from several; and what an attach may *)
(* have left that was killed, failed or lost its writes.                   *)
CellsOf(s) == {s[i] : i \in DOMAIN s}
Cells == CellsOf(Archive) \cup (UNION {CellsOf(p) : p \in Proofs}) \cup {Magic[1], Magic[2]} \cup {Number(n) : n \in Nat}
         \cup {ZeroCell}
Valid(p) ==
    LET envelope == ParseFile(p)
    IN  /\ p \in Proofs /\ Len(p) \in 3..MAX_PROOF
        /\ envelope.status = "Ok" /\ envelope.op = "sha256" /\ envelope.leaf = SHA256(Archive)
AtPlace(c, i, n) ==
    /\ i = 1 => c = Magic[1]
    /\ i = 2 => c = Magic[2]
    /\ i = 3 => c = Number(1)
    /\ i = 4 => c = Number(Len(Archive))
    /\ i = 5 => c = Number(n)
    /\ i = 6 => c[1] = "ots"
    /\ i = 7 => c = <<"hash", "sha256">>
    /\ i = 8 => c = SHA256(Archive)
    /\ i \in 6..n + 5 => c[1] \notin {"magic", "number"}
    /\ i = n + 6 => c = Number(n)
    /\ i = n + 7 => c = Magic[1]
    /\ i = n + 8 => c = Magic[2]
Trailing(f, from, n) ==
    Len(f) = Len(Archive) + n + 8 /\ \A i \in from + 1..n + 8 : AtPlace(f[Len(Archive) + i], i, n)
Whole(f) == \E n \in 3..MAX_PROOF : Trailing(f, 0, n)
Broken(f) == Len(f) > Len(Archive) /\ Parse(f).status # "Found"
Behind(f) == f \in Seq(Cells) /\ Len(Archive) <= Len(f) /\ \A i \in 1..Len(Archive) : f[i] = Archive[i]
\* The first w cells of the trailer of p, over one that was there or over nothing.
Over(f, p, w) ==
    /\ w \in 0..Len(p) + 8 /\ Len(Archive) + w <= Len(f)
    /\ \A i \in 1..w : f[Len(Archive) + i] = Build(Len(Archive), p)[i]
    /\ \/ Len(f) = Len(Archive) + w
       \/ \E n \in 3..MAX_PROOF : w < n + 8 /\ Trailing(f, w, n)
StampInv ==
    /\ Behind(stamped)
    /\ ~Attaching => stamped = Archive \/ Whole(stamped) \/ Broken(stamped)
    /\ Attaching => Valid(proof) /\ attested = Len(Archive) /\ Over(stamped, proof, written)
    /\ Stands => Valid(result.proof) /\ stamped = Archive \o Build(Len(Archive), result.proof)

LEMMA TrailerKinds ==
  /\ Len(Magic) = 2 /\ HeadSize = 5 /\ TailSize = 3
  /\ Magic \in Seq(Cells) /\ Magic[1] # Magic[2] /\ Magic[1][1] = "magic" /\ Magic[2][1] = "magic"
  /\ Magic[1] \in Cells /\ Magic[2] \in Cells /\ ZeroCell \in Cells /\ ZeroCell # Magic[2] /\ ZeroCell[1] # "number"
  /\ \A n \in Nat : Number(n) \in Cells /\ Number(n)[1] = "number" /\ Number(n)[2] = n
<1>1. Magic[1] \in Cells /\ Magic[2] \in Cells /\ ZeroCell \in Cells /\ \A n \in Nat : Number(n) \in Cells
  <2>1. \A n \in Nat : Number(n) \in {Number(k) : k \in Nat}
    OBVIOUS
  <2> QED BY <2>1, Zenon DEF Cells
<1>2. Magic = <<Magic[1], Magic[2]>> /\ Len(Magic) = 2
  BY DEF Magic
<1>3. Magic \in Seq(Cells)
  <2> DEFINE a == Magic[1]
             b == Magic[2]
  <2>1. a \in Cells /\ b \in Cells /\ Magic = <<a, b>>
    BY <1>1, <1>2
  <2> HIDE DEF a, b
  <2> QED BY <2>1
<1>4. Magic[1] # Magic[2] /\ Magic[1][1] = "magic" /\ Magic[2][1] = "magic"
  BY DEF Magic
<1> QED
  BY <1>1, <1>2, <1>3, <1>4 DEF HeadSize, TailSize, Number, ZeroCell

LEMMA PlainCells ==
  ASSUME TimestampsAssumption
  PROVE  /\ Archive \in Seq(Cells) /\ \A p \in Proofs : p \in Seq(Cells)
         /\ \A i \in 1..Len(Archive) : Archive[i][1] \notin {"magic", "number"}
         /\ \A p \in Proofs : \A i \in 1..Len(p) : p[i][1] \notin {"magic", "number"}
<1>1. ASSUME NEW s, Plain(s), \A i \in DOMAIN s : s[i] \in Cells
      PROVE  s \in Seq(Cells) /\ \A i \in 1..Len(s) : s[i][1] \notin {"magic", "number"}
  <2> DEFINE S == CellsOf(s)
  <2>1. s \in Seq(S) /\ \A i \in DOMAIN s : s[i][1] \notin {"magic", "number"}
    BY <1>1 DEF Plain, CellsOf
  <2>2. Len(s) \in Nat /\ DOMAIN s = 1..Len(s) /\ s = [i \in 1..Len(s) |-> s[i]]
    <3> HIDE DEF S
    <3> QED BY <2>1
  <2>3. \A i \in 1..Len(s) : s[i] \in Cells
    BY <1>1, <2>2
  <2> QED
    BY <2>1, <2>2, <2>3
<1>2. Plain(Archive) /\ \A p \in Proofs : Plain(p)
  BY DEF TimestampsAssumption
<1>3. \A i \in DOMAIN Archive : Archive[i] \in Cells
  BY DEF Cells, CellsOf
<1>4. ASSUME NEW p \in Proofs, NEW i \in DOMAIN p PROVE p[i] \in Cells
  <2>1. p[i] \in CellsOf(p)
    BY DEF CellsOf
  <2>2. CellsOf(p) \subseteq UNION {CellsOf(q) : q \in Proofs}
    BY Zenon
  <2> QED
    BY <2>1, <2>2 DEF Cells
<1> QED
  BY <1>1, <1>2, <1>3, <1>4

\* A cell that says how long the proof is, is a number.
LEMMA NumberCell ==
  ASSUME TimestampsAssumption, NEW c \in Cells, c[1] = "number"
  PROVE  \E k \in Nat : c = Number(k)
<1>1. c \notin CellsOf(Archive)
  BY DEF TimestampsAssumption, Plain, CellsOf
<1>2. c \notin UNION {CellsOf(p) : p \in Proofs}
  <2>1. \A p \in Proofs : c \notin CellsOf(p)
    BY DEF TimestampsAssumption, Plain, CellsOf
  <2> QED BY <2>1, Zenon
<1>3. c \notin {Magic[1], Magic[2]} /\ c # ZeroCell
  BY TrailerKinds
<1>4. c \in {Number(n) : n \in Nat}
  BY <1>1, <1>2, <1>3, Zenon DEF Cells
<1> QED
  BY <1>4, Zenon

Joins(r, s, u) ==
    /\ Len(r) = Len(s) + Len(u)
    /\ \A i \in 1..Len(s) : r[i] = s[i]
    /\ \A i \in 1..Len(u) : r[Len(s) + i] = u[i]
LEMMA Joined ==
  ASSUME NEW s \in Seq(Cells), NEW u \in Seq(Cells)
  PROVE  s \o u \in Seq(Cells) /\ Joins(s \o u, s, u)
  BY DEF Joins

LEMMA HeadCells ==
  ASSUME NEW n \in Nat, NEW m \in Nat
  PROVE  LET a == Magic \o <<Number(1), Number(n), Number(m)>>
         IN  /\ a \in Seq(Cells) /\ Len(a) = 5 /\ a[1] = Magic[1] /\ a[2] = Magic[2]
             /\ a[3] = Number(1) /\ a[4] = Number(n) /\ a[5] = Number(m)
<1> DEFINE h == <<Number(1), Number(n), Number(m)>>
           a == Magic \o h
<1>0. Len(h) = 3 /\ h \in Seq(Cells) /\ h[1] = Number(1) /\ h[2] = Number(n) /\ h[3] = Number(m)
  BY TrailerKinds
<1>m. Magic \in Seq(Cells) /\ Len(Magic) = 2
  BY TrailerKinds
<1> HIDE DEF h
<1>1. a \in Seq(Cells) /\ Joins(a, Magic, h)
  BY <1>0, <1>m, Joined
<1> HIDE DEF a
<1>2. Len(a) = 5 /\ (\A i \in 1..2 : a[i] = Magic[i]) /\ \A i \in 1..3 : a[2 + i] = h[i]
  BY <1>0, <1>m, <1>1 DEF Joins
<1>3. a[2 + 1] = h[1] /\ a[2 + 2] = h[2] /\ a[2 + 3] = h[3] /\ a[1] = Magic[1] /\ a[2] = Magic[2]
  BY <1>2
<1>4. /\ a \in Seq(Cells) /\ Len(a) = 5 /\ a[1] = Magic[1] /\ a[2] = Magic[2]
      /\ a[3] = Number(1) /\ a[4] = Number(n) /\ a[5] = Number(m)
  BY <1>0, <1>1, <1>2, <1>3
<1> QED
  BY <1>4 DEF a, h

LEMMA BuildCells ==
  ASSUME NEW n \in Nat, NEW p \in Seq(Cells)
  PROVE  LET t == Build(n, p)
             m == Len(p)
         IN  /\ t \in Seq(Cells) /\ Len(t) = m + 8
             /\ t[1] = Magic[1] /\ t[2] = Magic[2] /\ t[3] = Number(1) /\ t[4] = Number(n) /\ t[5] = Number(m)
             /\ \A i \in 1..m : t[5 + i] = p[i]
             /\ t[m + 6] = Number(m) /\ t[m + 7] = Magic[1] /\ t[m + 8] = Magic[2]
<1> DEFINE m == Len(p)
           h == <<Number(1), Number(n), Number(m)>>
           a == Magic \o h
           b == a \o p
           c == b \o <<Number(m)>>
           t == c \o Magic
<1>0. m \in Nat /\ <<Number(m)>> \in Seq(Cells)
  BY TrailerKinds
<1>m. Magic \in Seq(Cells) /\ Len(Magic) = 2
  BY TrailerKinds
<1>1. a \in Seq(Cells) /\ Len(a) = 5 /\ a[1] = Magic[1] /\ a[2] = Magic[2]
      /\ a[3] = Number(1) /\ a[4] = Number(n) /\ a[5] = Number(m)
  BY <1>0, HeadCells
<1> HIDE DEF a, h
<1>2. b \in Seq(Cells) /\ Len(b) = m + 5 /\ (\A i \in 1..5 : b[i] = a[i]) /\ \A i \in 1..m : b[5 + i] = p[i]
  <2>1. b \in Seq(Cells) /\ Joins(b, a, p)
    BY <1>1, Joined
  <2> HIDE DEF b
  <2> QED BY <1>0, <1>1, <2>1 DEF Joins
<1> HIDE DEF b
<1>3. c \in Seq(Cells) /\ Len(c) = m + 6 /\ (\A i \in 1..m + 5 : c[i] = b[i]) /\ c[m + 6] = Number(m)
  BY <1>0, <1>2
<1> HIDE DEF c
<1>4. t \in Seq(Cells) /\ Len(t) = m + 8 /\ (\A i \in 1..m + 6 : t[i] = c[i])
      /\ t[m + 7] = Magic[1] /\ t[m + 8] = Magic[2]
  <2>1. /\ t \in Seq(Cells) /\ Len(t) = m + 6 + 2
        /\ \A i \in 1..m + 6 : t[i] = c[i]
        /\ \A i \in 1..2 : t[m + 6 + i] = Magic[i]
    <3>1. t \in Seq(Cells) /\ Joins(t, c, Magic)
      BY <1>3, <1>m, Joined
    <3> HIDE DEF t
    <3> QED BY <1>0, <1>3, <1>m, <3>1 DEF Joins
  <2>2. t[m + 6 + 1] = Magic[1] /\ t[m + 6 + 2] = Magic[2]
    BY <2>1
  <2> HIDE DEF t
  <2> QED BY <1>0, <2>1, <2>2
<1>5. t = Build(n, p)
  BY DEF t, c, b, a, h, Build
<1> HIDE DEF t
<1>6. \A i \in 1..5 : t[i] = a[i]
  BY <1>0, <1>2, <1>3, <1>4
<1>7. ASSUME NEW i \in 1..m PROVE t[5 + i] = p[i]
  <2>1. 5 + i \in 1..m + 5 /\ 5 + i \in 1..m + 6
    BY <1>0
  <2>2. t[5 + i] = c[5 + i] /\ c[5 + i] = b[5 + i] /\ b[5 + i] = p[i]
    BY <1>2, <1>3, <1>4, <2>1
  <2> QED BY <2>2
<1>8. t[m + 6] = Number(m)
  BY <1>0, <1>3, <1>4
<1> HIDE DEF m
<1>9. /\ t \in Seq(Cells) /\ Len(t) = m + 8
      /\ t[1] = Magic[1] /\ t[2] = Magic[2] /\ t[3] = Number(1) /\ t[4] = Number(n) /\ t[5] = Number(m)
      /\ \A i \in 1..m : t[5 + i] = p[i]
      /\ t[m + 6] = Number(m) /\ t[m + 7] = Magic[1] /\ t[m + 8] = Magic[2]
  BY <1>1, <1>4, <1>6, <1>7, <1>8
<1> QED
  BY <1>5, <1>9 DEF m

\* Two sequences with the same cells are the same.
LEMMA EqualCells ==
  ASSUME NEW s \in Seq(Cells), NEW u \in Seq(Cells), Len(s) = Len(u), \A i \in 1..Len(s) : s[i] = u[i]
  PROVE  s = u
  BY SeqEqual

Copies(r, f, from, n) == r \in Seq(Cells) /\ Len(r) = n /\ \A i \in 1..n : r[i] = f[from + i]
LEMMA SubCells ==
  ASSUME NEW f \in Seq(Cells), NEW from \in Nat, NEW n \in Nat, from + n <= Len(f)
  PROVE  Copies(Sub(f, from, n), f, from, n)
<1>1. /\ SubSeq(f, from + 1, from + n) \in Seq(Cells) /\ Len(SubSeq(f, from + 1, from + n)) = n
      /\ \A i \in 1..n : SubSeq(f, from + 1, from + n)[i] = f[from + i]
  OBVIOUS
<1> QED
  BY <1>1 DEF Sub, Copies

(* What is parsed: where the last magic is, the number before it says how  *)
(* long the proof is, and the head must be where it then begins.           *)
Marked(f) == Len(f) >= 3 /\ f[Len(f) - 1] = Magic[1] /\ f[Len(f)] = Magic[2]
HeadAt(f, start, k) ==
    /\ f[start + 1] = Magic[1] /\ f[start + 2] = Magic[2] /\ f[start + 3] = Number(1)
    /\ f[start + 4] = Number(start) /\ f[start + 5] = Number(k)
Enclosed(f, k) ==
    /\ k \in Nat /\ k <= MAX_PROOF /\ k + 8 <= Len(f)
    /\ f[Len(f) - 2] = Number(k) /\ HeadAt(f, Len(f) - (8 + k), k)

LEMMA LastMagic ==
  ASSUME NEW f \in Seq(Cells), Len(f) >= 3
  PROVE  (Sub(f, Len(f) - Len(Magic), Len(Magic)) = Magic) <=> Marked(f)
<1> DEFINE from == Len(f) - 2
           s == Sub(f, from, 2)
<1>1. from \in Nat /\ from + 2 = Len(f) /\ Len(Magic) = 2 /\ Magic \in Seq(Cells)
  BY TrailerKinds
<1>2. Copies(s, f, from, 2)
  <2> HIDE DEF from
  <2> QED BY <1>1, SubCells
<1>3. from + 1 = Len(f) - 1 /\ from + 2 = Len(f)
  BY <1>1
<1> HIDE DEF s
<1>4. s[1] = f[Len(f) - 1] /\ s[2] = f[Len(f)]
  <2>1. s[1] = f[from + 1] /\ s[2] = f[from + 2]
    BY <1>2 DEF Copies
  <2> QED BY <1>3, <2>1
<1>5. s[1] = Magic[1] /\ s[2] = Magic[2] => s = Magic
  BY <1>1, <1>2, EqualCells DEF Copies
<1>6. (s = Magic) <=> Marked(f)
  BY <1>4, <1>5 DEF Marked
<1> QED
  BY <1>1, <1>6 DEF s, from

LEMMA HeadThere ==
  ASSUME NEW f \in Seq(Cells), NEW start \in Nat, NEW k \in Nat, start + 5 <= Len(f)
  PROVE  (Sub(f, start, HeadSize) = Magic \o <<Number(1), Number(start), Number(k)>>) <=> HeadAt(f, start, k)
<1> DEFINE s == Sub(f, start, 5)
           a == Magic \o <<Number(1), Number(start), Number(k)>>
<1>1. /\ a \in Seq(Cells) /\ Len(a) = 5 /\ a[1] = Magic[1] /\ a[2] = Magic[2]
      /\ a[3] = Number(1) /\ a[4] = Number(start) /\ a[5] = Number(k)
  BY HeadCells
<1>2. Copies(s, f, start, 5)
  BY SubCells
<1> HIDE DEF s, a
<1>3. (s = a) <=> \A i \in 1..5 : s[i] = a[i]
  BY <1>1, <1>2, EqualCells DEF Copies
<1>4. s[1] = f[start + 1] /\ s[2] = f[start + 2] /\ s[3] = f[start + 3] /\ s[4] = f[start + 4] /\ s[5] = f[start + 5]
  BY <1>2 DEF Copies
<1>5. (\A i \in 1..5 : s[i] = a[i]) <=> s[1] = a[1] /\ s[2] = a[2] /\ s[3] = a[3] /\ s[4] = a[4] /\ s[5] = a[5]
  OBVIOUS
<1>6. (s = a) <=> HeadAt(f, start, k)
  BY <1>1, <1>3, <1>4, <1>5 DEF HeadAt
<1> QED
  BY <1>6, TrailerKinds DEF s, a

LEMMA ParseNone ==
  ASSUME NEW f \in Seq(Cells)
  PROVE  (Parse(f).status = "None") <=> ~Marked(f)
<1>1. CASE Len(f) < 3
  BY <1>1, TrailerKinds DEF Parse, Failed, Marked
<1>2. CASE Len(f) >= 3
  BY <1>2, LastMagic, TrailerKinds DEF Parse, Failed
<1> QED
  BY <1>1, <1>2

LEMMA ParseFramed ==
  ASSUME NEW f \in Seq(Cells), Marked(f), NEW k \in Nat, Enclosed(f, k)
  PROVE  Parse(f) = [status |-> "Found", archive |-> Len(f) - (8 + k), proof |-> Sub(f, Len(f) - (8 + k) + 5, k)]
<1> DEFINE last == f[Len(f) - TailSize + 1]
           start == Len(f) - (HeadSize + TailSize + last[2])
<1>1. k \in Nat /\ k <= MAX_PROOF /\ k + 8 <= Len(f) /\ HeadAt(f, Len(f) - (8 + k), k) /\ Len(f) \in Nat
  BY DEF Enclosed
<1>2. last = Number(k) /\ last[1] = "number" /\ last[2] = k
  BY <1>1, TrailerKinds DEF Enclosed
<1> HIDE DEF last
<1>3. start = Len(f) - (8 + k) /\ start \in Nat /\ start + 5 <= Len(f)
  BY <1>1, <1>2, TrailerKinds
<1>4. Sub(f, start, HeadSize) = Magic \o <<Number(1), Number(start), Number(last[2])>>
  <2> HIDE DEF start
  <2> QED BY <1>1, <1>2, <1>3, HeadThere
<1>5. ~(Len(f) < TailSize \/ Sub(f, Len(f) - Len(Magic), Len(Magic)) # Magic)
  BY LastMagic, TrailerKinds DEF Marked
<1>6. Parse(f) = [status |-> "Found", archive |-> start, proof |-> Sub(f, start + HeadSize, last[2])]
  <2>1. ~(last[1] # "number" \/ last[2] > MAX_PROOF \/ start < 0)
    <3> HIDE DEF start
    <3> QED BY <1>1, <1>2, <1>3, TimestampsAssumption DEF TimestampsAssumption
  <2> QED
    BY <1>4, <1>5, <2>1, Zenon DEF Parse, last, start
<1> QED
  BY <1>2, <1>3, <1>6, TrailerKinds

LEMMA ParseFound ==
  ASSUME TimestampsAssumption, NEW f \in Seq(Cells), Parse(f).status = "Found"
  PROVE  Marked(f) /\ \E k \in Nat : Enclosed(f, k)
<1>1. Marked(f)
  BY ParseNone
<1> DEFINE last == f[Len(f) - TailSize + 1]
           start == Len(f) - (HeadSize + TailSize + last[2])
<1>2. ~(last[1] # "number" \/ last[2] > MAX_PROOF \/ start < 0)
      /\ Sub(f, start, HeadSize) = Magic \o <<Number(1), Number(start), Number(last[2])>>
  BY Zenon DEF Parse, Failed, last, start
<1>3. last = f[Len(f) - 2] /\ Len(f) - 2 \in 1..Len(f) /\ Len(f) \in Nat
  BY <1>1, TrailerKinds DEF Marked
<1>4. last \in Cells
  <2> HIDE DEF last
  <2> QED BY <1>3
<1> HIDE DEF last
<1>5. PICK k \in Nat : last = Number(k)
  BY <1>2, <1>4, NumberCell
<1>6. last[2] = k
  BY <1>5, TrailerKinds
<1>7. start = Len(f) - (8 + k) /\ k <= MAX_PROOF /\ start \in Nat /\ start + 5 <= Len(f) /\ k + 8 <= Len(f)
  BY <1>2, <1>3, <1>6, TrailerKinds, TimestampsAssumption DEF TimestampsAssumption
<1>8. HeadAt(f, start, k)
  <2> HIDE DEF start
  <2> QED BY <1>2, <1>6, <1>7, HeadThere
<1>9. Enclosed(f, k)
  BY <1>3, <1>5, <1>7, <1>8 DEF Enclosed
<1> QED
  BY <1>1, <1>9

LEMMA ParseKinds == \A f : Parse(f).status \in {"None", "Malformed", "Found"}
  BY DEF Parse, Failed

\* Where a trailer has a number, or a part of a magic.
LEMMA PartsAt ==
  ASSUME TimestampsAssumption, NEW p \in Proofs, NEW j \in 1..Len(p) + 8
  PROVE  LET c == Build(Len(Archive), p)[j]
         IN  /\ c[1] = "number" => j \in {3, 4, 5, Len(p) + 6}
             /\ c = Magic[2] => j \in {2, Len(p) + 8}
<1> DEFINE t == Build(Len(Archive), p)
           m == Len(p)
<1>1. p \in Seq(Cells) /\ Len(Archive) \in Nat /\ m \in Nat /\ \A i \in 1..m : p[i][1] \notin {"magic", "number"}
  BY PlainCells
<1>2. /\ t[1] = Magic[1] /\ t[2] = Magic[2] /\ t[3] = Number(1) /\ t[4] = Number(Len(Archive)) /\ t[5] = Number(m)
      /\ \A i \in 1..m : t[5 + i] = p[i]
      /\ t[m + 6] = Number(m) /\ t[m + 7] = Magic[1] /\ t[m + 8] = Magic[2]
  BY <1>1, BuildCells
<1> HIDE DEF t, m
<1>3. j \in {1, 2, 3, 4, 5, m + 6, m + 7, m + 8} \/ j - 5 \in 1..m
  BY <1>1 DEF m
<1>4. CASE j - 5 \in 1..m
  <2>1. t[5 + (j - 5)] = p[j - 5] /\ p[j - 5][1] \notin {"magic", "number"}
    BY <1>1, <1>2, <1>4
  <2>2. 5 + (j - 5) = j
    OBVIOUS
  <2>3. t[j][1] \notin {"magic", "number"}
    BY <2>1, <2>2
  <2>4. t[j][1] # "number" /\ t[j] # Magic[2]
    BY <2>3, TrailerKinds
  <2> QED
    BY <2>4 DEF t, m
<1>5. CASE j \in {1, 2, 3, 4, 5, m + 6, m + 7, m + 8}
  <2>1. t[1][1] = "magic" /\ t[1] # Magic[2]
    BY <1>2, TrailerKinds
  <2>2. t[2][1] = "magic" /\ t[m + 8][1] = "magic"
    BY <1>2, TrailerKinds
  <2>3. t[3] # Magic[2] /\ t[4] # Magic[2] /\ t[5] # Magic[2] /\ t[m + 6] # Magic[2]
    BY <1>1, <1>2, TrailerKinds
  <2>4. t[m + 7][1] = "magic" /\ t[m + 7] # Magic[2]
    BY <1>2, TrailerKinds
  <2>5. "magic" # "number"
    OBVIOUS
  <2> QED
    BY <1>5, <2>1, <2>2, <2>3, <2>4, <2>5 DEF t, m
<1> QED
  BY <1>3, <1>4, <1>5

\* The trailer of a proof of the archive has everything at its place.
LEMMA ValidPlaces ==
  ASSUME TimestampsAssumption, NEW p, Valid(p), NEW i \in 1..Len(p) + 8
  PROVE  AtPlace(Build(Len(Archive), p)[i], i, Len(p))
<1> DEFINE t == Build(Len(Archive), p)
           m == Len(p)
<1>1. p \in Seq(Cells) /\ Len(Archive) \in Nat /\ m \in Nat /\ m >= 3
  BY PlainCells, TimestampsAssumption DEF Valid, TimestampsAssumption
<1>2. p[1][1] = "ots" /\ p[2] = <<"hash", "sha256">> /\ p[3] = SHA256(Archive)
  <2>1. ParseFile(p).status = "Ok" /\ ParseFile(p).op = "sha256" /\ ParseFile(p).leaf = SHA256(Archive)
    BY DEF Valid
  <2>2. /\ p[1][1] = "ots" /\ p[2] \in {<<"hash", "sha256">>, <<"hash", "sha1">>}
        /\ ParseFile(p) = [status |-> "Ok", op |-> p[2][2], leaf |-> p[3], body |-> SubSeq(p, 4, Len(p))]
    BY <2>1 DEF ParseFile, Failed
  <2>3. p[2][2] = "sha256" /\ p[3] = SHA256(Archive)
    BY <2>1, <2>2
  <2>4. p[2] # <<"hash", "sha1">>
    BY <2>3
  <2> QED
    BY <2>2, <2>3, <2>4
<1>3. /\ t[1] = Magic[1] /\ t[2] = Magic[2] /\ t[3] = Number(1) /\ t[4] = Number(Len(Archive)) /\ t[5] = Number(m)
      /\ \A k \in 1..m : t[5 + k] = p[k]
      /\ t[m + 6] = Number(m) /\ t[m + 7] = Magic[1] /\ t[m + 8] = Magic[2]
  BY <1>1, BuildCells
<1> HIDE DEF t, m
<1>4. t[6] = p[1] /\ t[7] = p[2] /\ t[8] = p[3]
  <2>1. t[5 + 1] = p[1] /\ t[5 + 2] = p[2] /\ t[5 + 3] = p[3]
    BY <1>1, <1>3
  <2> QED BY <2>1
<1>p. i \in 6..m + 5 => t[i][1] \notin {"magic", "number"}
  <2>1. SUFFICES ASSUME i \in 6..m + 5 PROVE t[i][1] \notin {"magic", "number"}
    OBVIOUS
  <2>2. i - 5 \in 1..Len(p) /\ i - 5 \in 1..m /\ 5 + (i - 5) = i
    BY <1>1, <2>1 DEF m
  <2>3. p[i - 5][1] \notin {"magic", "number"}
    BY <2>2, PlainCells DEF Valid
  <2> QED BY <1>3, <2>2, <2>3
<1>5. AtPlace(t[i], i, m)
  BY <1>1, <1>2, <1>3, <1>4, <1>p DEF AtPlace
<1> QED
  BY <1>5 DEF t, m

\* A whole trailer is found behind the archive.
LEMMA WholeParses ==
  ASSUME TimestampsAssumption, NEW f, Behind(f), NEW n \in 3..MAX_PROOF, Trailing(f, 0, n)
  PROVE  /\ Marked(f) /\ Enclosed(f, n) /\ Len(f) = Len(Archive) + (8 + n)
         /\ Parse(f) = [status |-> "Found", archive |-> Len(Archive), proof |-> Sub(f, Len(Archive) + 5, n)]
<1> DEFINE l == Len(Archive)
<1>1. l \in Nat /\ n \in Nat /\ n >= 3 /\ f \in Seq(Cells) /\ Len(f) = l + n + 8
  BY PlainCells, TimestampsAssumption DEF Behind, Trailing, TimestampsAssumption
<1>2. \A i \in 1..n + 8 : AtPlace(f[l + i], i, n)
  BY <1>1 DEF Trailing
<1>n. n <= MAX_PROOF
  BY TimestampsAssumption DEF TimestampsAssumption
<1> HIDE DEF l
<1>3. /\ f[l + 1] = Magic[1] /\ f[l + 2] = Magic[2] /\ f[l + 3] = Number(1)
      /\ f[l + 4] = Number(Len(Archive)) /\ f[l + 5] = Number(n)
      /\ f[l + (n + 6)] = Number(n) /\ f[l + (n + 7)] = Magic[1] /\ f[l + (n + 8)] = Magic[2]
  <2>1. 1 \in 1..n + 8 /\ 2 \in 1..n + 8 /\ 3 \in 1..n + 8 /\ 4 \in 1..n + 8 /\ 5 \in 1..n + 8
        /\ n + 6 \in 1..n + 8 /\ n + 7 \in 1..n + 8 /\ n + 8 \in 1..n + 8
    BY <1>1
  <2>2. AtPlace(f[l + 1], 1, n) /\ AtPlace(f[l + 2], 2, n) /\ AtPlace(f[l + 3], 3, n) /\ AtPlace(f[l + 4], 4, n)
        /\ AtPlace(f[l + 5], 5, n) /\ AtPlace(f[l + (n + 6)], n + 6, n) /\ AtPlace(f[l + (n + 7)], n + 7, n)
        /\ AtPlace(f[l + (n + 8)], n + 8, n)
    BY <1>2, <2>1
  <2> QED
    BY <2>2 DEF AtPlace
<1>4. l + (n + 6) = Len(f) - 2 /\ l + (n + 7) = Len(f) - 1 /\ l + (n + 8) = Len(f) /\ Len(f) - (8 + n) = l /\ Len(f) >= 3
      /\ n + 8 <= Len(f)
  BY <1>1
<1>5. Marked(f)
  BY <1>3, <1>4 DEF Marked
<1>6. Enclosed(f, n)
  BY <1>1, <1>n, <1>3, <1>4 DEF Enclosed, HeadAt, l
<1>7. Parse(f) = [status |-> "Found", archive |-> Len(f) - (8 + n), proof |-> Sub(f, Len(f) - (8 + n) + 5, n)]
  BY <1>1, <1>5, <1>6, ParseFramed
<1>8. Parse(f) = [status |-> "Found", archive |-> l, proof |-> Sub(f, l + 5, n)]
  BY <1>4, <1>7
<1>9. Len(f) = l + (8 + n)
  BY <1>1
<1> QED
  BY <1>5, <1>6, <1>8, <1>9 DEF l

LEMMA BehindIs ==
  ASSUME TimestampsAssumption, NEW f, Behind(f), NEW r \in Seq(Cells),
         Len(f) = Len(Archive) + Len(r), \A i \in 1..Len(r) : f[Len(Archive) + i] = r[i]
  PROVE  f = Archive \o r
<1>1. f \in Seq(Cells) /\ Archive \in Seq(Cells) /\ \A i \in 1..Len(Archive) : f[i] = Archive[i]
  BY PlainCells DEF Behind
<1> DEFINE g == Archive \o r
<1>2. g \in Seq(Cells) /\ Joins(g, Archive, r)
  BY <1>1, Joined
<1> HIDE DEF g
<1>3. Len(f) = Len(g) /\ Len(Archive) \in Nat /\ Len(r) \in Nat
  BY <1>1, <1>2 DEF Joins
<1>4. ASSUME NEW i \in 1..Len(f) PROVE f[i] = g[i]
  <2>1. CASE i \in 1..Len(Archive)
    BY <1>1, <1>2, <2>1 DEF Joins
  <2>2. CASE i - Len(Archive) \in 1..Len(r)
    <3> DEFINE k == i - Len(Archive)
    <3>1. Len(Archive) + k = i
      BY <1>3
    <3>2. k \in 1..Len(r)
      BY <2>2
    <3> HIDE DEF k
    <3>3. f[Len(Archive) + k] = r[k] /\ g[Len(Archive) + k] = r[k]
      BY <1>2, <3>2 DEF Joins
    <3> QED
      BY <3>1, <3>3
  <2>3. i \in 1..Len(Archive) \/ i - Len(Archive) \in 1..Len(r)
    BY <1>3
  <2> QED
    BY <2>1, <2>2, <2>3
<1>5. f = g
  BY <1>1, <1>2, <1>3, <1>4, EqualCells
<1> QED
  BY <1>5 DEF g

LEMMA ArchiveBefore ==
  ASSUME TimestampsAssumption, NEW f, Behind(f)
  PROVE  /\ SubSeq(f, 1, Len(Archive)) = Archive
         /\ Len(f) = Len(Archive) => f = Archive
         /\ SubSeq(f, 1, Len(f)) = f
<1>1. f \in Seq(Cells) /\ Archive \in Seq(Cells) /\ Len(Archive) <= Len(f) /\ \A i \in 1..Len(Archive) : f[i] = Archive[i]
  BY PlainCells DEF Behind
<1>2. Len(f) = Len(Archive) => f = Archive
  BY <1>1, EqualCells
<1>3. Copies(Sub(f, 0, Len(Archive)), f, 0, Len(Archive)) /\ Copies(Sub(f, 0, Len(f)), f, 0, Len(f))
  BY <1>1, SubCells
<1>4. Sub(f, 0, Len(Archive)) = SubSeq(f, 1, Len(Archive)) /\ Sub(f, 0, Len(f)) = SubSeq(f, 1, Len(f))
  BY <1>1 DEF Sub
<1> DEFINE s == Sub(f, 0, Len(Archive))
           u == Sub(f, 0, Len(f))
<1>5. s \in Seq(Cells) /\ Len(s) = Len(Archive) /\ \A i \in 1..Len(Archive) : s[i] = f[0 + i]
  BY <1>3 DEF Copies
<1>6. u \in Seq(Cells) /\ Len(u) = Len(f) /\ \A i \in 1..Len(f) : u[i] = f[0 + i]
  BY <1>3 DEF Copies
<1> HIDE DEF s, u
<1>7. s = Archive
  BY <1>1, <1>5, EqualCells
<1>8. u = f
  BY <1>1, <1>6, EqualCells
<1> QED
  BY <1>2, <1>4, <1>7, <1>8 DEF s, u

(* Stopped anywhere: the archive is as it was, or a whole trailer is       *)
(* behind it, or what is behind it is no trailer and stays refused.        *)
LEMMA CutShort ==
  ASSUME TimestampsAssumption, NEW f, Behind(f), NEW p, Valid(p), NEW w, Over(f, p, w), Len(f) = Len(Archive) + w
  PROVE  f = Archive \/ Whole(f) \/ Broken(f)
<1> DEFINE l == Len(Archive)
           m == Len(p)
           t == Build(l, p)
<1>1. /\ l \in Nat /\ m \in 3..MAX_PROOF /\ m \in Nat /\ p \in Proofs /\ p \in Seq(Cells) /\ f \in Seq(Cells)
      /\ w \in 0..m + 8 /\ Len(f) = l + w /\ \A i \in 1..w : f[l + i] = t[i]
  BY PlainCells, TimestampsAssumption DEF Valid, Over, Behind, TimestampsAssumption
<1>2. CASE w = 0
  BY <1>1, <1>2, ArchiveBefore
<1>3. CASE w = m + 8
  <2>1. ASSUME NEW i \in 1..m + 8 PROVE AtPlace(f[l + i], i, m)
    <3>1. f[l + i] = t[i]
      BY <1>1, <1>3
    <3>2. AtPlace(t[i], i, m)
      BY ValidPlaces
    <3> QED BY <3>1, <3>2
  <2>2. Trailing(f, 0, m)
    BY <1>1, <1>3, <2>1 DEF Trailing
  <2> QED
    BY <1>1, <2>2 DEF Whole
<1>4. CASE w \in 1..m + 7
  <2>1. Len(f) > Len(Archive)
    BY <1>1, <1>4
  <2>2. Parse(f).status # "Found"
    <3>1. SUFFICES ASSUME Parse(f).status = "Found" PROVE FALSE
      OBVIOUS
    <3>2. Marked(f) /\ \E k \in Nat : Enclosed(f, k)
      BY <1>1, <3>1, ParseFound
    <3>3. f[l + w] = Magic[2] /\ f[l + w] = t[w]
      BY <1>1, <1>4, <3>2 DEF Marked
    <3>4. w = 2
      <4>1. w \in {2, m + 8}
        BY <1>1, <1>4, <3>3, PartsAt
      <4> QED BY <1>1, <1>4, <4>1
    <3>5. PICK k \in Nat : Enclosed(f, k)
      BY <3>2
    <3>6. f[l] = Number(k) /\ l >= 1
      BY <1>1, <3>4, <3>5 DEF Enclosed
    <3>7. f[l] = Archive[l] /\ Archive[l][1] \notin {"magic", "number"}
      BY <1>1, <3>6, PlainCells DEF Behind
    <3> QED
      BY <3>6, <3>7, TrailerKinds
  <2> QED
    BY <2>1, <2>2 DEF Broken
<1> QED
  BY <1>1, <1>2, <1>3, <1>4

LEMMA CutWithin ==
  ASSUME TimestampsAssumption, NEW f, Behind(f), NEW p, Valid(p), NEW w, Over(f, p, w),
         NEW n \in 3..MAX_PROOF, w < n + 8, Trailing(f, w, n)
  PROVE  Whole(f) \/ Broken(f)
<1> DEFINE l == Len(Archive)
           m == Len(p)
           t == Build(l, p)
<1>1. /\ l \in Nat /\ m \in 3..MAX_PROOF /\ m \in Nat /\ n \in Nat /\ p \in Proofs /\ p \in Seq(Cells) /\ f \in Seq(Cells)
      /\ w \in 0..m + 8 /\ Len(f) = l + n + 8
  BY PlainCells, TimestampsAssumption DEF Valid, Over, Behind, Trailing, TimestampsAssumption
<1>2. (\A i \in 1..w : f[l + i] = t[i]) /\ \A i \in w + 1..n + 8 : AtPlace(f[l + i], i, n)
  BY DEF Over, Trailing
<1>3. \A i \in 1..m + 8 : AtPlace(t[i], i, m)
  BY ValidPlaces
<1> HIDE DEF l, m, t
<1>4. CASE w <= 4 \/ m = n
  <2>1. ASSUME NEW i \in 1..n + 8 PROVE AtPlace(f[l + i], i, n)
    <3>1. CASE i > w
      BY <1>1, <1>2, <3>1
    <3>2. CASE i <= w
      <4>1. f[l + i] = t[i] /\ AtPlace(t[i], i, m)
        BY <1>1, <1>2, <1>3, <3>2
      <4>2. CASE m = n
        BY <4>1, <4>2
      <4>3. CASE w <= 4
        <5>1. i <= 4
          BY <1>1, <3>2, <4>3
        <5> QED
          BY <1>1, <4>1, <5>1 DEF AtPlace
      <4> QED
        BY <1>4, <4>2, <4>3
    <3> QED
      BY <1>1, <3>1, <3>2
  <2>2. Trailing(f, 0, n)
    BY <1>1, <2>1 DEF Trailing, l
  <2> QED
    BY <2>2 DEF Whole
<1>5. CASE w >= 5 /\ m # n
  <2>1. Parse(f).status # "Found"
    <3>1. SUFFICES ASSUME Parse(f).status = "Found" PROVE FALSE
      OBVIOUS
    <3>2. PICK k \in Nat : Enclosed(f, k)
      BY <1>1, <3>1, ParseFound
    <3>3. f[l + (n + 6)] = Number(k) /\ HeadAt(f, Len(f) - (8 + k), k)
      <4>1. Len(f) - 2 = l + (n + 6)
        BY <1>1
      <4> QED BY <3>2, <4>1 DEF Enclosed
    <3>4. CASE w < n + 6
      <4>1. AtPlace(f[l + (n + 6)], n + 6, n)
        BY <1>1, <1>2, <3>4
      <4>2. Number(k) = Number(n)
        BY <3>3, <4>1 DEF AtPlace
      <4>3. k = n
        BY <1>1, <4>2, TrailerKinds
      <4>4. Len(f) - (8 + k) = l
        BY <1>1, <4>3
      <4>5. f[l + 5] = Number(n)
        BY <3>3, <4>3, <4>4 DEF HeadAt
      <4>6. f[l + 5] = t[5] /\ AtPlace(t[5], 5, m)
        BY <1>1, <1>2, <1>3, <1>5
      <4>7. Number(n) = Number(m)
        BY <4>5, <4>6 DEF AtPlace
      <4> QED
        BY <1>1, <1>5, <4>7, TrailerKinds
    <3>5. CASE w >= n + 6
      <4>1. f[l + (n + 6)] = t[n + 6] /\ n + 6 \in 1..m + 8
        <5>1. n + 6 \in 1..w /\ n + 6 \in 1..m + 8
          BY <1>1, <3>5
        <5> QED BY <1>2, <5>1
      <4>2. t[n + 6][1] = "number"
        BY <3>3, <4>1, TrailerKinds
      <4>3. n + 6 \in {3, 4, 5, m + 6}
        BY <1>1, <4>1, <4>2, PartsAt DEF t, m, l
      <4>4. n >= 3
        BY TimestampsAssumption DEF TimestampsAssumption
      <4> QED
        BY <1>1, <1>5, <4>3, <4>4
    <3> QED
      BY <1>1, <3>4, <3>5
  <2>2. Len(f) > Len(Archive)
    BY <1>1 DEF l
  <2> QED
    BY <2>1, <2>2 DEF Broken
<1> QED
  BY <1>1, <1>4, <1>5

LEMMA CutAnywhere ==
  ASSUME TimestampsAssumption, NEW f, Behind(f), NEW p, Valid(p), NEW w, Over(f, p, w)
  PROVE  f = Archive \/ Whole(f) \/ Broken(f)
<1>1. CASE Len(f) = Len(Archive) + w
  BY <1>1, CutShort
<1>2. CASE \E n \in 3..MAX_PROOF : w < n + 8 /\ Trailing(f, w, n)
  BY <1>2, CutWithin
<1> QED
  BY <1>1, <1>2 DEF Over

\* A file that does not end with a magic has no trailer.
LEMMA EndsOtherwise ==
  ASSUME TimestampsAssumption, NEW g, Behind(g), Len(g) > Len(Archive), g[Len(g)] # Magic[2]
  PROVE  Broken(g)
<1>1. g \in Seq(Cells) /\ ~Marked(g)
  BY DEF Behind, Marked
<1>2. Parse(g).status = "None"
  BY <1>1, ParseNone
<1> QED
  BY <1>2 DEF Broken

\* The file that is given its new end: a whole trailer, perhaps with the cells
\* of an older one, or none.
NewEnd(f, e) == [i \in 1..e |-> IF i \in DOMAIN f THEN f[i] ELSE ZeroCell]
LEMMA Resized ==
  ASSUME TimestampsAssumption, NEW f, Behind(f), NEW p, Valid(p), NEW w, Over(f, p, w)
  PROVE  LET g == NewEnd(f, Len(Archive) + Len(p) + 8)
         IN  /\ Behind(g) /\ (Whole(g) \/ Broken(g))
             /\ w = Len(p) + 8 => g = Archive \o Build(Len(Archive), p)
<1> DEFINE l == Len(Archive)
           m == Len(p)
           t == Build(l, p)
           e == l + m + 8
           g == NewEnd(f, e)
<1>1. /\ l \in Nat /\ m \in 3..MAX_PROOF /\ m \in Nat /\ m >= 3 /\ p \in Seq(Cells) /\ f \in Seq(Cells) /\ Len(f) \in Nat
      /\ w \in 0..m + 8 /\ l + w <= Len(f) /\ DOMAIN f = 1..Len(f) /\ e \in Nat
  BY PlainCells, TimestampsAssumption DEF Valid, Over, Behind, TimestampsAssumption
<1>2. (\A i \in 1..w : f[l + i] = t[i]) /\ \A i \in 1..l : f[i] = Archive[i]
  BY DEF Over, Behind
<1>3. (\A i \in 1..m + 8 : AtPlace(t[i], i, m)) /\ t \in Seq(Cells) /\ Len(t) = m + 8
  <2>1. t \in Seq(Cells) /\ Len(t) = m + 8
    BY <1>1, BuildCells
  <2>2. \A i \in 1..m + 8 : AtPlace(t[i], i, m)
    BY ValidPlaces
  <2> QED BY <2>1, <2>2
<1> HIDE DEF t
<1>4. g \in Seq(Cells) /\ Len(g) = e /\ \A i \in 1..e : g[i] = IF i <= Len(f) THEN f[i] ELSE ZeroCell
  <2> HIDE DEF e
  <2>1. ASSUME NEW i \in 1..e PROVE (i \in DOMAIN f => f[i] \in Cells) /\ (i \in DOMAIN f <=> i <= Len(f))
    BY <1>1
  <2>2. ZeroCell \in Cells
    BY TrailerKinds
  <2>3. g \in [1..e -> Cells]
    BY <2>1, <2>2 DEF NewEnd
  <2>4. g \in Seq(Cells) /\ Len(g) = e
    BY <1>1, <2>3
  <2>5. \A i \in 1..e : g[i] = IF i <= Len(f) THEN f[i] ELSE ZeroCell
    BY <2>1 DEF NewEnd
  <2> QED BY <2>4, <2>5
<1> HIDE DEF g
<1>5. Behind(g)
  <2>1. \A i \in 1..l : i \in 1..e /\ i <= Len(f)
    BY <1>1
  <2>2. \A i \in 1..l : g[i] = Archive[i]
    BY <1>2, <1>4, <2>1
  <2>3. l <= Len(g)
    BY <1>1, <1>4
  <2> QED BY <1>4, <2>2, <2>3 DEF Behind, l
<1>6. ASSUME NEW i \in 1..m + 8 PROVE l + i \in 1..e /\ g[l + i] = IF l + i <= Len(f) THEN f[l + i] ELSE ZeroCell
  <2>1. l + i \in 1..e
    BY <1>1
  <2> HIDE DEF e
  <2> QED BY <1>4, <2>1
<1>7. ASSUME NEW i \in 1..w PROVE g[l + i] = t[i]
  <2>1. i \in 1..m + 8 /\ l + i <= Len(f)
    BY <1>1
  <2> QED BY <1>2, <1>6, <2>1
<1>8. Len(g) = l + m + 8 /\ Len(g) > l /\ l + (m + 8) = Len(g)
  BY <1>1, <1>4
<1> HIDE DEF e, l, m
<1>9. ASSUME \A i \in 1..m + 8 : AtPlace(g[l + i], i, m) PROVE Whole(g)
  <2>1. Trailing(g, 0, m)
    BY <1>8, <1>9 DEF Trailing, l
  <2> QED BY <1>1, <2>1 DEF Whole
<1>10. ASSUME g[l + (m + 8)] # Magic[2] PROVE Broken(g)
  BY <1>5, <1>8, <1>10, EndsOtherwise DEF l
<1>11. CASE w = m + 8
  <2>1. Whole(g)
    BY <1>3, <1>7, <1>9, <1>11
  <2>2. Len(g) = Len(Archive) + Len(t) /\ \A i \in 1..Len(t) : g[Len(Archive) + i] = t[i]
    BY <1>1, <1>3, <1>7, <1>8, <1>11 DEF l
  <2>3. g = Archive \o t
    BY <1>3, <1>5, <2>2, BehindIs
  <2> QED
    BY <1>5, <2>1, <2>3 DEF g, e, l, m, t
<1>12. CASE w < m + 8
  <2>1. m + 8 \in 1..m + 8
    BY <1>1
  <2>2. ASSUME Len(f) < l + (m + 8) PROVE Broken(g)
    <3> DEFINE k == m + 8
    <3>0. k \in 1..k /\ ~(l + k <= Len(f))
      BY <1>1, <2>1, <2>2
    <3>1. g[l + (m + 8)] = ZeroCell
      <4>1. \A i \in 1..k : g[l + i] = IF l + i <= Len(f) THEN f[l + i] ELSE ZeroCell
        BY <1>6
      <4> HIDE DEF k
      <4>2. g[l + k] = ZeroCell
        BY <3>0, <4>1
      <4> QED BY <4>2 DEF k
    <3> QED BY <1>10, <3>1, TrailerKinds
  <2>3. ASSUME Len(f) = l + w PROVE Broken(g)
    <3>1. Len(f) < l + (m + 8)
      BY <1>1, <1>12, <2>3
    <3> QED BY <2>2, <3>1
  <2>4. ASSUME NEW n \in 3..MAX_PROOF, w < n + 8, Trailing(f, w, n) PROVE Whole(g) \/ Broken(g)
    <3>1. n \in Nat /\ Len(f) = l + n + 8 /\ \A i \in w + 1..n + 8 : AtPlace(f[l + i], i, n)
      BY <2>4, TimestampsAssumption DEF Trailing, l, TimestampsAssumption
    <3>2. CASE n < m
      BY <1>1, <2>2, <3>1, <3>2
    <3>3. CASE n = m
      <4>1. ASSUME NEW i \in 1..m + 8 PROVE AtPlace(g[l + i], i, m)
        <5>1. CASE i <= w
          BY <1>1, <1>3, <1>7, <5>1
        <5>2. CASE i > w
          <6>1. i \in w + 1..n + 8 /\ l + i <= Len(f)
            BY <1>1, <3>1, <3>3, <5>2
          <6> QED BY <1>6, <3>1, <3>3, <6>1
        <5> QED BY <1>1, <5>1, <5>2
      <4> QED BY <1>9, <4>1
    <3>4. CASE n > m
      <4> DEFINE k == m + 8
                 c == f[l + k]
      <4>1. k \in w + 1..n + 8 /\ l + k <= Len(f) /\ (k \in 6..n + 5 \/ k = n + 6 \/ k = n + 7)
        BY <1>1, <1>12, <3>1, <3>4
      <4>2. g[l + k] = c
        BY <1>6, <2>1, <4>1
      <4>3. AtPlace(c, k, n)
        BY <3>1, <4>1
      <4> HIDE DEF k, c
      <4>4. c # Magic[2]
        BY <3>1, <4>1, <4>3, TrailerKinds DEF AtPlace
      <4> QED BY <1>10, <4>2, <4>4 DEF k
    <3> QED BY <1>1, <3>1, <3>2, <3>3, <3>4
  <2>5. Len(f) = l + w \/ \E n \in 3..MAX_PROOF : w < n + 8 /\ Trailing(f, w, n)
    BY DEF Over, l
  <2>6. Whole(g) \/ Broken(g)
    BY <2>3, <2>4, <2>5
  <2>7. w # m + 8
    BY <1>1, <1>12
  <2> QED
    BY <1>5, <2>6, <2>7 DEF g, e, l, m
<1> QED
  BY <1>1, <1>11, <1>12

(* What a trailer in the file attests, in each of the three cases.         *)
LEMMA PlainUnmarked ==
  ASSUME TimestampsAssumption
  PROVE  Behind(Archive) /\ Parse(Archive).status = "None"
<1>1. Archive \in Seq(Cells) /\ \A i \in 1..Len(Archive) : Archive[i][1] \notin {"magic", "number"}
  BY PlainCells
<1>2. ~Marked(Archive)
  <2>1. SUFFICES ASSUME Marked(Archive) PROVE FALSE
    OBVIOUS
  <2>2. Len(Archive) \in 1..Len(Archive) /\ Archive[Len(Archive)] = Magic[2]
    BY <1>1, <2>1 DEF Marked
  <2> QED
    BY <1>1, <2>2, TrailerKinds
<1> QED
  BY <1>1, <1>2, ParseNone DEF Behind

LEMMA RestAttests ==
  ASSUME TimestampsAssumption, NEW f, Behind(f), f = Archive \/ Whole(f) \/ Broken(f), Parse(f).status = "Found"
  PROVE  Parse(f).archive = Len(Archive) /\ ParseFile(Parse(f).proof).leaf = SHA256(Archive)
<1>1. PICK n \in 3..MAX_PROOF : Trailing(f, 0, n)
  BY PlainUnmarked DEF Broken, Whole
<1> DEFINE q == Sub(f, Len(Archive) + 5, n)
<1>2. Parse(f) = [status |-> "Found", archive |-> Len(Archive), proof |-> q]
  BY <1>1, WholeParses
<1>3. /\ f \in Seq(Cells) /\ Len(Archive) \in Nat /\ n \in Nat /\ n >= 3 /\ Len(f) = Len(Archive) + n + 8
      /\ \A i \in 1..n + 8 : AtPlace(f[Len(Archive) + i], i, n)
  BY <1>1, PlainCells, TimestampsAssumption DEF Behind, Trailing, TimestampsAssumption
<1>4. Copies(q, f, Len(Archive) + 5, n)
  <2> DEFINE from == Len(Archive) + 5
  <2>1. from \in Nat /\ from + n <= Len(f)
    BY <1>3
  <2> HIDE DEF from
  <2>2. Copies(Sub(f, from, n), f, from, n)
    BY <1>3, <2>1, SubCells
  <2> QED
    BY <2>2 DEF from
<1> HIDE DEF q
<1>5. q[1][1] = "ots" /\ q[2] = <<"hash", "sha256">> /\ q[3] = SHA256(Archive) /\ Len(q) >= 3
  <2>1. Len(q) = n /\ \A i \in 1..n : q[i] = f[Len(Archive) + 5 + i]
    BY <1>4 DEF Copies
  <2>2. q[1] = f[Len(Archive) + 5 + 1] /\ q[2] = f[Len(Archive) + 5 + 2] /\ q[3] = f[Len(Archive) + 5 + 3]
    BY <1>3, <2>1
  <2>3. /\ Len(Archive) + 5 + 1 = Len(Archive) + 6 /\ Len(Archive) + 5 + 2 = Len(Archive) + 7
        /\ Len(Archive) + 5 + 3 = Len(Archive) + 8
    BY <1>3
  <2>4. q[1] = f[Len(Archive) + 6] /\ q[2] = f[Len(Archive) + 7] /\ q[3] = f[Len(Archive) + 8]
    BY <2>2, <2>3
  <2>5. 6 \in 1..n + 8 /\ 7 \in 1..n + 8 /\ 8 \in 1..n + 8
    BY <1>3
  <2>6. AtPlace(f[Len(Archive) + 6], 6, n) /\ AtPlace(f[Len(Archive) + 7], 7, n) /\ AtPlace(f[Len(Archive) + 8], 8, n)
    BY <1>3, <2>5
  <2> QED
    BY <1>3, <2>1, <2>4, <2>6 DEF AtPlace
<1>6. ParseFile(q).leaf = q[3]
  BY <1>5 DEF ParseFile
<1> QED
  BY <1>2, <1>5, <1>6

\* The trailer that was written is found with its proof.
LEMMA AttachedFound ==
  ASSUME TimestampsAssumption, NEW p, Valid(p), NEW f, Behind(f), f = Archive \o Build(Len(Archive), p)
  PROVE  /\ Parse(f) = [status |-> "Found", archive |-> Len(Archive), proof |-> p]
         /\ Whole(f)
<1> DEFINE l == Len(Archive)
           m == Len(p)
           t == Build(l, p)
<1>1. /\ l \in Nat /\ m \in 3..MAX_PROOF /\ m \in Nat /\ p \in Seq(Cells) /\ f \in Seq(Cells)
      /\ t \in Seq(Cells) /\ Len(t) = m + 8 /\ \A i \in 1..m : t[5 + i] = p[i]
  <2>1. l \in Nat /\ m \in 3..MAX_PROOF /\ m \in Nat /\ p \in Seq(Cells) /\ f \in Seq(Cells)
    BY PlainCells, TimestampsAssumption DEF Valid, Behind, TimestampsAssumption
  <2>2. t \in Seq(Cells) /\ Len(t) = m + 8 /\ \A i \in 1..m : t[5 + i] = p[i]
    BY <2>1, BuildCells
  <2> QED BY <2>1, <2>2
<1>2. Joins(f, Archive, t)
  BY <1>1, PlainCells, Joined
<1>3. \A i \in 1..m + 8 : AtPlace(t[i], i, m)
  BY ValidPlaces
<1> HIDE DEF t, l, m
<1>4. Len(f) = l + (m + 8) /\ \A i \in 1..m + 8 : f[l + i] = t[i]
  BY <1>1, <1>2 DEF Joins, l
<1>5. Trailing(f, 0, m)
  <2>1. \A i \in 1..m + 8 : AtPlace(f[l + i], i, m)
    BY <1>3, <1>4
  <2>2. Len(f) = l + m + 8 /\ 0 + 1 = 1
    BY <1>1, <1>4
  <2> QED
    BY <2>1, <2>2 DEF Trailing, l
<1> DEFINE from == l + 5
           q == Sub(f, from, m)
<1>6. Parse(f) = [status |-> "Found", archive |-> l, proof |-> q]
  BY <1>1, <1>5, WholeParses DEF l
<1>7. from \in Nat /\ from + m <= Len(f)
  BY <1>1, <1>4
<1>8. \A i \in 1..m : f[from + i] = p[i]
  <2>1. ASSUME NEW i \in 1..m PROVE f[from + i] = p[i]
    <3>1. from + i = l + (5 + i) /\ 5 + i \in 1..m + 8
      BY <1>1
    <3>2. f[l + (5 + i)] = t[5 + i] /\ t[5 + i] = p[i]
      BY <1>1, <1>4, <3>1
    <3> QED BY <3>1, <3>2
  <2> QED BY <2>1
<1> HIDE DEF from
<1>9. q = p
  <2>1. Copies(q, f, from, m)
    BY <1>1, <1>7, SubCells
  <2> HIDE DEF q
  <2>2. q \in Seq(Cells) /\ Len(q) = Len(p) /\ \A i \in 1..Len(q) : q[i] = p[i]
    BY <1>8, <2>1 DEF Copies, m
  <2> QED
    BY <1>1, <2>2, EqualCells
<1> QED
  BY <1>1, <1>5, <1>6, <1>9 DEF l, Whole

\* One more cell of a trailer is written, over what is there or behind it.
LEMMA OneMore ==
  ASSUME TimestampsAssumption, NEW f, Behind(f), NEW p, Valid(p), NEW w, Over(f, p, w), w < Len(p) + 8
  PROVE  LET g == Overwritten(f, Len(Archive) + w, Build(Len(Archive), p)[w + 1])
         IN  Behind(g) /\ Over(g, p, w + 1)
<1> DEFINE l == Len(Archive)
           m == Len(p)
           t == Build(l, p)
           c == t[w + 1]
           g == Overwritten(f, l + w, c)
<1>1. /\ l \in Nat /\ m \in Nat /\ f \in Seq(Cells) /\ Len(f) \in Nat /\ w \in 0..m + 8 /\ w < m + 8 /\ l + w <= Len(f)
      /\ \A i \in 1..l : f[i] = Archive[i]
  BY PlainCells DEF Valid, Over, Behind
<1>2. c \in Cells
  <2>1. t \in Seq(Cells) /\ Len(t) = m + 8
    <3>1. p \in Seq(Cells) /\ Len(Archive) \in Nat
      BY PlainCells DEF Valid
    <3> QED BY <3>1, BuildCells
  <2> HIDE DEF t
  <2> QED BY <1>1, <2>1
<1>3. \A i \in 1..w : f[l + i] = t[i]
  BY DEF Over
<1> HIDE DEF c
<1>4. CASE l + w < Len(f)
  <2>1. g = [f EXCEPT ![l + w + 1] = c]
    BY <1>4 DEF Overwritten
  <2> HIDE DEF g, l, m, t
  <2>2. /\ g \in Seq(Cells) /\ Len(g) = Len(f) /\ g[l + w + 1] = c
        /\ \A i \in 1..Len(f) : i # l + w + 1 => g[i] = f[i]
    <3>1. l + w + 1 \in 1..Len(f)
      BY <1>1, <1>4
    <3> DEFINE k == l + w + 1
    <3> HIDE DEF k
    <3>2. /\ [f EXCEPT ![k] = c] \in Seq(Cells) /\ Len([f EXCEPT ![k] = c]) = Len(f) /\ [f EXCEPT ![k] = c][k] = c
          /\ \A i \in 1..Len(f) : i # k => [f EXCEPT ![k] = c][i] = f[i]
      BY <1>1, <1>2, <3>1 DEF k
    <3> QED
      BY <2>1, <3>2 DEF k
  <2>3. PICK n \in 3..MAX_PROOF : w < n + 8 /\ Trailing(f, w, n)
    BY <1>1, <1>4 DEF Over, l
  <2>4. n \in Nat /\ Len(f) = l + n + 8 /\ \A i \in w + 1..n + 8 : AtPlace(f[l + i], i, n)
    BY <2>3, TimestampsAssumption DEF Trailing, l, TimestampsAssumption
  <2>5. \A i \in 1..l : g[i] = Archive[i]
    <3>1. ASSUME NEW i \in 1..l PROVE g[i] = Archive[i]
      <4>1. i \in 1..Len(f) /\ i # l + w + 1
        BY <1>1
      <4> QED BY <1>1, <2>2, <4>1
    <3> QED BY <3>1
  <2>6. \A i \in 1..w + 1 : g[l + i] = t[i]
    <3>1. ASSUME NEW i \in 1..w + 1 PROVE g[l + i] = t[i]
      <4>1. CASE i = w + 1
        <5>1. l + i = l + w + 1
          BY <1>1, <4>1
        <5> QED BY <2>2, <4>1, <5>1 DEF c
      <4>2. CASE i \in 1..w
        <5>1. l + i \in 1..Len(f) /\ l + i # l + w + 1
          BY <1>1, <1>4, <4>2
        <5> QED BY <1>3, <2>2, <4>2, <5>1
      <4> QED
        BY <1>1, <4>1, <4>2
    <3> QED BY <3>1
  <2>7. CASE w + 1 = n + 8
    <3>1. w + 1 \in 0..m + 8 /\ l + (w + 1) <= Len(g) /\ Len(g) = l + (w + 1) /\ l <= Len(g)
      <4>1. n \in Nat /\ Len(f) = l + n + 8 /\ Len(g) = Len(f) /\ w + 1 = n + 8
        BY <2>2, <2>4, <2>7
      <4>2. l \in Nat /\ m \in Nat /\ w \in 0..m + 8 /\ w < m + 8
        BY <1>1
      <4> QED BY <4>1, <4>2
    <3> QED
      <4>1. Behind(g)
        BY <2>2, <2>5, <3>1 DEF Behind, l
      <4>2. Over(g, p, w + 1)
        BY <2>6, <3>1 DEF Over, l, m, t
      <4> QED BY <4>1, <4>2 DEF g, l, t, c
  <2>8. CASE w + 1 < n + 8
    <3>1. w + 1 \in 0..m + 8 /\ l + (w + 1) <= Len(g) /\ Len(g) = l + n + 8 /\ l <= Len(g)
      <4>1. n \in Nat /\ Len(f) = l + n + 8 /\ Len(g) = Len(f) /\ w + 1 < n + 8
        BY <2>2, <2>4, <2>8
      <4>2. l \in Nat /\ m \in Nat /\ w \in 0..m + 8 /\ w < m + 8
        BY <1>1
      <4> QED BY <4>1, <4>2
    <3>2. ASSUME NEW i \in w + 1 + 1..n + 8 PROVE AtPlace(g[l + i], i, n)
      <4>1. l + i \in 1..Len(f) /\ l + i # l + w + 1 /\ i \in w + 1..n + 8
        BY <1>1, <2>4
      <4>2. g[l + i] = f[l + i]
        BY <2>2, <4>1
      <4> QED
        BY <2>4, <4>1, <4>2
    <3>3. Trailing(g, w + 1, n)
      BY <3>1, <3>2 DEF Trailing, l
    <3> QED
      <4>1. Behind(g)
        BY <2>2, <2>5, <3>1 DEF Behind, l
      <4>2. Over(g, p, w + 1)
        BY <2>6, <2>8, <3>1, <3>3 DEF Over, l, m, t
      <4> QED BY <4>1, <4>2 DEF g, l, t, c
  <2> QED
    BY <1>1, <2>3, <2>4, <2>7, <2>8
<1>5. CASE l + w = Len(f)
  <2>1. g = Append(f, c)
    BY <1>1, <1>5 DEF Overwritten
  <2> HIDE DEF g, l, m, t
  <2>2. /\ g \in Seq(Cells) /\ Len(g) = Len(f) + 1 /\ g[Len(f) + 1] = c
        /\ \A i \in 1..Len(f) : g[i] = f[i]
    BY <1>1, <1>2, <2>1
  <2>3. \A i \in 1..l : g[i] = Archive[i]
    BY <1>1, <1>5, <2>2
  <2>4. \A i \in 1..w + 1 : g[l + i] = t[i]
    <3>1. ASSUME NEW i \in 1..w + 1 PROVE g[l + i] = t[i]
      <4>1. CASE i = w + 1
        <5>1. l + i = Len(f) + 1
          BY <1>1, <1>5, <4>1
        <5> QED BY <2>2, <4>1, <5>1 DEF c
      <4>2. CASE i \in 1..w
        <5>1. l + i \in 1..Len(f)
          BY <1>1, <1>5, <4>2
        <5> QED BY <1>3, <2>2, <4>2, <5>1
      <4> QED
        BY <1>1, <4>1, <4>2
    <3> QED BY <3>1
  <2>5. w + 1 \in 0..m + 8 /\ l + (w + 1) <= Len(g) /\ Len(g) = l + (w + 1) /\ l <= Len(g)
    BY <1>1, <1>5, <2>2
  <2> QED
    <3>1. Behind(g)
      BY <2>2, <2>3, <2>5 DEF Behind, l
    <3>2. Over(g, p, w + 1)
      BY <2>4, <2>5 DEF Over, l, m, t
    <3> QED BY <3>1, <3>2 DEF g, l, t, c
<1> QED
  BY <1>1, <1>4, <1>5

LEMMA TimestampsStart == ASSUME TimestampsAssumption PROVE TimestampsInit => StampInv
  BY PlainUnmarked DEF TimestampsInit, StampInv, Attaching, Stands

LEMMA AttachStays ==
  ASSUME TimestampsAssumption, StampInv, NEW p \in Proofs, NEW force \in BOOLEAN, Attach(p, force)
  PROVE  StampInv'
<1> DEFINE there == Parse(stamped)
           attest == IF there.status = "Found" THEN there.archive ELSE Len(stamped)
<1>1. Behind(stamped) /\ (stamped = Archive \/ Whole(stamped) \/ Broken(stamped)) /\ ~Attaching /\ stamped' = stamped
  BY DEF StampInv, Attach
<1>2. CASE Refused(p, force, ParseFile(p), there, attest)
  <2>1. Ends("Refused", <<>>, FALSE)
    BY <1>2 DEF Attach
  <2>2. ~Attaching' /\ result'.status # "Attached"
    BY <2>1 DEF Ends, Attaching
  <2> QED
    BY <1>1, <2>2 DEF StampInv, Stands
<1>3. CASE ~Refused(p, force, ParseFile(p), there, attest)
  <2>1. proof' = p /\ attested' = attest /\ written' = 0
    BY <1>3 DEF Attach
  <2>2. /\ ParseFile(p).status = "Ok" /\ ParseFile(p).op = "sha256" /\ there.status # "Malformed"
        /\ ParseFile(p).leaf = SHA256(SubSeq(stamped, 1, attest)) /\ ~(Len(p) > MAX_PROOF)
    <3> HIDE DEF there, attest
    <3> QED BY <1>3 DEF Refused
  <2>3. Len(p) \in 3..MAX_PROOF /\ p # <<>>
    <3>1. p \in Seq(Cells) /\ MAX_PROOF \in Nat
      BY PlainCells, TimestampsAssumption DEF TimestampsAssumption
    <3>2. ~(Len(p) < 3)
      BY <2>2 DEF ParseFile, Failed
    <3>3. Len(p) \in 3..MAX_PROOF
      BY <2>2, <3>1, <3>2
    <3> QED BY <3>1, <3>2, <3>3
  <2>4. attest = Len(Archive) /\ SubSeq(stamped, 1, attest) = Archive
        /\ (Len(stamped) = Len(Archive) \/ \E n \in 3..MAX_PROOF : Trailing(stamped, 0, n))
    <3>1. CASE stamped = Archive
      <4>1. attest = Len(Archive)
        BY <3>1, PlainUnmarked
      <4> HIDE DEF attest
      <4> QED BY <1>1, <3>1, <4>1, ArchiveBefore
    <3>2. CASE Whole(stamped)
      <4>1. PICK n \in 3..MAX_PROOF : Trailing(stamped, 0, n)
        BY <3>2 DEF Whole
      <4>2. attest = Len(Archive)
        BY <1>1, <4>1, WholeParses
      <4> HIDE DEF attest
      <4> QED BY <1>1, <4>1, <4>2, ArchiveBefore
    <3>3. CASE Broken(stamped)
      <4>1. attest = Len(stamped)
        BY <3>3 DEF Broken
      <4>2. SubSeq(stamped, 1, attest) = stamped /\ SubSeq(stamped, 1, Len(Archive)) = Archive
        BY <1>1, <4>1, ArchiveBefore
      <4> HIDE DEF attest
      <4>3. ParseFile(p).leaf = SHA256(stamped)
        BY <2>2, <4>2
      <4>4. ParseFile(p).leaf[1] = "sha256" /\ ParseFile(p).leaf[2] = stamped
        BY <4>3 DEF SHA256
      <4>5. StampsMore(p)
        BY <2>2, <3>3, <4>2, <4>4 DEF StampsMore, Longer, Broken
      <4> QED
        BY <4>5 DEF TimestampsAssumption
    <3> QED
      BY <1>1, <3>1, <3>2, <3>3
  <2> HIDE DEF attest, there
  <2>5. Valid(p)
    BY <2>2, <2>3, <2>4 DEF Valid
  <2>6. Over(stamped, p, 0)
    <3>1. Len(Archive) \in Nat /\ Len(Archive) <= Len(stamped) /\ MAX_PROOF \in Nat
      BY <1>1, PlainCells, TimestampsAssumption DEF Behind, TimestampsAssumption
    <3>2. 0 \in 0..Len(p) + 8 /\ Len(Archive) + 0 <= Len(stamped)
      BY <2>3, <3>1
    <3>3. \A n \in 3..MAX_PROOF : 0 < n + 8
      BY <3>1
    <3>4. Len(stamped) = Len(Archive) + 0 \/ \E n \in 3..MAX_PROOF : 0 < n + 8 /\ Trailing(stamped, 0, n)
      BY <2>4, <3>1, <3>3
    <3> QED
      BY <3>2, <3>4 DEF Over
  <2>7. Attaching'
    BY <2>1, <2>3 DEF Attaching
  <2> QED
    BY <1>1, <2>1, <2>4, <2>5, <2>6, <2>7 DEF StampInv, Stands
<1> QED
  BY <1>2, <1>3

LEMMA WriteStays == ASSUME TimestampsAssumption, StampInv, WriteTrailer PROVE StampInv'
<1>1. /\ Behind(stamped) /\ Attaching /\ Valid(proof) /\ attested = Len(Archive) /\ Over(stamped, proof, written)
      /\ proof' = proof /\ attested' = attested /\ written' = written + 1
  BY DEF StampInv, WriteTrailer
<1>2. Trailer = Build(Len(Archive), proof) /\ Len(Trailer) = Len(proof) + 8
  <2>1. proof \in Seq(Cells) /\ Len(Archive) \in Nat
    BY <1>1, PlainCells DEF Valid
  <2>2. Len(Build(Len(Archive), proof)) = Len(proof) + 8
    BY <2>1, BuildCells
  <2> QED BY <1>1, <2>2 DEF Trailer
<1>3. written < Len(proof) + 8 /\ stamped' = Overwritten(stamped, Len(Archive) + written, Build(Len(Archive), proof)[written + 1])
  BY <1>1, <1>2 DEF WriteTrailer
<1>4. Behind(stamped') /\ Over(stamped', proof, written + 1)
  BY <1>1, <1>3, OneMore
<1>5. Attaching'
  BY <1>1 DEF Attaching
<1> QED
  BY <1>1, <1>4, <1>5 DEF StampInv, Stands

\* What the file becomes that is given its new end.
LEMMA TruncatedIs ==
  ASSUME TimestampsAssumption, StampInv, Attaching
  PROVE  Truncated = NewEnd(stamped, Len(Archive) + Len(proof) + 8) /\ Len(Trailer) = Len(proof) + 8
<1>1. proof \in Seq(Cells) /\ Len(Archive) \in Nat /\ Len(proof) \in Nat /\ attested = Len(Archive)
  BY PlainCells DEF StampInv, Valid
<1>2. Len(Trailer) = Len(proof) + 8
  BY <1>1, BuildCells DEF Trailer
<1>3. attested + Len(Trailer) = Len(Archive) + Len(proof) + 8
  BY <1>1, <1>2
<1> QED
  BY <1>2, <1>3 DEF Truncated, NewEnd

LEMMA CutRestStays == ASSUME TimestampsAssumption, StampInv, CutRest PROVE StampInv'
<1> DEFINE g == NewEnd(stamped, Len(Archive) + Len(proof) + 8)
<1>1. /\ Behind(stamped) /\ Valid(proof) /\ Over(stamped, proof, written) /\ written \in 0..Len(proof) + 8
      /\ stamped' = g /\ Len(Trailer) = Len(proof) + 8
  BY TruncatedIs DEF StampInv, CutRest, Over
<1>2. ~Attaching' /\ result' = [status |-> "Attached", proof |-> proof, lost |-> written < Len(Trailer)]
  BY DEF CutRest, Ends, Attaching
<1>3. Behind(g) /\ (Whole(g) \/ Broken(g)) /\ (written = Len(proof) + 8 => g = Archive \o Build(Len(Archive), proof))
  BY <1>1, Resized
<1> HIDE DEF g
<1>4. Stands' => result'.proof = proof /\ written = Len(proof) + 8
  <2>1. Len(proof) \in Nat
    BY <1>1, PlainCells DEF Valid
  <2>2. Stands' => ~(written < Len(Trailer)) /\ result'.proof = proof
    BY <1>2, Zenon DEF Stands
  <2> QED BY <1>1, <2>1, <2>2
<1> QED
  BY <1>1, <1>2, <1>3, <1>4 DEF StampInv

\* A command that ends without success, with the file as it is or cut already.
LEMMA EndsStays ==
  ASSUME TimestampsAssumption, StampInv, Attaching, NEW status, status # "Attached", Ends(status, <<>>, FALSE),
         stamped' \in {stamped, Truncated}
  PROVE  StampInv'
<1>1. Behind(stamped) /\ Valid(proof) /\ Over(stamped, proof, written)
  BY DEF StampInv
<1>2. ~Attaching' /\ ~Stands'
  BY DEF Ends, Attaching, Stands
<1>3. stamped = Archive \/ Whole(stamped) \/ Broken(stamped)
  BY <1>1, CutAnywhere
<1>4. Behind(Truncated) /\ (Whole(Truncated) \/ Broken(Truncated))
  BY <1>1, TruncatedIs, Resized
<1> QED
  BY <1>1, <1>2, <1>3, <1>4 DEF StampInv

LEMMA TimestampsHold == TimestampsSpec => []StampInv
<1>1. TimestampsInit => StampInv
  BY TimestampsAssumption, TimestampsStart
<1>2. StampInv /\ [TimestampsNext]_timestamps => StampInv'
  <2>1. SUFFICES ASSUME StampInv, [TimestampsNext]_timestamps PROVE StampInv'
    OBVIOUS
  <2>2. CASE \E p \in Proofs, force \in BOOLEAN : Attach(p, force)
    BY <2>1, <2>2, TimestampsAssumption, AttachStays
  <2>3. CASE WriteTrailer
    BY <2>1, <2>3, TimestampsAssumption, WriteStays
  <2>4. CASE CutRest
    BY <2>1, <2>4, TimestampsAssumption, CutRestStays
  <2>5. CASE AttachFails
    BY <2>1, <2>5, TimestampsAssumption, EndsStays DEF AttachFails
  <2>6. CASE Killed
    BY <2>1, <2>6, TimestampsAssumption, EndsStays DEF Killed
  <2>7. CASE UNCHANGED timestamps
    BY <2>1, <2>7 DEF StampInv, Attaching, Stands, timestamps
  <2> QED
    BY <2>1, <2>2, <2>3, <2>4, <2>5, <2>6, <2>7 DEF TimestampsNext
<1> QED
  BY <1>1, <1>2, PTL DEF TimestampsSpec

\* For any archive and any proofs, wherever an attach is killed, fails or loses its
\* writes without noticing, and however often it is repeated or forced: the archive
\* before a trailer is never touched, a trailer that is found attests the whole
\* archive, and the proof of an attach that lost no write is found again complete
\* (cmd_ots_attach(), uc2_ots_trailer_parse()).
THEOREM StampsAttest == TimestampsSpec => []AttestsTrue
<1>1. ASSUME StampInv PROVE AttestsTrue
  <2>1. Behind(stamped)
    BY <1>1 DEF StampInv
  <2>2. ArchiveKept
    BY <2>1, TimestampsAssumption, ArchiveBefore DEF ArchiveKept
  <2>3. ProofFound
    BY <1>1, <2>1, TimestampsAssumption, AttachedFound DEF ProofFound, StampInv, Extracted
  <2>4. stamped = Archive \/ Whole(stamped) \/ Broken(stamped)
    BY <1>1, <2>1, TimestampsAssumption, CutAnywhere DEF StampInv
  <2>5. AttestsArchive
    BY <2>1, <2>4, TimestampsAssumption, RestAttests DEF AttestsArchive
  <2> QED
    BY <2>2, <2>3, <2>5 DEF AttestsTrue
<1> QED
  BY <1>1, TimestampsHold, PTL

------------------------------------------------------------------------------
(* Storage.  Lists of any cells.                                           *)
Listed(s) == \E S : s \in Seq(S)

LEMMA ListOf ==
  ASSUME NEW n \in Nat, NEW s, s = [k \in 1..n |-> s[k]]
  PROVE  Listed(s) /\ Len(s) = n /\ DOMAIN s = 1..n
<1> DEFINE S == {s[k] : k \in 1..n}
<1>1. s \in [1..n -> S]
  OBVIOUS
<1> HIDE DEF S
<1>2. s \in Seq(S) /\ Len(s) = n /\ DOMAIN s = 1..n
  BY <1>1
<1> QED
  BY <1>2 DEF Listed

LEMMA ListFacts ==
  ASSUME NEW s, Listed(s)
  PROVE  Len(s) \in Nat /\ DOMAIN s = 1..Len(s) /\ s = [k \in 1..Len(s) |-> s[k]]
<1>1. PICK S : s \in Seq(S)
  BY DEF Listed
<1> QED
  BY <1>1

LEMMA SameLists ==
  ASSUME NEW s, NEW t, Listed(s), Listed(t), Len(s) = Len(t), \A k \in 1..Len(s) : s[k] = t[k]
  PROVE  s = t
BY ListFacts

LEMMA JoinedLists ==
  ASSUME NEW s, NEW t, Listed(s), Listed(t)
  PROVE  /\ Listed(s \o t) /\ Len(s \o t) = Len(s) + Len(t)
         /\ \A k \in 1..Len(s) + Len(t) : (s \o t)[k] = IF k <= Len(s) THEN s[k] ELSE t[k - Len(s)]
<1>1. PICK S : s \in Seq(S)
  BY DEF Listed
<1>2. PICK T : t \in Seq(T)
  BY DEF Listed
<1> DEFINE U == S \cup T
<1>3. s \in Seq(U) /\ t \in Seq(U)
  BY <1>1, <1>2
<1> HIDE DEF U
<1>4. s \o t \in Seq(U) /\ Len(s \o t) = Len(s) + Len(t)
  BY <1>3
<1>5. \A k \in 1..Len(s) + Len(t) : (s \o t)[k] = IF k <= Len(s) THEN s[k] ELSE t[k - Len(s)]
  BY <1>3
<1> QED
  BY <1>4, <1>5 DEF Listed

LEMMA PartOfList ==
  ASSUME NEW s, Listed(s), NEW m \in Nat, NEW n \in Nat, m <= n, n <= Len(s)
  PROVE  /\ Listed(SubSeq(s, m + 1, n)) /\ Len(SubSeq(s, m + 1, n)) = n - m
         /\ \A k \in 1..n - m : SubSeq(s, m + 1, n)[k] = s[m + k]
<1>1. PICK S : s \in Seq(S)
  BY DEF Listed
<1>2. Len(s) \in Nat /\ m + 1 \in 1..Len(s) + 1 /\ n \in m..Len(s) /\ n - m \in Nat
  BY <1>1
<1>3. \A i \in m + 1..n : s[i] \in S
  BY <1>1, <1>2
<1> DEFINE p == SubSeq(s, m + 1, n)
<1>4. /\ p \in Seq(S)
      /\ Len(p) = IF m + 1 <= n THEN n - (m + 1) + 1 ELSE 0
      /\ \A i \in 1..(n - (m + 1) + 1) : p[i] = s[(m + 1) + i - 1]
  BY <1>2, <1>3, SubSeqProperties
<1> HIDE DEF p
<1>5. Len(p) = n - m /\ n - (m + 1) + 1 = n - m
  BY <1>2, <1>4
<1>6. \A k \in 1..n - m : (m + 1) + k - 1 = m + k
  BY <1>2
<1>7. \A k \in 1..n - m : p[k] = s[m + k]
  BY <1>4, <1>5, <1>6
<1> QED
  BY <1>4, <1>5, <1>7 DEF Listed, p

LEMMA OneListed == ASSUME NEW c PROVE Listed(<<c>>) /\ Len(<<c>>) = 1 /\ <<c>>[1] = c
<1>1. <<c>> \in Seq({c})
  OBVIOUS
<1> QED
  BY <1>1 DEF Listed

LEMMA NoneListed == Listed(<<>>) /\ Len(<<>>) = 0 /\ \A s : Listed(s) /\ Len(s) = 0 => s = <<>>
<1>1. <<>> \in Seq({})
  OBVIOUS
<1>2. Listed(<<>>) /\ Len(<<>>) = 0
  BY <1>1 DEF Listed
<1>3. ASSUME NEW s, Listed(s), Len(s) = 0 PROVE s = <<>>
  BY <1>2, <1>3, SameLists
<1> QED
  BY <1>2, <1>3
------------------------------------------------------------------------------
(* Rows of sectors.                                                        *)
LEMMA Rows ==
  ASSUME StorageAssumption, NEW q \in Nat
  PROVE  /\ q * SECTOR \in Nat /\ (q + 1) * SECTOR = q * SECTOR + SECTOR
         /\ \A n \in Nat : q < n => q * SECTOR + SECTOR <= n * SECTOR
         /\ \A n \in Nat : q <= n => q * SECTOR <= n * SECTOR
         /\ \A n \in Nat : (q + n) * SECTOR = q * SECTOR + n * SECTOR
<1>1. SECTOR \in Nat \ {0}
  BY DEF StorageAssumption
<1>2. q * SECTOR \in Nat /\ (q + 1) * SECTOR = q * SECTOR + SECTOR
  BY <1>1
<1>3. ASSUME NEW n \in Nat, q < n PROVE q * SECTOR + SECTOR <= n * SECTOR
  <2>1. SECTOR * n >= SECTOR * q + SECTOR
    BY <1>1, <1>3, NextMultiple
  <2>2. SECTOR * n = n * SECTOR /\ SECTOR * q = q * SECTOR
    BY <1>1
  <2> QED
    BY <2>1, <2>2
<1>4. ASSUME NEW n \in Nat PROVE (q + n) * SECTOR = q * SECTOR + n * SECTOR /\ n * SECTOR \in Nat
  BY <1>1
<1>5. ASSUME NEW n \in Nat, q <= n PROVE q * SECTOR <= n * SECTOR
  <2>1. CASE q = n
    BY <2>1, <1>2
  <2>2. CASE q < n
    BY <2>2, <1>1, <1>2, <1>3, <1>4
  <2> QED
    BY <2>1, <2>2, <1>5
<1> QED
  BY <1>2, <1>3, <1>4, <1>5

LEMMA PlaceInRow ==
  ASSUME StorageAssumption, NEW q \in Nat, NEW k \in 1..SECTOR
  PROVE  ((q * SECTOR + k) - 1) \div SECTOR = q /\ ((q * SECTOR + k) - 1) % SECTOR = k - 1
<1>1. SECTOR \in Nat \ {0} /\ q * SECTOR \in Nat
  BY Rows DEF StorageAssumption
<1> DEFINE r == k - 1
           a == (q * SECTOR + k) - 1
<1>2. r \in 0..SECTOR - 1 /\ a \in Int /\ a = SECTOR * q + r /\ q \in Int
  BY <1>1
<1> HIDE DEF a, r
<1>3. a \div SECTOR = q /\ a % SECTOR = r
  BY <1>1, <1>2, DivisionUnique
<1> QED
  BY <1>3 DEF a, r

LEMMA RowOfPlace ==
  ASSUME StorageAssumption, NEW n \in Nat, NEW k \in 1..n * SECTOR
  PROVE  \E q \in 0..n - 1, i \in 1..SECTOR : k = q * SECTOR + i
<1>1. SECTOR \in Nat \ {0} /\ n * SECTOR \in Nat
  BY Rows DEF StorageAssumption
<1> DEFINE q == (k - 1) \div SECTOR
           r == (k - 1) % SECTOR
<1>2. q \in Int /\ r \in 0..SECTOR - 1 /\ k - 1 = SECTOR * q + r /\ k \in Nat /\ k >= 1
  BY <1>1, Division
<1> HIDE DEF q, r
<1>3. SECTOR * n = n * SECTOR /\ SECTOR * q = q * SECTOR
  BY <1>1, <1>2
<1>4. q < n
  <2> SUFFICES ASSUME q >= n PROVE FALSE
    BY <1>2
  <2>1. SECTOR * q >= SECTOR * n
    <3>1. CASE q = n
      BY <3>1, <1>1, <1>3
    <3>2. CASE q > n
      BY <3>2, <1>1, <1>2, <1>3, NextMultiple
    <3> QED BY <3>1, <3>2, <1>2
  <2> QED
    BY <2>1, <1>1, <1>2, <1>3
<1>5. q >= 0
  <2> SUFFICES ASSUME q < 0 PROVE FALSE
    BY <1>2
  <2>1. SECTOR * 0 >= SECTOR * q + SECTOR
    BY <1>1, <1>2, NextMultiple
  <2> QED
    BY <2>1, <1>1, <1>2, <1>3
<1>6. q \in 0..n - 1 /\ r + 1 \in 1..SECTOR /\ k = q * SECTOR + (r + 1)
  BY <1>1, <1>2, <1>3, <1>4, <1>5
<1> QED
  BY <1>6

LEMMA SectorFacts ==
  ASSUME StorageAssumption, NEW f, Listed(f), NEW q \in Nat, q * SECTOR + SECTOR <= Len(f)
  PROVE  /\ Listed(Sector(f, q)) /\ Len(Sector(f, q)) = SECTOR
         /\ \A k \in 1..SECTOR : Sector(f, q)[k] = f[q * SECTOR + k]
<1> DEFINE m == q * SECTOR
           n == (q + 1) * SECTOR
<1>1. m \in Nat /\ n \in Nat /\ n = m + SECTOR /\ SECTOR \in Nat /\ n - m = SECTOR /\ m <= n /\ n <= Len(f)
  <2>1. m \in Nat /\ n = m + SECTOR /\ m + SECTOR <= Len(f) /\ SECTOR \in Nat
    BY Rows DEF StorageAssumption
  <2>2. Len(f) \in Nat
    BY ListFacts
  <2> HIDE DEF m, n
  <2> QED
    BY <2>1, <2>2
<1>2. Sector(f, q) = SubSeq(f, m + 1, n)
  BY DEF Sector
<1> HIDE DEF m, n
<1>3. /\ Listed(SubSeq(f, m + 1, n)) /\ Len(SubSeq(f, m + 1, n)) = n - m
      /\ \A k \in 1..n - m : SubSeq(f, m + 1, n)[k] = f[m + k]
  <2>1. Listed(f) /\ m \in Nat /\ n \in Nat /\ m <= n /\ n <= Len(f)
    BY <1>1
  <2> QED
    BY <2>1, PartOfList
<1>4. \A k \in 1..SECTOR : Sector(f, q)[k] = f[m + k]
  BY <1>1, <1>2, <1>3
<1> QED
  BY <1>1, <1>2, <1>3, <1>4 DEF m

LEMMA SameSectors ==
  ASSUME StorageAssumption, NEW f, NEW g, Listed(f), Listed(g), NEW q \in Nat, NEW p \in Nat,
         q * SECTOR + SECTOR <= Len(f), p * SECTOR + SECTOR <= Len(g),
         \A k \in 1..SECTOR : f[q * SECTOR + k] = g[p * SECTOR + k]
  PROVE  Sector(f, q) = Sector(g, p)
<1> DEFINE a == Sector(f, q)
           b == Sector(g, p)
<1>1. Listed(a) /\ Len(a) = SECTOR /\ \A k \in 1..SECTOR : a[k] = f[q * SECTOR + k]
  BY SectorFacts
<1>2. Listed(b) /\ Len(b) = SECTOR /\ \A k \in 1..SECTOR : b[k] = g[p * SECTOR + k]
  BY SectorFacts
<1> HIDE DEF a, b
<1>3. a = b
  BY <1>1, <1>2, SameLists
<1> QED
  BY <1>3 DEF a, b

------------------------------------------------------------------------------
(* Exclusive or: a mark counts where an odd number of the sectors have it, *)
(* so that a sector is what the others of its group and their record make. *)
LEMMA OddNotEmpty == ASSUME NEW S, IsFiniteSet(S), Cardinality(S) % 2 = 1 PROVE S # {}
BY FS_EmptySet

LEMMA XorMark ==
  ASSUME NEW f, NEW G, IsFiniteSet(G), NEW k \in 1..SECTOR, NEW m
  PROVE  m \in XorOf(f, G)[k] <=> Cardinality(Having(f, G, k, m)) % 2 = 1
<1>1. IsFiniteSet(Having(f, G, k, m))
  BY FS_Subset DEF Having
<1>2. XorOf(f, G)[k] = {x \in UNION {Sector(f, i)[k] : i \in G} : Cardinality(Having(f, G, k, x)) % 2 = 1}
  BY DEF XorOf
<1>3. ASSUME Cardinality(Having(f, G, k, m)) % 2 = 1 PROVE m \in UNION {Sector(f, i)[k] : i \in G}
  <2>1. Having(f, G, k, m) # {}
    BY <1>1, <1>3, OddNotEmpty
  <2>2. PICK i \in G : m \in Sector(f, i)[k]
    BY <2>1 DEF Having
  <2> QED
    BY <2>2
<1> QED
  BY <1>2, <1>3

LEMMA XorLists ==
  ASSUME StorageAssumption, NEW f, NEW G
  PROVE  Listed(XorOf(f, G)) /\ Len(XorOf(f, G)) = SECTOR
<1> DEFINE x == XorOf(f, G)
<1>1. x = [k \in 1..SECTOR |-> x[k]]
  BY DEF XorOf
<1>2. SECTOR \in Nat
  BY DEF StorageAssumption
<1> HIDE DEF x
<1>3. Listed(x) /\ Len(x) = SECTOR
  BY <1>1, <1>2, ListOf
<1> QED
  BY <1>3 DEF x

LEMMA SameXor ==
  ASSUME NEW f, NEW g, NEW G, \A i \in G : Sector(f, i) = Sector(g, i)
  PROVE  XorOf(f, G) = XorOf(g, G)
<1>1. ASSUME NEW k \in 1..SECTOR PROVE UNION {Sector(f, i)[k] : i \in G} = UNION {Sector(g, i)[k] : i \in G}
  <2>1. {Sector(f, i)[k] : i \in G} = {Sector(g, i)[k] : i \in G}
    OBVIOUS
  <2> QED
    BY <2>1
<1>2. ASSUME NEW k, NEW m PROVE Having(f, G, k, m) = Having(g, G, k, m)
  BY DEF Having
<1> DEFINE a == [k \in 1..SECTOR |-> {m \in UNION {Sector(f, i)[k] : i \in G} : Cardinality(Having(f, G, k, m)) % 2 = 1}]
           b == [k \in 1..SECTOR |-> {m \in UNION {Sector(g, i)[k] : i \in G} : Cardinality(Having(g, G, k, m)) % 2 = 1}]
<1>3. ASSUME NEW k \in 1..SECTOR PROVE a[k] = b[k]
  <2>1. a[k] = {m \in UNION {Sector(f, i)[k] : i \in G} : Cardinality(Having(f, G, k, m)) % 2 = 1}
    OBVIOUS
  <2>2. b[k] = {m \in UNION {Sector(g, i)[k] : i \in G} : Cardinality(Having(g, G, k, m)) % 2 = 1}
    OBVIOUS
  <2> HIDE DEF a, b
  <2> QED
    BY <1>1, <1>2, <2>1, <2>2, Zenon
<1>4. a = b
  <2>1. a = [k \in 1..SECTOR |-> a[k]] /\ b = [k \in 1..SECTOR |-> b[k]]
    OBVIOUS
  <2> HIDE DEF a, b
  <2> QED
    BY <1>3, <2>1
<1> QED
  BY <1>4 DEF XorOf

LEMMA Parity ==
  ASSUME NEW n \in Nat
  PROVE  (n + 1) % 2 = 1 <=> ~(n % 2 = 1)
OBVIOUS

SameBut(f, g, G, i) == \A j \in G \ {i} : Sector(g, j) = Sector(f, j)

LEMMA RebuiltIs ==
  ASSUME StorageAssumption, NEW f, NEW g, NEW G, IsFiniteSet(G), NEW i \in G,
         SameBut(f, g, G, i), Listed(Sector(f, i)), Len(Sector(f, i)) = SECTOR
  PROVE  XorBlock(XorOf(g, G \ {i}), XorOf(f, G)) = Sector(f, i)
<1>1. XorOf(g, G \ {i}) = XorOf(f, G \ {i})
  BY SameXor DEF SameBut
<1>2. ASSUME NEW k \in 1..SECTOR, NEW m
      PROVE  m \in Xor(XorOf(f, G \ {i})[k], XorOf(f, G)[k]) <=> m \in Sector(f, i)[k]
  <2> DEFINE A == Having(f, G \ {i}, k, m)
             B == Having(f, G, k, m)
  <2>1. IsFiniteSet(G \ {i})
    BY FS_RemoveElement
  <2>2. IsFiniteSet(A) /\ i \notin A
    BY <2>1, FS_Subset DEF Having
  <2>3. /\ m \in XorOf(f, G \ {i})[k] <=> Cardinality(A) % 2 = 1
        /\ m \in XorOf(f, G)[k] <=> Cardinality(B) % 2 = 1
    BY <2>1, XorMark
  <2>4. B = IF m \in Sector(f, i)[k] THEN A \cup {i} ELSE A
    BY DEF Having
  <2> HIDE DEF A, B
  <2>5. Cardinality(A) \in Nat /\ Cardinality(A \cup {i}) = Cardinality(A) + 1
    BY <2>2, FS_AddElement, FS_CardinalityType
  <2>6. CASE m \in Sector(f, i)[k]
    <3>1. Cardinality(B) = Cardinality(A) + 1
      BY <2>4, <2>5, <2>6
    <3>2. Cardinality(B) % 2 = 1 <=> ~(Cardinality(A) % 2 = 1)
      BY <2>5, <3>1, Parity
    <3> QED
      BY <2>3, <2>6, <3>2 DEF Xor
  <2>7. CASE m \notin Sector(f, i)[k]
    BY <2>3, <2>4, <2>7 DEF Xor
  <2> QED
    BY <2>6, <2>7
<1> DEFINE s == Sector(f, i)
           a == XorOf(f, G \ {i})
           b == XorOf(f, G)
<1>3. \A k \in 1..SECTOR : Xor(a[k], b[k]) = s[k]
  BY <1>2
<1>4. s = [k \in 1..SECTOR |-> s[k]]
  BY ListFacts
<1> HIDE DEF s, a, b
<1>5. XorBlock(a, b) = s
  BY <1>3, <1>4 DEF XorBlock
<1> QED
  BY <1>1, <1>5 DEF s, a, b
------------------------------------------------------------------------------
(* What protects a payload: where it lies.                                 *)
LEMMA SecsOf ==
  ASSUME StorageAssumption, NEW n \in Nat
  PROVE  Secs(n) \in Nat \ {0} /\ n < Secs(n) * SECTOR /\ Secs(n) * SECTOR \in Nat
<1> DEFINE q == n \div SECTOR
           r == n % SECTOR
<1>1. SECTOR \in Nat \ {0}
  BY DEF StorageAssumption
<1>2. q \in Int /\ r \in 0..SECTOR - 1 /\ n = SECTOR * q + r
  BY <1>1, Division
<1>3. Secs(n) = q + 1
  BY DEF Secs
<1> HIDE DEF q, r
<1>4. q >= 0
  <2> SUFFICES ASSUME q < 0 PROVE FALSE
    BY <1>2
  <2>1. SECTOR * 0 >= SECTOR * q + SECTOR
    BY <1>1, <1>2, NextMultiple
  <2> QED
    BY <2>1, <1>1, <1>2
<1>5. (q + 1) * SECTOR = SECTOR * q + SECTOR
  BY <1>1, <1>2
<1> QED
  BY <1>1, <1>2, <1>3, <1>4, <1>5

LEMMA CalcOf == \A secs : Calc(secs) \in Nat \ {0}
BY DEF Calc

LEMMA LaidLists ==
  ASSUME StorageAssumption, NEW n \in Nat, NEW b, Listed(b), Len(b) = n
  PROVE  /\ Listed(Laid(b)) /\ Len(Laid(b)) = n * SECTOR
         /\ \A q \in 0..n - 1, k \in 1..SECTOR : q * SECTOR + k \in 1..n * SECTOR /\ Laid(b)[q * SECTOR + k] = b[q + 1][k]
<1> DEFINE d == Laid(b)
<1>1. n * SECTOR \in Nat /\ SECTOR \in Nat
  BY Rows DEF StorageAssumption
<1>2. d = [k \in 1..n * SECTOR |-> d[k]]
  BY DEF Laid
<1>3. ASSUME NEW q \in 0..n - 1, NEW k \in 1..SECTOR
      PROVE  q * SECTOR + k \in 1..n * SECTOR /\ d[q * SECTOR + k] = b[q + 1][k]
  <2>1. q \in Nat /\ q < n
    OBVIOUS
  <2>2. q * SECTOR \in Nat /\ q * SECTOR + SECTOR <= n * SECTOR
    BY <2>1, Rows
  <2>3. q * SECTOR + k \in 1..n * SECTOR
    BY <1>1, <2>2
  <2>4. ((q * SECTOR + k) - 1) \div SECTOR = q /\ ((q * SECTOR + k) - 1) % SECTOR = k - 1
    BY <2>1, PlaceInRow
  <2> DEFINE p == q * SECTOR + k
  <2>5. d[p] = b[((p - 1) \div SECTOR) + 1][((p - 1) % SECTOR) + 1]
    BY <2>3 DEF Laid
  <2>6. (k - 1) + 1 = k
    OBVIOUS
  <2> QED
    BY <2>3, <2>4, <2>5, <2>6
<1> HIDE DEF d
<1>4. Listed(d) /\ Len(d) = n * SECTOR
  BY <1>1, <1>2, ListOf
<1> QED
  BY <1>3, <1>4 DEF d

SecsIn(w) == Secs(Len(w))
Sums(w) == Checks(Padded(w), SecsIn(w))
Payloads(w) == Listed(w) /\ w # <<>> /\ IsHead(w[1]) /\ Value(w[1]) = Len(w) - 1

\* A file that has, behind the sectors of a payload, what protects it.
Guards(g, w) ==
    /\ Listed(g) /\ Len(g) = Len(Protect(w))
    /\ \A k \in 1..Len(g) : k > SecsIn(w) * SECTOR => g[k] = Protect(w)[k]

LEMMA PaddedLists ==
  ASSUME StorageAssumption, NEW w, Listed(w)
  PROVE  /\ Listed(Padded(w)) /\ Len(Padded(w)) = SecsIn(w) * SECTOR
         /\ Len(w) \in Nat /\ Len(w) < SecsIn(w) * SECTOR /\ SecsIn(w) \in Nat \ {0} /\ SecsIn(w) * SECTOR \in Nat
         /\ \A k \in 1..Len(w) : Padded(w)[k] = w[k]
<1>1. Len(w) \in Nat
  BY ListFacts
<1>2. SecsIn(w) \in Nat \ {0} /\ Len(w) < SecsIn(w) * SECTOR /\ SecsIn(w) * SECTOR \in Nat
  BY <1>1, SecsOf DEF SecsIn
<1> DEFINE p == Padded(w)
           n == SecsIn(w) * SECTOR
<1>3. p = [k \in 1..n |-> p[k]]
  BY DEF Padded, SecsIn
<1>4. ASSUME NEW k \in 1..Len(w) PROVE p[k] = w[k]
  <2>1. k \in 1..n /\ k <= Len(w)
    BY <1>1, <1>2
  <2> QED
    BY <2>1 DEF Padded, SecsIn
<1> HIDE DEF p, n
<1>5. n \in Nat
  BY <1>2 DEF n
<1>6. Listed(p) /\ Len(p) = n
  BY <1>3, <1>5, ListOf
<1> QED
  BY <1>1, <1>2, <1>4, <1>6 DEF p, n

LEMMA RecordLists ==
  ASSUME StorageAssumption, NEW f, NEW secs
  PROVE  /\ Listed(Records(f, secs)) /\ Len(Records(f, secs)) = Calc(secs)
         /\ \A r \in 1..Calc(secs) : Records(f, secs)[r] = XorOf(f, Group(secs, r - 1))
<1> DEFINE x == Records(f, secs)
<1>1. x = [r \in 1..Calc(secs) |-> x[r]] /\ \A r \in 1..Calc(secs) : x[r] = XorOf(f, Group(secs, r - 1))
  BY DEF Records
<1> HIDE DEF x
<1>2. Listed(x) /\ Len(x) = Calc(secs)
  BY <1>1, CalcOf, ListOf
<1> QED
  BY <1>1, <1>2 DEF x

LEMMA CheckLists ==
  ASSUME NEW f, NEW secs \in Nat
  PROVE  /\ Listed(Checks(f, secs)) /\ Len(Checks(f, secs)) = secs
         /\ \A i \in 1..secs : Checks(f, secs)[i] = Check(Sector(f, i - 1))
<1> DEFINE x == Checks(f, secs)
<1>1. x = [i \in 1..secs |-> x[i]] /\ \A i \in 1..secs : x[i] = Check(Sector(f, i - 1))
  BY DEF Checks
<1> HIDE DEF x
<1>2. Listed(x) /\ Len(x) = secs
  BY <1>1, ListOf
<1> QED
  BY <1>1, <1>2 DEF x

\* Sectors, records, checksums, their sum, and the spare head.
LEMMA Layout ==
  ASSUME StorageAssumption, NEW w, Listed(w), NEW n \in Nat, n = SecsIn(w) * SECTOR, NEW d \in Nat, d = Calc(SecsIn(w)) * SECTOR
  PROVE  /\ Listed(Protect(w)) /\ Len(Protect(w)) = n + d + SecsIn(w) + 2
         /\ \A k \in 1..n : Protect(w)[k] = Padded(w)[k]
         /\ \A k \in 1..d : Protect(w)[n + k] = Laid(Records(Padded(w), SecsIn(w)))[k]
         /\ \A k \in 1..SecsIn(w) : Protect(w)[n + d + k] = Sums(w)[k]
         /\ Protect(w)[n + d + SecsIn(w) + 1] = Fletcher(Sums(w))
         /\ Protect(w)[n + d + SecsIn(w) + 2] = w[1]
<1> DEFINE f == Padded(w)
           s == SecsIn(w)
           l == Laid(Records(f, s))
           c == Checks(f, s)
           sum == Fletcher(c)
           lc == l \o c
           p == lc \o <<sum>>
           fp == f \o p
           a == fp \o <<w[1]>>
<1>1. Listed(f) /\ Len(f) = n /\ s \in Nat
  BY PaddedLists
<1>2. Listed(l) /\ Len(l) = d
  <2> DEFINE b == Records(f, s)
             m == Calc(s)
  <2>1. Listed(b) /\ Len(b) = m /\ m \in Nat
    BY RecordLists, CalcOf
  <2> HIDE DEF b, m
  <2>2. Listed(Laid(b)) /\ Len(Laid(b)) = m * SECTOR
    BY <2>1, LaidLists
  <2> QED
    BY <2>2 DEF b, m
<1>3. Listed(c) /\ Len(c) = s
  BY <1>1, CheckLists
<1>4. a = Protect(w)
  BY DEF Protect, DamPro, Protection, SecsIn
<1>5. c = Sums(w)
  BY DEF Sums
<1> HIDE DEF f, s, l, c, sum
<1>6. /\ Listed(lc) /\ Len(lc) = d + s
      /\ \A k \in 1..d + s : lc[k] = IF k <= d THEN l[k] ELSE c[k - d]
  <2>1. Listed(l) /\ Listed(c) /\ Len(l) = d /\ Len(c) = s
    BY <1>2, <1>3
  <2> QED
    BY <2>1, JoinedLists
<1> HIDE DEF lc
<1>7. Listed(<<sum>>) /\ Len(<<sum>>) = 1 /\ <<sum>>[1] = sum /\ Listed(<<w[1]>>) /\ Len(<<w[1]>>) = 1 /\ <<w[1]>>[1] = w[1]
  BY OneListed
<1>8. /\ Listed(p) /\ Len(p) = d + s + 1
      /\ \A k \in 1..d + s + 1 : p[k] = IF k <= d + s THEN lc[k] ELSE <<sum>>[k - (d + s)]
  <2>1. Listed(lc) /\ Listed(<<sum>>) /\ Len(lc) = d + s /\ Len(<<sum>>) = 1
    BY <1>6, <1>7
  <2> QED
    BY <2>1, JoinedLists
<1> HIDE DEF p
<1>9. /\ Listed(fp) /\ Len(fp) = n + (d + s + 1)
      /\ \A k \in 1..n + (d + s + 1) : fp[k] = IF k <= n THEN f[k] ELSE p[k - n]
  <2>1. Listed(f) /\ Listed(p) /\ Len(f) = n /\ Len(p) = d + s + 1
    BY <1>1, <1>8
  <2> QED
    BY <2>1, JoinedLists
<1> HIDE DEF fp
<1>10. /\ Listed(a) /\ Len(a) = n + (d + s + 1) + 1
       /\ \A k \in 1..n + (d + s + 1) + 1 : a[k] = IF k <= n + (d + s + 1) THEN fp[k] ELSE <<w[1]>>[k - (n + (d + s + 1))]
  <2>1. Listed(fp) /\ Listed(<<w[1]>>) /\ Len(fp) = n + (d + s + 1) /\ Len(<<w[1]>>) = 1
    BY <1>7, <1>9
  <2> QED
    BY <2>1, JoinedLists
<1> HIDE DEF a
<1>11. \A k \in 1..n : a[k] = f[k]
  <2> TAKE k \in 1..n
  <2>1. k \in 1..n + (d + s + 1) + 1 /\ k \in 1..n + (d + s + 1) /\ k <= n + (d + s + 1) /\ k <= n
    BY <1>1
  <2> QED
    BY <2>1, <1>9, <1>10
<1>12. \A k \in 1..d + s + 1 : a[n + k] = p[k]
  <2> TAKE k \in 1..d + s + 1
  <2>1. n + k \in 1..n + (d + s + 1) + 1 /\ n + k \in 1..n + (d + s + 1) /\ n + k <= n + (d + s + 1) /\ ~(n + k <= n) /\ (n + k) - n = k
    BY <1>1
  <2> QED
    BY <2>1, <1>9, <1>10
<1>13. \A k \in 1..d : p[k] = l[k]
  <2> TAKE k \in 1..d
  <2>1. k \in 1..d + s + 1 /\ k \in 1..d + s /\ k <= d + s /\ k <= d
    BY <1>1
  <2> QED
    BY <2>1, <1>6, <1>8
<1>14. \A k \in 1..s : p[d + k] = c[k]
  <2> TAKE k \in 1..s
  <2>1. d + k \in 1..d + s + 1 /\ d + k \in 1..d + s /\ d + k <= d + s /\ ~(d + k <= d) /\ (d + k) - d = k
    BY <1>1
  <2> QED
    BY <2>1, <1>6, <1>8
<1>15. p[d + s + 1] = sum
  <2>1. d + s + 1 \in 1..d + s + 1 /\ ~(d + s + 1 <= d + s) /\ (d + s + 1) - (d + s) = 1
    BY <1>1
  <2> QED
    BY <2>1, <1>7, <1>8
<1>16. a[n + d + s + 2] = w[1]
  <2> DEFINE e == n + (d + s + 1)
  <2>1. e + 1 \in 1..e + 1 /\ ~(e + 1 <= e) /\ (e + 1) - e = 1 /\ n + d + s + 2 = e + 1
    BY <1>1
  <2> QED
    BY <2>1, <1>7, <1>10
<1>17. \A k \in 1..d : a[n + k] = l[k]
  <2> TAKE k \in 1..d
  <2>1. k \in 1..d + s + 1
    BY <1>1
  <2> QED
    BY <2>1, <1>12, <1>13
<1>18. \A k \in 1..s : a[n + d + k] = c[k]
  <2> TAKE k \in 1..s
  <2>1. d + k \in 1..d + s + 1 /\ n + d + k = n + (d + k)
    BY <1>1
  <2> QED
    BY <2>1, <1>12, <1>14
<1>19. a[n + d + s + 1] = sum
  <2>1. d + s + 1 \in 1..d + s + 1 /\ n + d + s + 1 = n + (d + s + 1)
    BY <1>1
  <2> QED
    BY <2>1, <1>12, <1>15
<1>20. Len(a) = n + d + s + 2
  BY <1>1, <1>10
<1> QED
  BY <1>4, <1>5, <1>10, <1>11, <1>16, <1>17, <1>18, <1>19, <1>20 DEF f, s, l, c, sum

Sheltered(w, i) == Sector(Padded(w), i)

LEMMA CheckTells == ASSUME NEW a, NEW b PROVE Check(a) = Check(b) <=> a = b
<1>1. \A x, y : Mark(x) = Mark(y) => x = y
  BY Zenon DEF Mark
<1>2. <<"check", a>> = <<"check", b>> => a = b
  OBVIOUS
<1> QED
  BY <1>1, <1>2 DEF Check

LEMMA ShelteredLists ==
  ASSUME StorageAssumption, NEW w, Listed(w), NEW i \in 0..SecsIn(w) - 1
  PROVE  /\ Listed(Sheltered(w, i)) /\ Len(Sheltered(w, i)) = SECTOR
         /\ \A k \in 1..SECTOR : Sheltered(w, i)[k] = Padded(w)[i * SECTOR + k]
         /\ i * SECTOR + SECTOR <= SecsIn(w) * SECTOR
<1>1. Listed(Padded(w)) /\ Len(Padded(w)) = SecsIn(w) * SECTOR /\ SecsIn(w) \in Nat
  BY PaddedLists
<1>2. i \in Nat /\ i < SecsIn(w)
  BY <1>1
<1>3. i * SECTOR + SECTOR <= SecsIn(w) * SECTOR
  BY <1>1, <1>2, Rows
<1> QED
  BY <1>1, <1>2, <1>3, SectorFacts DEF Sheltered

\* Where the records, the checksums and their sum of a guarded file lie.
LEMMA GuardedPlaces ==
  ASSUME StorageAssumption, NEW w, Listed(w), NEW g, Guards(g, w)
  PROVE  /\ SecsIn(w) * SECTOR \in Nat /\ Calc(SecsIn(w)) * SECTOR \in Nat /\ SecsIn(w) \in Nat \ {0} /\ Calc(SecsIn(w)) \in Nat \ {0}
         /\ (SecsIn(w) + Calc(SecsIn(w))) * SECTOR = SecsIn(w) * SECTOR + Calc(SecsIn(w)) * SECTOR
         /\ Listed(g) /\ Len(g) = SecsIn(w) * SECTOR + Calc(SecsIn(w)) * SECTOR + SecsIn(w) + 2
<1>1. SecsIn(w) \in Nat \ {0} /\ Calc(SecsIn(w)) \in Nat \ {0}
  BY PaddedLists, CalcOf
<1>2. SecsIn(w) * SECTOR \in Nat /\ Calc(SecsIn(w)) * SECTOR \in Nat
  BY <1>1, Rows
<1>3. (SecsIn(w) + Calc(SecsIn(w))) * SECTOR = SecsIn(w) * SECTOR + Calc(SecsIn(w)) * SECTOR
  BY <1>1, Rows
<1>4. Len(Protect(w)) = SecsIn(w) * SECTOR + Calc(SecsIn(w)) * SECTOR + SecsIn(w) + 2
  BY <1>2, Layout
<1> QED
  BY <1>1, <1>2, <1>3, <1>4 DEF Guards

LEMMA GuardedTable ==
  ASSUME StorageAssumption, NEW w, Listed(w), NEW g, Guards(g, w)
  PROVE  Table(g, SecsIn(w)) = Sums(w) /\ TableSum(g, SecsIn(w)) = Fletcher(Sums(w))
<1> DEFINE s == SecsIn(w)
           n == s * SECTOR
           d == Calc(s) * SECTOR
           a == Protect(w)
           m == n + d
<1>1. /\ n \in Nat /\ d \in Nat /\ s \in Nat \ {0}
      /\ (s + Calc(s)) * SECTOR = n + d
      /\ Listed(g) /\ Len(g) = n + d + s + 2
  BY GuardedPlaces
<1>2. /\ \A k \in 1..s : a[n + d + k] = Sums(w)[k]
      /\ a[n + d + s + 1] = Fletcher(Sums(w))
  BY <1>1, Layout
<1>3. \A k \in 1..Len(g) : k > n => g[k] = a[k]
  BY DEF Guards
<1>4. Listed(Sums(w)) /\ Len(Sums(w)) = s
  BY <1>1, CheckLists DEF Sums
<1>5. Table(g, s) = SubSeq(g, m + 1, m + s)
  BY <1>1 DEF Table
<1>6. TableSum(g, s) = g[m + s + 1]
  BY <1>1 DEF TableSum
<1> HIDE DEF s, n, d, a
<1>7. m \in Nat /\ m + s \in Nat /\ m <= m + s /\ m + s <= Len(g) /\ (m + s) - m = s
  BY <1>1
<1>8. /\ Listed(SubSeq(g, m + 1, m + s)) /\ Len(SubSeq(g, m + 1, m + s)) = s
      /\ \A k \in 1..s : SubSeq(g, m + 1, m + s)[k] = g[m + k]
  <2> DEFINE e == m + s
  <2>1. e \in Nat /\ m <= e /\ e <= Len(g) /\ e - m = s /\ m \in Nat
    BY <1>7
  <2> HIDE DEF e, m
  <2>2. /\ Listed(SubSeq(g, m + 1, e)) /\ Len(SubSeq(g, m + 1, e)) = e - m
        /\ \A k \in 1..e - m : SubSeq(g, m + 1, e)[k] = g[m + k]
    BY <1>1, <2>1, PartOfList
  <2> QED
    BY <2>1, <2>2 DEF e
<1>9. \A k \in 1..s + 1 : m + k \in 1..Len(g) /\ m + k > n
  BY <1>1
<1> HIDE DEF m
<1>10. ASSUME NEW k \in 1..s PROVE SubSeq(g, m + 1, m + s)[k] = Sums(w)[k]
  <2>1. k \in 1..s + 1
    BY <1>1
  <2>2. g[m + k] = a[m + k]
    BY <2>1, <1>3, <1>9
  <2>3. a[m + k] = Sums(w)[k]
    BY <1>2 DEF m
  <2> QED
    BY <1>8, <2>2, <2>3
<1>11. SubSeq(g, m + 1, m + s) = Sums(w)
  <2> DEFINE x == SubSeq(g, m + 1, m + s)
  <2>1. Listed(x) /\ Len(x) = s /\ \A k \in 1..s : x[k] = Sums(w)[k]
    BY <1>8, <1>10
  <2> HIDE DEF x
  <2>2. x = Sums(w)
    BY <2>1, <1>4, SameLists
  <2> QED
    BY <2>2 DEF x
<1>12. g[m + s + 1] = Fletcher(Sums(w))
  <2>1. s + 1 \in 1..s + 1 /\ m + (s + 1) = m + s + 1
    BY <1>1, <1>7
  <2>2. g[m + (s + 1)] = a[m + (s + 1)]
    BY <2>1, <1>3, <1>9
  <2> QED
    BY <2>1, <2>2, <1>2 DEF m
<1> QED
  BY <1>5, <1>6, <1>11, <1>12 DEF s

LEMMA GuardedRecords ==
  ASSUME StorageAssumption, NEW w, Listed(w), NEW g, Guards(g, w), NEW r \in 0..Calc(SecsIn(w)) - 1
  PROVE  Record(g, SecsIn(w), r) = XorOf(Padded(w), Group(SecsIn(w), r))
<1> DEFINE s == SecsIn(w)
           n == s * SECTOR
           c == Calc(s)
           d == c * SECTOR
           a == Protect(w)
           b == Records(Padded(w), s)
           x == XorOf(Padded(w), Group(s, r))
           y == Record(g, s, r)
<1>1. /\ n \in Nat /\ d \in Nat /\ s \in Nat \ {0} /\ c \in Nat \ {0}
      /\ Listed(g) /\ Len(g) = n + d + s + 2
  BY GuardedPlaces
<1>2. \A k \in 1..d : a[n + k] = Laid(b)[k]
  BY <1>1, Layout
<1>3. \A k \in 1..Len(g) : k > n => g[k] = a[k]
  BY DEF Guards
<1>4. Listed(x) /\ Len(x) = SECTOR
  BY XorLists
<1>5. Listed(b) /\ Len(b) = c /\ b[r + 1] = x
  <2>1. r + 1 \in 1..c /\ (r + 1) - 1 = r
    BY <1>1
  <2>2. Listed(b) /\ Len(b) = c /\ b[r + 1] = XorOf(Padded(w), Group(s, (r + 1) - 1))
    BY <2>1, RecordLists
  <2> QED
    BY <2>1, <2>2
<1>6. \A k \in 1..SECTOR : r * SECTOR + k \in 1..d /\ Laid(b)[r * SECTOR + k] = b[r + 1][k]
  <2>1. r \in 0..c - 1 /\ c \in Nat
    BY <1>1
  <2>2. Listed(b) /\ Len(b) = c
    BY <1>5
  <2> HIDE DEF b, c
  <2>3. \A q \in 0..c - 1, k \in 1..SECTOR : q * SECTOR + k \in 1..c * SECTOR /\ Laid(b)[q * SECTOR + k] = b[q + 1][k]
    BY <2>1, <2>2, LaidLists
  <2> QED
    BY <2>1, <2>3, Zenon
<1>7. (s + r) * SECTOR = n + r * SECTOR /\ r * SECTOR \in Nat /\ r * SECTOR + SECTOR <= d /\ SECTOR \in Nat
  <2>1. r \in Nat /\ r < c
    BY <1>1
  <2> HIDE DEF c
  <2> QED
    BY <1>1, <2>1, Rows DEF StorageAssumption
<1>8. y = Sector(g, s + r)
  BY DEF Record
<1> HIDE DEF s, n, c, d, a, b, x, y
<1>9. s + r \in Nat /\ (s + r) * SECTOR + SECTOR <= Len(g)
  <2>1. r \in Nat
    OBVIOUS
  <2> QED
    BY <1>1, <1>7, <2>1
<1>10. /\ Listed(y) /\ Len(y) = SECTOR
       /\ \A k \in 1..SECTOR : y[k] = g[(s + r) * SECTOR + k]
  BY <1>1, <1>8, <1>9, SectorFacts
<1>11. ASSUME NEW k \in 1..SECTOR PROVE y[k] = x[k]
  <2> DEFINE e == r * SECTOR + k
  <2>1. e \in 1..d /\ Laid(b)[e] = x[k]
    BY <1>5, <1>6
  <2>2. (s + r) * SECTOR + k = n + e
    BY <1>1, <1>7
  <2> HIDE DEF e
  <2>3. n + e \in 1..Len(g) /\ n + e > n
    BY <1>1, <2>1
  <2>4. g[n + e] = a[n + e] /\ a[n + e] = Laid(b)[e]
    BY <1>2, <1>3, <2>1, <2>3
  <2> QED
    BY <1>10, <2>1, <2>2, <2>4
<1>12. y = x
  BY <1>4, <1>10, <1>11, SameLists
<1> QED
  BY <1>12 DEF x, y, s

LEMMA GuardedSectors ==
  ASSUME StorageAssumption, NEW w, Listed(w), NEW g, Guards(g, w), NEW i \in 0..SecsIn(w) - 1
  PROVE  /\ Agrees(g, SecsIn(w), i) <=> Sector(g, i) = Sheltered(w, i)
         /\ Table(g, SecsIn(w))[i + 1] = Check(Sheltered(w, i))
<1>1. Table(g, SecsIn(w)) = Sums(w)
  BY GuardedTable
<1>2. SecsIn(w) \in Nat
  BY PaddedLists
<1>3. Sums(w)[i + 1] = Check(Sheltered(w, i))
  <2>1. i + 1 \in 1..SecsIn(w) /\ (i + 1) - 1 = i
    BY <1>2
  <2>2. Sums(w)[i + 1] = Check(Sector(Padded(w), (i + 1) - 1))
    BY <1>2, <2>1, CheckLists DEF Sums
  <2> QED
    BY <2>1, <2>2 DEF Sheltered
<1> QED
  BY <1>1, <1>3, CheckTells DEF Agrees

\* A guarded file verifies exactly when it is the protected one.
AllSound(g, w) == \A i \in 0..SecsIn(w) - 1 : Sector(g, i) = Sheltered(w, i)

LEMMA VerifiesSound ==
  ASSUME StorageAssumption, NEW w, Listed(w), NEW g, Guards(g, w), PLen(g) = Len(w)
  PROVE  VerifyDP(g) <=> AllSound(g, w)
<1> DEFINE s == SecsIn(w)
           f == Padded(w)
<1>1. Secs(PLen(g)) = s
  BY DEF SecsIn
<1>2. TableSum(g, s) = Fletcher(Table(g, s))
  BY GuardedTable
<1>3. (\A i \in 0..s - 1 : Agrees(g, s, i)) <=> AllSound(g, w)
  BY GuardedSectors DEF AllSound
<1>4. ASSUME AllSound(g, w), NEW r \in 0..Calc(s) - 1 PROVE Record(g, s, r) = Records(g, s)[r + 1]
  <2>1. \A i \in Group(s, r) : Sector(g, i) = Sector(f, i)
    BY <1>4 DEF AllSound, Group, Sheltered
  <2>2. XorOf(g, Group(s, r)) = XorOf(f, Group(s, r))
    BY <2>1, SameXor
  <2>3. Record(g, s, r) = XorOf(f, Group(s, r))
    BY GuardedRecords
  <2>4. r + 1 \in 1..Calc(s) /\ (r + 1) - 1 = r
    BY CalcOf
  <2>5. Records(g, s)[r + 1] = XorOf(g, Group(s, (r + 1) - 1))
    BY <2>4, RecordLists
  <2> QED
    BY <2>2, <2>3, <2>4, <2>5
<1> HIDE DEF s
<1>5. VerifyDP(g) <=> /\ TableSum(g, s) = Fletcher(Table(g, s))
                      /\ \A i \in 0..s - 1 : Agrees(g, s, i)
                      /\ \A r \in 0..Calc(s) - 1 : Record(g, s, r) = Records(g, s)[r + 1]
  BY <1>1, Zenon DEF VerifyDP
<1> QED
  BY <1>2, <1>3, <1>4, <1>5

LEMMA GuardedLength ==
  ASSUME StorageAssumption, NEW w, Payloads(w), NEW g, Guards(g, w), IsHead(g[1]) => g[1] = w[1]
  PROVE  PLen(g) = Len(w)
<1> DEFINE n == SecsIn(w) * SECTOR
           d == Calc(SecsIn(w)) * SECTOR
           a == Protect(w)
<1>1. Listed(w) /\ IsHead(w[1]) /\ Value(w[1]) = Len(w) - 1
  BY DEF Payloads
<1>2. Len(w) \in Nat
  BY <1>1, ListFacts
<1>3. n \in Nat /\ d \in Nat /\ SecsIn(w) \in Nat /\ Listed(g) /\ Len(g) = n + d + SecsIn(w) + 2
  BY <1>1, GuardedPlaces
<1>4. a[n + d + SecsIn(w) + 2] = w[1]
  BY <1>1, <1>3, Layout
<1>5. \A k \in 1..Len(g) : k > n => g[k] = a[k]
  BY DEF Guards
<1> HIDE DEF n, d, a
<1>6. g[Len(g)] = w[1]
  <2>1. Len(g) \in 1..Len(g) /\ Len(g) > n
    BY <1>3
  <2>2. g[Len(g)] = a[Len(g)]
    BY <2>1, <1>5
  <2> QED
    BY <2>2, <1>3, <1>4
<1>7. PLen(g) = 1 + Value(w[1])
  BY <1>1, <1>6 DEF PLen
<1> QED
  BY <1>1, <1>2, <1>7

LEMMA ProtectGuards ==
  ASSUME StorageAssumption, NEW w, Payloads(w)
  PROVE  /\ Guards(Protect(w), w) /\ AllSound(Protect(w), w)
         /\ Protect(w)[1] = w[1] /\ PLen(Protect(w)) = Len(w) /\ VerifyDP(Protect(w))
<1> DEFINE n == SecsIn(w) * SECTOR
           d == Calc(SecsIn(w)) * SECTOR
           a == Protect(w)
           f == Padded(w)
<1>1. Listed(w) /\ w # <<>>
  BY DEF Payloads
<1>2. /\ Listed(f) /\ Len(f) = n /\ Len(w) \in Nat /\ Len(w) < n /\ SecsIn(w) \in Nat \ {0} /\ n \in Nat
      /\ \A k \in 1..Len(w) : f[k] = w[k]
  BY <1>1, PaddedLists
<1>3. d \in Nat
  BY CalcOf, Rows
<1>4. /\ Listed(a) /\ Len(a) = n + d + SecsIn(w) + 2
      /\ \A k \in 1..n : a[k] = f[k]
  BY <1>1, <1>2, <1>3, Layout
<1>5. Guards(a, w)
  BY <1>4 DEF Guards
<1>6. ASSUME NEW i \in 0..SecsIn(w) - 1 PROVE Sector(a, i) = Sheltered(w, i)
  <2>1. i \in Nat /\ i < SecsIn(w)
    BY <1>2
  <2>2. i * SECTOR \in Nat /\ i * SECTOR + SECTOR <= n /\ SECTOR \in Nat
    BY <1>2, <2>1, Rows DEF StorageAssumption
  <2> HIDE DEF n, d, a, f
  <2>3. \A k \in 1..SECTOR : i * SECTOR + k \in 1..n
    BY <1>2, <2>2
  <2>4. \A k \in 1..SECTOR : a[i * SECTOR + k] = f[i * SECTOR + k]
    BY <1>4, <2>3
  <2>5. i * SECTOR + SECTOR <= Len(a) /\ i * SECTOR + SECTOR <= Len(f)
    BY <1>2, <1>3, <1>4, <2>2
  <2>6. Sector(a, i) = Sector(f, i)
    <3>1. Listed(a) /\ Listed(f) /\ i \in Nat
      BY <1>2, <1>4, <2>1
    <3> QED
      BY <2>4, <2>5, <3>1, SameSectors
  <2> QED
    BY <2>6 DEF Sheltered, f
<1>7. AllSound(a, w)
  BY <1>6 DEF AllSound
<1>8. a[1] = w[1]
  <2> HIDE DEF n, d, a, f
  <2>1. Len(w) # 0
    BY <1>1, NoneListed
  <2>2. 1 \in 1..n /\ 1 \in 1..Len(w)
    BY <2>1, <1>2
  <2> QED
    BY <2>2, <1>2, <1>4
<1>9. PLen(a) = Len(w)
  <2> HIDE DEF a
  <2> QED
    BY <1>5, <1>8, GuardedLength
<1>10. VerifyDP(a)
  BY <1>1, <1>5, <1>7, <1>9, VerifiesSound
<1> QED
  BY <1>5, <1>7, <1>8, <1>9, <1>10

LEMMA SoundIsProtected ==
  ASSUME StorageAssumption, NEW w, Listed(w), NEW g, Guards(g, w), AllSound(g, w)
  PROVE  g = Protect(w)
<1> DEFINE n == SecsIn(w) * SECTOR
           d == Calc(SecsIn(w)) * SECTOR
           a == Protect(w)
           f == Padded(w)
<1>1. n \in Nat /\ d \in Nat /\ SecsIn(w) \in Nat \ {0} /\ Listed(g) /\ Len(g) = n + d + SecsIn(w) + 2
  BY GuardedPlaces
<1>2. /\ Listed(a) /\ Len(a) = n + d + SecsIn(w) + 2
      /\ \A k \in 1..n : a[k] = f[k]
  BY <1>1, Layout
<1>3. \A k \in 1..Len(g) : k > n => g[k] = a[k]
  BY DEF Guards
<1>4. ASSUME NEW k \in 1..n PROVE g[k] = a[k]
  <2>1. PICK i \in 0..SecsIn(w) - 1, j \in 1..SECTOR : k = i * SECTOR + j
    BY <1>1, RowOfPlace
  <2>2. Sheltered(w, i)[j] = f[i * SECTOR + j] /\ i * SECTOR + SECTOR <= n
    BY ShelteredLists
  <2>3. i \in Nat /\ i * SECTOR + SECTOR <= Len(g)
    <3> DEFINE e == i * SECTOR + SECTOR
    <3>1. i \in Nat
      BY <1>1
    <3>2. e \in Nat /\ e <= n
      BY <2>2, <3>1, Rows DEF StorageAssumption
    <3>3. n <= Len(g) /\ Len(g) \in Nat
      BY <1>1
    <3> HIDE DEF n, e
    <3>4. e <= Len(g)
      BY <1>1, <3>2, <3>3
    <3> QED
      BY <3>1, <3>4 DEF e
  <2>4. Sector(g, i)[j] = g[i * SECTOR + j]
    BY <1>1, <2>3, SectorFacts
  <2>5. Sector(g, i) = Sheltered(w, i)
    BY DEF AllSound
  <2> HIDE DEF n, d, a, f
  <2> QED
    BY <1>2, <2>1, <2>2, <2>4, <2>5
<1> HIDE DEF n, d, a, f
<1>5. \A k \in 1..Len(g) : g[k] = a[k]
  <2> TAKE k \in 1..Len(g)
  <2>1. CASE k > n
    BY <2>1, <1>3
  <2>2. CASE k <= n
    <3>1. k \in 1..n
      BY <2>2, <1>1
    <3> QED
      BY <3>1, <1>4
  <2> QED
    BY <2>1, <2>2, <1>1
<1>6. g = a
  BY <1>1, <1>2, <1>5, SameLists
<1> QED
  BY <1>6 DEF a

\* At most one sector of each group is not what it was.
OneEach(g, w) ==
    \A i, j \in 0..SecsIn(w) - 1 :
        i # j /\ i % Calc(SecsIn(w)) = j % Calc(SecsIn(w)) => Sector(g, i) = Sheltered(w, i) \/ Sector(g, j) = Sheltered(w, j)

LEMMA RebuiltRight ==
  ASSUME StorageAssumption, NEW w, Listed(w), NEW g, Guards(g, w), OneEach(g, w), NEW i \in 0..SecsIn(w) - 1
  PROVE  Repaired(g, SecsIn(w), i) = Sheltered(w, i)
<1> DEFINE s == SecsIn(w)
           f == Padded(w)
           r == i % Calc(s)
           G == Group(s, r)
<1>1. TableSum(g, s) = Fletcher(Table(g, s))
  BY GuardedTable
<1>2. /\ Agrees(g, s, i) <=> Sector(g, i) = Sheltered(w, i)
      /\ Table(g, s)[i + 1] = Check(Sheltered(w, i))
  BY GuardedSectors
<1>3. CASE Agrees(g, s, i)
  BY <1>2, <1>3 DEF Repaired
<1>4. CASE ~Agrees(g, s, i)
  <2>1. s \in Nat \ {0} /\ Calc(s) \in Nat \ {0}
    BY PaddedLists, CalcOf
  <2>2. r \in 0..Calc(s) - 1
    <3> DEFINE c == Calc(s)
    <3>1. c \in Nat \ {0} /\ i \in Int
      BY <2>1
    <3> HIDE DEF c
    <3>2. i % c \in 0..c - 1
      BY <3>1, Division
    <3> QED
      BY <3>2 DEF c
  <2>3. i \in G
    BY DEF Group
  <2>4. IsFiniteSet(G)
    <3>1. IsFiniteSet(0..s - 1)
      BY <2>1, FS_Interval
    <3> QED
      BY <3>1, FS_Subset DEF Group
  <2>5. SameBut(f, g, G, i)
    <3> SUFFICES ASSUME NEW j \in G \ {i} PROVE Sector(g, j) = Sector(f, j)
      BY DEF SameBut
    <3>1. j \in 0..s - 1 /\ j % Calc(s) = i % Calc(s) /\ i # j
      BY DEF Group
    <3>2. Sector(g, i) = Sheltered(w, i) \/ Sector(g, j) = Sheltered(w, j)
      BY <3>1 DEF OneEach
    <3> QED
      BY <3>2, <1>2, <1>4 DEF Sheltered
  <2>6. Listed(Sector(f, i)) /\ Len(Sector(f, i)) = SECTOR
    BY ShelteredLists DEF Sheltered
  <2>7. Record(g, s, r) = XorOf(f, G)
    BY <2>2, GuardedRecords
  <2>8. Others(s, i) = G \ {i}
    BY DEF Others
  <2> HIDE DEF G, f
  <2>9. XorBlock(XorOf(g, G \ {i}), XorOf(f, G)) = Sector(f, i)
    BY <2>3, <2>4, <2>5, <2>6, RebuiltIs
  <2>10. Rebuilt(g, s, i) = Sheltered(w, i)
    BY <2>7, <2>8, <2>9 DEF Rebuilt, Sheltered, f
  <2> QED
    BY <1>1, <1>2, <1>4, <2>10 DEF Repaired
<1> QED
  BY <1>3, <1>4

LEMMA RepairedWhole ==
  ASSUME StorageAssumption, NEW w, Listed(w), NEW g, Guards(g, w), OneEach(g, w)
  PROVE  RepairDP(g, Len(w)) = Protect(w)
<1> DEFINE s == SecsIn(w)
           n == s * SECTOR
           f == Padded(w)
           b == [i \in 1..s |-> Repaired(g, s, i - 1)]
           l == Laid(b)
<1>1. /\ Listed(f) /\ Len(f) = n /\ Len(w) \in Nat /\ Len(w) < n /\ s \in Nat \ {0} /\ n \in Nat
      /\ \A k \in 1..Len(w) : f[k] = w[k]
  BY PaddedLists
<1>2. Secs(Len(w)) = s
  BY DEF SecsIn
<1>3. ASSUME NEW q \in 0..s - 1 PROVE b[q + 1] = Sheltered(w, q)
  <2>1. q + 1 \in 1..s /\ (q + 1) - 1 = q
    BY <1>1
  <2>2. b[q + 1] = Repaired(g, s, (q + 1) - 1)
    BY <2>1
  <2> QED
    BY <2>1, <2>2, RebuiltRight
<1>4. Listed(b) /\ Len(b) = s
  <2>1. b = [i \in 1..s |-> b[i]]
    OBVIOUS
  <2> HIDE DEF b
  <2> QED
    BY <2>1, <1>1, ListOf
<1>5. /\ Listed(l) /\ Len(l) = n
      /\ \A q \in 0..s - 1, k \in 1..SECTOR : l[q * SECTOR + k] = b[q + 1][k]
  <2> HIDE DEF b
  <2> QED
    BY <1>1, <1>4, LaidLists
<1>6. ASSUME NEW k \in 1..n PROVE l[k] = f[k]
  <2>1. PICK i \in 0..s - 1, j \in 1..SECTOR : k = i * SECTOR + j
    BY <1>1, RowOfPlace
  <2>2. Sheltered(w, i)[j] = f[i * SECTOR + j]
    BY ShelteredLists
  <2> HIDE DEF b, l, f, n, s
  <2> QED
    BY <1>3, <1>5, <2>1, <2>2
<1>7. l = f
  <2> HIDE DEF l, f, n, s, b
  <2> QED
    BY <1>1, <1>5, <1>6, SameLists
<1>8. SubSeq(f, 1, Len(w)) = w
  <2> DEFINE m == 0
             x == SubSeq(f, m + 1, Len(w))
  <2> HIDE DEF f, n, s, b, l
  <2>1. m \in Nat /\ m <= Len(w) /\ Len(w) <= Len(f) /\ Len(w) - m = Len(w) /\ m + 1 = 1
    BY <1>1
  <2>2. \A k \in Nat : m + k = k
    OBVIOUS
  <2> HIDE DEF m
  <2>3. /\ Listed(x) /\ Len(x) = Len(w) - m
        /\ \A k \in 1..Len(w) - m : x[k] = f[m + k]
    <3>1. Listed(f) /\ m \in Nat /\ Len(w) \in Nat /\ m <= Len(w) /\ Len(w) <= Len(f)
      BY <1>1, <2>1
    <3> QED
      BY <3>1, PartOfList
  <2>4. \A k \in 1..Len(w) : x[k] = w[k]
    BY <1>1, <2>1, <2>2, <2>3
  <2> HIDE DEF x
  <2>5. x = w
    BY <2>1, <2>3, <2>4, SameLists
  <2> QED
    BY <2>1, <2>5 DEF x
<1>9. RepairDP(g, Len(w)) = Protect(SubSeq(l, 1, Len(w)))
  BY <1>2 DEF RepairDP
<1> HIDE DEF l, f, s, n, b
<1> QED
  BY <1>7, <1>8, <1>9

LEMMA MarkFacts ==
  ASSUME NEW m
  PROVE  Value(Mark(m)) = m[2] /\ (IsHead(Mark(m)) <=> m[1] = "head") /\ (Protected(Mark(m)) <=> m[1] = "head" /\ m[3])
<1>1. \A x : x \in Mark(m) <=> x = m
  BY DEF Mark
<1>2. Mark(m) = {m}
  BY DEF Mark
<1>3. (CHOOSE x \in Mark(m) : TRUE) = m
  BY <1>1
<1>4. Value(Mark(m)) = m[2]
  BY <1>3 DEF Value
<1>5. IsHead(Mark(m)) <=> m[1] = "head"
  BY <1>1, <1>2 DEF IsHead
<1>6. Protected(Mark(m)) <=> m[1] = "head" /\ m[3]
  BY <1>1, <1>2 DEF Protected
<1> QED
  BY <1>4, <1>5, <1>6

LEMMA HeadMarks ==
  ASSUME NEW n, NEW p \in BOOLEAN
  PROVE  /\ Value(FHead(n, p)) = n /\ IsHead(FHead(n, p)) /\ (Protected(FHead(n, p)) <=> p)
         /\ Value(XHead(n)) = n /\ Value(Word(n)) = n
<1> DEFINE h == <<"head", n, p>>
           x == <<"xhead", n>>
           v == <<"word", n>>
<1>1. h[1] = "head" /\ h[2] = n /\ h[3] = p /\ x[2] = n /\ v[2] = n
  OBVIOUS
<1>2. FHead(n, p) = Mark(h) /\ XHead(n) = Mark(x) /\ Word(n) = Mark(v)
  BY DEF FHead, XHead, Word
<1> HIDE DEF h, x, v
<1>3. /\ Value(Mark(h)) = h[2] /\ (IsHead(Mark(h)) <=> h[1] = "head") /\ (Protected(Mark(h)) <=> h[1] = "head" /\ h[3])
      /\ Value(Mark(x)) = x[2] /\ Value(Mark(v)) = v[2]
  BY MarkFacts
<1> QED
  BY <1>1, <1>2, <1>3

\* An archive of n files, and what the heads say of it.
Archived(f, n) ==
    /\ Listed(f) /\ n \in Nat \ {0} /\ Len(f) >= n + 4
    /\ IsHead(f[1]) /\ Value(f[1]) = n + 2 /\ Value(f[2]) = n + 2
    /\ \A k \in 3..n + 2 : f[k] = Mark(<<"data", k - 2>>)
Finishes(n, p) == [Payload(n) EXCEPT ![1] = FHead(n + 2, p)]

LEMMA PayloadLists ==
  ASSUME NEW n \in Nat \ {0}
  PROVE  /\ Payload(n) = [k \in 1..n + 3 |-> Payload(n)[k]] /\ Listed(Payload(n)) /\ Len(Payload(n)) = n + 3
         /\ Payload(n)[2] = XHead(n + 2) /\ \A k \in 3..n + 2 : Payload(n)[k] = Mark(<<"data", k - 2>>)
<1> DEFINE Cell(k) == CASE k = 1 -> FHead(0, FALSE)
                        [] k = 2 -> XHead(n + 2)
                        [] k \in 3..n + 2 -> Mark(<<"data", k - 2>>)
                        [] k = n + 3 -> Mark(<<"cdir", n>>)
           u == [k \in 1..n + 3 |-> Cell(k)]
<1>1. Payload(n) = u
  BY DEF Payload
<1>2. 2 \in 1..n + 3 /\ 2 \notin 3..n + 2 /\ 2 # 1 /\ 2 # n + 3
  OBVIOUS
<1>3. Cell(2) = XHead(n + 2)
  BY <1>2
<1>4. ASSUME NEW k \in 3..n + 2 PROVE Cell(k) = Mark(<<"data", k - 2>>) /\ k \in 1..n + 3
  <2>1. k \in 1..n + 3 /\ k # 1 /\ k # 2 /\ k # n + 3
    OBVIOUS
  <2> QED
    BY <2>1
<1> HIDE DEF Cell
<1>5. u = [k \in 1..n + 3 |-> u[k]] /\ u[2] = XHead(n + 2) /\ \A k \in 3..n + 2 : u[k] = Mark(<<"data", k - 2>>)
  BY <1>2, <1>3, <1>4
<1> HIDE DEF u
<1>6. Listed(u) /\ Len(u) = n + 3
  BY <1>5, ListOf
<1> QED
  BY <1>1, <1>5, <1>6

LEMMA PayloadFacts ==
  ASSUME NEW n \in Nat \ {0}, NEW p \in BOOLEAN, NEW w, w = Finishes(n, p)
  PROVE  /\ Payloads(w) /\ Len(w) = n + 3 /\ w[1] = FHead(n + 2, p) /\ w[2] = XHead(n + 2)
         /\ \A k \in 3..n + 2 : w[k] = Mark(<<"data", k - 2>>)
<1> DEFINE u == Payload(n)
<1>1. u = [k \in 1..n + 3 |-> u[k]] /\ u[2] = XHead(n + 2) /\ \A k \in 3..n + 2 : u[k] = Mark(<<"data", k - 2>>)
  BY PayloadLists
<1>2. w = [u EXCEPT ![1] = FHead(n + 2, p)]
  BY DEF Finishes
<1> HIDE DEF u
<1>3. w = [k \in 1..n + 3 |-> IF k = 1 THEN FHead(n + 2, p) ELSE u[k]]
  BY <1>1, <1>2
<1>4. w[1] = FHead(n + 2, p) /\ w[2] = u[2] /\ (\A k \in 3..n + 2 : w[k] = u[k]) /\ w = [k \in 1..n + 3 |-> w[k]]
  BY <1>3
<1>5. Listed(w) /\ Len(w) = n + 3
  BY <1>4, ListOf
<1>6. IsHead(w[1]) /\ Value(w[1]) = n + 2
  BY <1>4, HeadMarks
<1>7. w # <<>>
  BY <1>5, NoneListed
<1>8. Len(w) - 1 = n + 2
  BY <1>5
<1>9. Payloads(w)
  BY <1>5, <1>6, <1>7, <1>8 DEF Payloads
<1> QED
  BY <1>1, <1>4, <1>5, <1>9

LEMMA FinishedIs ==
  ASSUME NEW n \in Nat \ {0}, NEW p \in BOOLEAN
  PROVE  Finished(n, p) = IF p THEN Protect(Finishes(n, p)) ELSE Finishes(n, p) \o <<Finishes(n, p)[1]>>
<1>1. Len(Payload(n)) - 1 = n + 2
  BY PayloadLists
<1>2. Finishes(n, p) = [Payload(n) EXCEPT ![1] = FHead(Len(Payload(n)) - 1, p)]
  BY <1>1 DEF Finishes
<1> DEFINE x == [Payload(n) EXCEPT ![1] = FHead(Len(Payload(n)) - 1, p)]
<1>3. Finished(n, p) = IF p THEN Protect(x) ELSE x \o <<x[1]>>
  BY DEF Finished, Closed
<1> HIDE DEF x
<1>4. Finishes(n, p) = x
  BY <1>2 DEF x
<1> QED
  BY <1>3, <1>4

LEMMA ArchiveFacts ==
  ASSUME StorageAssumption, NEW n \in Nat \ {0}, NEW p \in BOOLEAN, NEW f, f = Finished(n, p)
  PROVE  /\ Archived(f, n) /\ PLen(f) = n + 3 /\ Exists(f)
         /\ Protected(f[1]) <=> p
         /\ p => f = Protect(Finishes(n, p)) /\ VerifyDP(f)
<1> DEFINE w == Finishes(n, p)
<1>1. /\ Payloads(w) /\ Len(w) = n + 3 /\ w[1] = FHead(n + 2, p) /\ w[2] = XHead(n + 2)
      /\ \A k \in 3..n + 2 : w[k] = Mark(<<"data", k - 2>>)
  BY PayloadFacts
<1>2. f = IF p THEN Protect(w) ELSE w \o <<w[1]>>
  BY FinishedIs
<1> HIDE DEF w
<1>3. Listed(w) /\ w # <<>>
  BY <1>1 DEF Payloads
<1>4. Listed(f) /\ Len(f) >= n + 4 /\ \A k \in 1..n + 3 : f[k] = w[k]
  <2>1. CASE p
    <3> DEFINE s == SecsIn(w) * SECTOR
               d == Calc(SecsIn(w)) * SECTOR
    <3>1. /\ Listed(Padded(w)) /\ Len(w) < s /\ SecsIn(w) \in Nat \ {0} /\ s \in Nat
          /\ \A k \in 1..Len(w) : Padded(w)[k] = w[k]
      BY <1>3, PaddedLists
    <3>2. d \in Nat
      BY CalcOf, Rows
    <3>3. /\ Listed(Protect(w)) /\ Len(Protect(w)) = s + d + SecsIn(w) + 2
          /\ \A k \in 1..s : Protect(w)[k] = Padded(w)[k]
      BY <1>3, <3>1, <3>2, Layout
    <3> HIDE DEF s, d
    <3>4. \A k \in 1..n + 3 : k \in 1..s /\ k \in 1..Len(w)
      BY <1>1, <3>1
    <3> QED
      BY <1>1, <1>2, <2>1, <3>1, <3>2, <3>3, <3>4
  <2>2. CASE ~p
    <3> DEFINE t == <<w[1]>>
               g == w \o t
    <3>1. Listed(t) /\ Len(t) = 1
      BY OneListed
    <3>2. f = g
      BY <1>2, <2>2
    <3> HIDE DEF t
    <3>3. /\ Listed(g) /\ Len(g) = Len(w) + Len(t)
          /\ \A k \in 1..Len(w) + Len(t) : g[k] = IF k <= Len(w) THEN w[k] ELSE t[k - Len(w)]
      BY <1>3, <3>1, JoinedLists
    <3> HIDE DEF g
    <3>4. \A k \in 1..n + 3 : k \in 1..Len(w) + Len(t) /\ k <= Len(w)
      BY <1>1, <3>1
    <3>5. Len(g) >= n + 4
      BY <1>1, <3>1, <3>3
    <3> QED
      BY <3>2, <3>3, <3>4, <3>5
  <2> QED
    BY <2>1, <2>2
<1>5. 1 \in 1..n + 3 /\ 2 \in 1..n + 3 /\ \A k \in 3..n + 2 : k \in 1..n + 3
  OBVIOUS
<1>6. f[1] = FHead(n + 2, p) /\ f[2] = XHead(n + 2) /\ \A k \in 3..n + 2 : f[k] = Mark(<<"data", k - 2>>)
  BY <1>1, <1>4, <1>5
<1>7. IsHead(f[1]) /\ Value(f[1]) = n + 2 /\ Value(f[2]) = n + 2 /\ (Protected(f[1]) <=> p)
  BY <1>6, HeadMarks
<1>8. PLen(f) = n + 3
  BY <1>7 DEF PLen
<1>9. Exists(f)
  BY <1>4, OneListed DEF Exists, Absent
<1>10. Archived(f, n)
  BY <1>4, <1>6, <1>7 DEF Archived
<1>11. p => f = Protect(w) /\ VerifyDP(f)
  BY <1>1, <1>2, ProtectGuards
<1> QED
  BY <1>7, <1>8, <1>9, <1>10, <1>11 DEF w

\* A file that has the cells of another one from a place to a place, and one that ends there.
Agreeing(a, f, lo, hi) == Listed(a) /\ Len(a) >= hi /\ \A k \in lo..hi : a[k] = f[k]
WrittenTo(a, f, lo, hi) == Listed(a) /\ Len(a) = hi /\ \A k \in lo..hi : a[k] = f[k]

LEMMA PutCellFacts ==
  ASSUME NEW f, Listed(f), NEW at \in Nat \ {0}, NEW cell
  PROVE  /\ Listed(PutCell(f, at, cell)) /\ Len(PutCell(f, at, cell)) = IF at > Len(f) THEN at ELSE Len(f)
         /\ PutCell(f, at, cell)[at] = cell
         /\ \A k \in 1..Len(f) : k # at => PutCell(f, at, cell)[k] = f[k]
<1> DEFINE p == PutCell(f, at, cell)
           m == IF at > Len(f) THEN at ELSE Len(f)
<1>1. Len(f) \in Nat
  BY ListFacts
<1>2. m \in Nat /\ at \in 1..m /\ \A k \in 1..Len(f) : k \in 1..m
  BY <1>1
<1>3. p = [k \in 1..m |-> p[k]] /\ \A k \in 1..m : p[k] = IF k = at THEN cell ELSE IF k <= Len(f) THEN f[k] ELSE Hole
  BY DEF PutCell
<1> HIDE DEF p
<1>4. p[at] = cell /\ \A k \in 1..Len(f) : k # at => p[k] = f[k]
  <2> HIDE DEF m
  <2> QED
    BY <1>1, <1>2, <1>3
<1>5. Listed(p) /\ Len(p) = m
  BY <1>2, <1>3, ListOf
<1> QED
  BY <1>4, <1>5 DEF p

LEMMA WriteOn ==
  ASSUME NEW a, NEW f, NEW lo \in Nat \ {0}, NEW hi \in Nat, WrittenTo(a, f, lo, hi)
  PROVE  WrittenTo(PutCell(a, hi + 1, f[hi + 1]), f, lo, hi + 1)
<1> DEFINE c == f[hi + 1]
           p == PutCell(a, hi + 1, c)
<1>1. Listed(a) /\ Len(a) = hi /\ \A k \in lo..hi : a[k] = f[k]
  BY DEF WrittenTo
<1>2. /\ Listed(p) /\ Len(p) = IF hi + 1 > Len(a) THEN hi + 1 ELSE Len(a)
      /\ p[hi + 1] = c
      /\ \A k \in 1..Len(a) : k # hi + 1 => p[k] = a[k]
  <2> DEFINE e == hi + 1
  <2>1. e \in Nat \ {0}
    OBVIOUS
  <2> HIDE DEF e
  <2>2. /\ Listed(PutCell(a, e, c)) /\ Len(PutCell(a, e, c)) = IF e > Len(a) THEN e ELSE Len(a)
        /\ PutCell(a, e, c)[e] = c
        /\ \A k \in 1..Len(a) : k # e => PutCell(a, e, c)[k] = a[k]
    BY <1>1, <2>1, PutCellFacts
  <2> QED
    BY <2>2 DEF e
<1> HIDE DEF p
<1>3. \A k \in lo..hi + 1 : p[k] = f[k]
  <2> TAKE k \in lo..hi + 1
  <2>1. CASE k = hi + 1
    BY <2>1, <1>2
  <2>2. CASE k # hi + 1
    <3>1. k \in lo..hi /\ k \in 1..hi
      BY <2>2
    <3> QED
      BY <3>1, <2>2, <1>1, <1>2
  <2> QED
    BY <2>1, <2>2
<1> QED
  BY <1>1, <1>2, <1>3 DEF WrittenTo, p, c

LEMMA WriteBefore ==
  ASSUME NEW a, NEW f, NEW lo \in Nat \ {0}, NEW hi \in Nat, lo <= hi, WrittenTo(a, f, lo + 1, hi)
  PROVE  WrittenTo(PutCell(a, lo, f[lo]), f, lo, hi)
<1> DEFINE c == f[lo]
           p == PutCell(a, lo, c)
<1>1. Listed(a) /\ Len(a) = hi /\ \A k \in lo + 1..hi : a[k] = f[k]
  BY DEF WrittenTo
<1>2. /\ Listed(p) /\ Len(p) = IF lo > Len(a) THEN lo ELSE Len(a)
      /\ p[lo] = c
      /\ \A k \in 1..Len(a) : k # lo => p[k] = a[k]
  BY <1>1, PutCellFacts
<1> HIDE DEF p
<1>3. \A k \in lo..hi : p[k] = f[k]
  <2> TAKE k \in lo..hi
  <2>1. CASE k = lo
    BY <2>1, <1>2
  <2>2. CASE k # lo
    <3>1. k \in lo + 1..hi /\ k \in 1..hi
      BY <2>2
    <3> QED
      BY <3>1, <2>2, <1>1, <1>2
  <2> QED
    BY <2>1, <2>2
<1> QED
  BY <1>1, <1>2, <1>3 DEF WrittenTo, p, c

LEMMA WriteIn ==
  ASSUME NEW a, NEW f, NEW lo \in Nat \ {0}, NEW hi \in Nat, NEW at \in 1..hi, Agreeing(a, f, lo, hi)
  PROVE  Agreeing(PutCell(a, at, f[at]), f, lo, hi)
<1> DEFINE c == f[at]
           p == PutCell(a, at, c)
<1>1. Listed(a) /\ Len(a) >= hi /\ \A k \in lo..hi : a[k] = f[k]
  BY DEF Agreeing
<1>2. /\ Listed(p) /\ Len(p) = IF at > Len(a) THEN at ELSE Len(a)
      /\ p[at] = c
      /\ \A k \in 1..Len(a) : k # at => p[k] = a[k]
  BY <1>1, PutCellFacts
<1> HIDE DEF p
<1>3. Len(a) \in Nat
  BY <1>1, ListFacts
<1>4. \A k \in 1..hi : k # at => p[k] = a[k]
  <2> TAKE k \in 1..hi
  <2>1. k \in 1..Len(a)
    BY <1>1, <1>3
  <2> QED
    BY <2>1, <1>2
<1>5. \A k \in lo..hi : p[k] = f[k]
  <2> TAKE k \in lo..hi
  <2>1. k \in 1..hi
    OBVIOUS
  <2> QED
    BY <2>1, <1>1, <1>2, <1>4
<1>6. Len(p) >= hi
  BY <1>1, <1>2, <1>3
<1> QED
  BY <1>2, <1>4, <1>5, <1>6 DEF Agreeing, p, c

LEMMA CutAgrees ==
  ASSUME NEW a, NEW f, NEW hi \in Nat, Agreeing(a, f, 1, hi)
  PROVE  WrittenTo(SubSeq(a, 1, hi), f, 1, hi)
<1>1. Listed(a) /\ Len(a) >= hi /\ (\A k \in 1..hi : a[k] = f[k]) /\ Len(a) \in Nat
  BY ListFacts DEF Agreeing
<1> DEFINE m == 0
           x == SubSeq(a, m + 1, hi)
<1>2. m \in Nat /\ m <= hi /\ hi <= Len(a) /\ hi - m = hi /\ m + 1 = 1 /\ \A k \in Nat : m + k = k
  BY <1>1
<1> HIDE DEF m
<1>3. /\ Listed(x) /\ Len(x) = hi - m
      /\ \A k \in 1..hi - m : x[k] = a[m + k]
  <2>1. Listed(a) /\ m \in Nat /\ m <= hi /\ hi <= Len(a)
    BY <1>1, <1>2
  <2> QED
    BY <2>1, PartOfList
<1>4. Listed(x) /\ Len(x) = hi /\ \A k \in 1..hi : x[k] = f[k]
  BY <1>1, <1>2, <1>3
<1>5. x = SubSeq(a, 1, hi)
  BY <1>2
<1> HIDE DEF x
<1> QED
  BY <1>4, <1>5 DEF WrittenTo

LEMMA WrittenToEnd ==
  ASSUME NEW a, NEW f, Listed(f), WrittenTo(a, f, 1, Len(f))
  PROVE  a = f
BY SameLists DEF WrittenTo
------------------------------------------------------------------------------
LEMMA RecoverFileFacts ==
  ASSUME NEW n, NEW f, Archived(f, n)
  PROVE  /\ Listed(RecoverFile(f)) /\ Len(RecoverFile(f)) = 5 + (Len(f) - (n + 2))
         /\ RecoverFile(f)[2] = f[1] /\ RecoverFile(f)[3] = f[2]
         /\ Value(RecoverFile(f)[4]) = n + 2 /\ Value(RecoverFile(f)[5]) = Len(f) - (n + 2)
         /\ \A k \in 1..Len(f) - (n + 2) : RecoverFile(f)[5 + k] = f[(n + 2) + k]
<1> DEFINE c == n + 2
           e == Len(f) - c
           h == <<Mark(<<"UR2!">>), f[1], f[2], Word(c), Word(e)>>
           t == SubSeq(f, c + 1, Len(f))
           r == h \o t
<1>1. Listed(f) /\ n \in Nat /\ Len(f) >= n + 4 /\ Value(f[2]) = n + 2 /\ Len(f) \in Nat
  BY ListFacts DEF Archived
<1>2. c \in Nat /\ c <= Len(f) /\ e \in Nat
  BY <1>1
<1>3. RecoverFile(f) = r
  BY <1>1 DEF RecoverFile
<1>4. Listed(h) /\ Len(h) = 5 /\ h[2] = f[1] /\ h[3] = f[2] /\ h[4] = Word(c) /\ h[5] = Word(e)
  <2>1. h \in Seq({h[k] : k \in 1..5})
    OBVIOUS
  <2>2. Listed(h)
    BY <2>1 DEF Listed
  <2> QED
    BY <2>2
<1>5. Value(Word(c)) = c /\ Value(Word(e)) = e
  BY HeadMarks
<1> HIDE DEF c, h
<1>6. /\ Listed(t) /\ Len(t) = e /\ \A k \in 1..e : t[k] = f[c + k]
  <2>1. c \in Nat /\ Len(f) \in Nat /\ c <= Len(f) /\ Len(f) <= Len(f)
    BY <1>1, <1>2
  <2> QED
    BY <1>1, <2>1, PartOfList
<1> HIDE DEF t, e
<1>7. /\ Listed(r) /\ Len(r) = 5 + e
      /\ \A k \in 1..5 + e : r[k] = IF k <= 5 THEN h[k] ELSE t[k - 5]
  <2>1. Listed(h) /\ Listed(t)
    BY <1>4, <1>6
  <2>2. /\ Listed(r) /\ Len(r) = Len(h) + Len(t)
        /\ \A k \in 1..Len(h) + Len(t) : r[k] = IF k <= Len(h) THEN h[k] ELSE t[k - Len(h)]
    BY <2>1, JoinedLists
  <2>3. Len(h) = 5 /\ Len(t) = e
    BY <1>4, <1>6
  <2> HIDE DEF r
  <2> QED
    BY <2>2, <2>3
<1> HIDE DEF r
<1>8. \A k \in 1..5 : r[k] = h[k]
  <2> TAKE k \in 1..5
  <2>1. k \in 1..5 + e /\ k <= 5
    BY <1>2
  <2> QED
    BY <2>1, <1>7
<1>9. \A k \in 1..e : r[5 + k] = f[c + k]
  <2> TAKE k \in 1..e
  <2>1. 5 + k \in 1..5 + e /\ ~(5 + k <= 5) /\ (5 + k) - 5 = k
    BY <1>2
  <2> QED
    BY <2>1, <1>6, <1>7
<1>10. r[2] = f[1] /\ r[3] = f[2] /\ r[4] = Word(c) /\ r[5] = Word(e)
  BY <1>4, <1>8
<1> QED
  BY <1>3, <1>5, <1>7, <1>9, <1>10 DEF c, e

\* The tail of a recover file, which is that of the archive.
LEMMA TailOfRecoverFile ==
  ASSUME NEW n, NEW f, Archived(f, n), NEW l, l = 5 + (Len(f) - (n + 2))
  PROVE  /\ Listed(SubSeq(RecoverFile(f), 6, l)) /\ Len(SubSeq(RecoverFile(f), 6, l)) = Len(f) - (n + 2)
         /\ \A k \in 1..Len(f) - (n + 2) : SubSeq(RecoverFile(f), 6, l)[k] = f[(n + 2) + k]
<1> DEFINE c == n + 2
           e == Len(f) - c
           r == RecoverFile(f)
           m == 5
           x == SubSeq(r, m + 1, l)
<1>1. /\ Listed(r) /\ Len(r) = 5 + e
      /\ \A k \in 1..e : r[5 + k] = f[c + k]
  BY RecoverFileFacts
<1>2. e \in Nat
  BY ListFacts DEF Archived
<1> HIDE DEF r, e, c
<1>3. l = 5 + e
  BY DEF e, c
<1>4. m \in Nat /\ m <= l /\ l \in Nat /\ l <= Len(r) /\ l - m = e /\ m + 1 = 6 /\ m = 5
  BY <1>1, <1>2, <1>3
<1> HIDE DEF m
<1>5. /\ Listed(x) /\ Len(x) = l - m
      /\ \A k \in 1..l - m : x[k] = r[m + k]
  <2>1. Listed(r) /\ m \in Nat /\ l \in Nat /\ m <= l /\ l <= Len(r)
    BY <1>1, <1>4
  <2> QED
    BY <2>1, PartOfList
<1>6. Listed(x) /\ Len(x) = e /\ \A k \in 1..e : x[k] = f[c + k]
  BY <1>1, <1>4, <1>5
<1>7. x = SubSeq(r, 6, l)
  BY <1>4
<1> HIDE DEF x
<1> QED
  BY <1>6, <1>7 DEF r, e, c

LEMMA HeadsBack ==
  ASSUME NEW a, NEW f, NEW c \in Nat, c >= 3, Agreeing(a, f, 3, c)
  PROVE  Agreeing(PutCell(PutCell(a, 1, f[1]), 2, f[2]), f, 1, c)
<1> DEFINE a1 == PutCell(a, 1, f[1])
           a2 == PutCell(a1, 2, f[2])
<1>1. 3 \in Nat \ {0} /\ 1 \in 1..c /\ 2 \in 1..c /\ 1 \in Nat \ {0} /\ 2 \in Nat \ {0}
  OBVIOUS
<1>2. Agreeing(a1, f, 3, c)
  BY <1>1, WriteIn
<1>3. a1[1] = f[1]
  BY <1>1, PutCellFacts DEF Agreeing
<1>4. Agreeing(a2, f, 3, c)
  <2> HIDE DEF a1
  <2> QED
    BY <1>1, <1>2, WriteIn
<1>5. Listed(a1) /\ Len(a1) >= c /\ Len(a1) \in Nat
  <2> HIDE DEF a1
  <2> QED
    BY <1>2, ListFacts DEF Agreeing
<1>6. a2[2] = f[2] /\ \A k \in 1..Len(a1) : k # 2 => a2[k] = a1[k]
  <2> HIDE DEF a1
  <2> QED
    BY <1>1, <1>5, PutCellFacts
<1>7. Agreeing(a2, f, 3, c) /\ a2[2] = f[2] /\ \A k \in 1..c : k # 2 => a2[k] = a1[k]
  <2> HIDE DEF a1, a2
  <2>1. \A k \in 1..c : k \in 1..Len(a1)
    BY <1>5
  <2> QED
    BY <2>1, <1>4, <1>6
<1> HIDE DEF a1, a2
<1>8. Listed(a2) /\ Len(a2) >= c /\ \A k \in 3..c : a2[k] = f[k]
  BY <1>7 DEF Agreeing
<1>9. \A k \in 1..c : a2[k] = f[k]
  <2> TAKE k \in 1..c
  <2>1. k = 1 \/ k = 2 \/ k \in 3..c
    OBVIOUS
  <2> QED
    BY <2>1, <1>1, <1>7, <1>8, <1>3
<1> QED
  BY <1>8, <1>9 DEF Agreeing, a1, a2

LEMMA Recovered ==
  ASSUME NEW n, NEW f, Archived(f, n), NEW c, c = n + 2, NEW a, Agreeing(a, f, 3, c)
  PROVE  Recover(a, RecoverFile(f)) = f
<1> DEFINE r == RecoverFile(f)
           a2 == PutCell(PutCell(a, 1, r[2]), 2, r[3])
           u == SubSeq(a2, 1, c)
           t == SubSeq(r, 6, 5 + (Len(f) - c))
           x == u \o t
<1>1. Listed(f) /\ n \in Nat \ {0} /\ Len(f) >= n + 4 /\ Len(f) \in Nat /\ c \in Nat /\ 1 \in 1..c /\ 2 \in 1..c
  BY ListFacts DEF Archived
<1>2. r[2] = f[1] /\ r[3] = f[2] /\ Value(r[4]) = c /\ Value(r[5]) = Len(f) - c
  BY RecoverFileFacts
<1>3. Recover(a, r) = x
  BY <1>2 DEF Recover
<1>4. /\ Listed(t) /\ Len(t) = Len(f) - c
      /\ \A k \in 1..Len(f) - c : t[k] = f[c + k]
  <2> DEFINE l == 5 + (Len(f) - (n + 2))
  <2> HIDE DEF l
  <2>1. l = 5 + (Len(f) - (n + 2)) /\ l = 5 + (Len(f) - c)
    BY DEF l
  <2>2. /\ Listed(SubSeq(r, 6, l)) /\ Len(SubSeq(r, 6, l)) = Len(f) - (n + 2)
        /\ \A k \in 1..Len(f) - (n + 2) : SubSeq(r, 6, l)[k] = f[(n + 2) + k]
    BY <2>1, TailOfRecoverFile
  <2>3. t = SubSeq(r, 6, l)
    BY <2>1
  <2> HIDE DEF t
  <2> QED
    BY <2>2, <2>3
<1> HIDE DEF r
<1>5. Agreeing(a, f, 3, c)
  OBVIOUS
<1>6. a2 = PutCell(PutCell(a, 1, f[1]), 2, f[2])
  BY <1>2
<1> HIDE DEF a2
<1>7. c >= 3
  BY DEF Archived
<1>8. Agreeing(a2, f, 1, c)
  BY <1>1, <1>5, <1>6, <1>7, HeadsBack
<1>9. WrittenTo(u, f, 1, c)
  BY <1>1, <1>8, CutAgrees
<1>10. Listed(u) /\ Len(u) = c /\ \A k \in 1..c : u[k] = f[k]
  BY <1>9 DEF WrittenTo
<1> HIDE DEF u, t
<1>11. /\ Listed(x) /\ Len(x) = c + (Len(f) - c)
       /\ \A k \in 1..c + (Len(f) - c) : x[k] = IF k <= c THEN u[k] ELSE t[k - c]
  <2>1. Listed(u) /\ Listed(t)
    BY <1>4, <1>10
  <2>2. /\ Listed(x) /\ Len(x) = Len(u) + Len(t)
        /\ \A k \in 1..Len(u) + Len(t) : x[k] = IF k <= Len(u) THEN u[k] ELSE t[k - Len(u)]
    BY <2>1, JoinedLists
  <2>3. Len(u) = c /\ Len(t) = Len(f) - c
    BY <1>4, <1>10
  <2> HIDE DEF x
  <2> QED
    BY <2>2, <2>3
<1> HIDE DEF x
<1>12. c + (Len(f) - c) = Len(f)
  BY <1>1
<1>13. \A k \in 1..Len(f) : x[k] = f[k]
  <2> TAKE k \in 1..Len(f)
  <2>1. CASE k <= c
    <3>1. k \in 1..c
      BY <2>1, <1>1
    <3> QED
      BY <2>1, <3>1, <1>10, <1>11, <1>12
  <2>2. CASE ~(k <= c)
    <3>1. k - c \in 1..Len(f) - c /\ c + (k - c) = k
      BY <2>2, <1>1
    <3>2. t[k - c] = f[c + (k - c)]
      BY <3>1, <1>4
    <3> QED
      BY <2>2, <3>1, <3>2, <1>11, <1>12
  <2> QED
    BY <2>1, <2>2
<1>14. x = f
  BY <1>1, <1>11, <1>12, <1>13, SameLists
<1> QED
  BY <1>3, <1>14 DEF r

LEMMA TailOf ==
  ASSUME NEW s, Listed(s), Len(s) # 0
  PROVE  /\ Listed(Tail(s)) /\ Len(Tail(s)) = Len(s) - 1
         /\ \A k \in 1..Len(s) - 1 : Tail(s)[k] = s[k + 1]
<1>1. PICK S : s \in Seq(S)
  BY DEF Listed
<1>2. s # <<>>
  BY NoneListed
<1>3. Tail(s) \in Seq(S) /\ Len(Tail(s)) = Len(s) - 1
  BY <1>1, <1>2
<1>4. \A k \in 1..Len(s) - 1 : Tail(s)[k] = s[k + 1]
  BY <1>1, <1>2
<1> QED
  BY <1>3, <1>4 DEF Listed

\* What is left of a plan that is at the j-th cell of its i-th request.
From(cells, j) == [k \in 1..Len(cells) - j |-> cells[k + j]]
Later(one, j) == IF j = 0 THEN one ELSE WriteAt(one.file, one.at + j, From(one.cells, j))
Left(plan, i, j) == [k \in 1..(Len(plan) - i) + 1 |-> IF k = 1 THEN Later(plan[i], j) ELSE plan[(k + i) - 1]]
At(plan, i, j) == todo = Left(plan, i, j)

LEMMA LeftFacts ==
  ASSUME NEW plan, Listed(plan), NEW i \in 1..Len(plan), NEW j
  PROVE  /\ Listed(Left(plan, i, j)) /\ Len(Left(plan, i, j)) = (Len(plan) - i) + 1 /\ Left(plan, i, j) # <<>>
         /\ Left(plan, i, j)[1] = Later(plan[i], j)
         /\ \A k \in 2..(Len(plan) - i) + 1 : Left(plan, i, j)[k] = plan[(k + i) - 1]
<1> DEFINE l == Left(plan, i, j)
           m == (Len(plan) - i) + 1
<1>1. m \in Nat \ {0} /\ 1 \in 1..m /\ \A k \in 2..m : k \in 1..m /\ k # 1
  BY ListFacts
<1> HIDE DEF m
<1>2. l = [k \in 1..m |-> l[k]] /\ \A k \in 1..m : l[k] = IF k = 1 THEN Later(plan[i], j) ELSE plan[(k + i) - 1]
  BY DEF Left, m
<1> HIDE DEF l
<1>3. Listed(l) /\ Len(l) = m
  BY <1>1, <1>2, ListOf
<1>4. l # <<>>
  BY <1>1, <1>3, NoneListed
<1>5. l[1] = Later(plan[i], j) /\ \A k \in 2..m : l[k] = plan[(k + i) - 1]
  BY <1>1, <1>2
<1> QED
  BY <1>3, <1>4, <1>5 DEF l, m

LEMMA LeftWhole ==
  ASSUME NEW plan, Listed(plan), Len(plan) # 0
  PROVE  Left(plan, 1, 0) = plan
<1>1. Len(plan) \in Nat /\ 1 \in 1..Len(plan)
  BY ListFacts
<1> DEFINE l == Left(plan, 1, 0)
<1>2. /\ Listed(l) /\ Len(l) = (Len(plan) - 1) + 1
      /\ l[1] = Later(plan[1], 0)
      /\ \A k \in 2..(Len(plan) - 1) + 1 : l[k] = plan[(k + 1) - 1]
  BY <1>1, LeftFacts
<1>3. Later(plan[1], 0) = plan[1]
  BY DEF Later
<1> HIDE DEF l
<1>4. \A k \in 1..Len(plan) : l[k] = plan[k]
  <2> TAKE k \in 1..Len(plan)
  <2>1. CASE k = 1
    BY <2>1, <1>2, <1>3
  <2>2. CASE k # 1
    <3>1. k \in 2..(Len(plan) - 1) + 1 /\ (k + 1) - 1 = k
      BY <2>2, <1>1
    <3> QED
      BY <3>1, <1>2
  <2> QED
    BY <2>1, <2>2
<1>5. Len(l) = Len(plan)
  BY <1>1, <1>2
<1>6. l = plan
  BY <1>2, <1>4, <1>5, SameLists
<1> QED
  BY <1>6 DEF l

LEMMA LeftNone ==
  ASSUME NEW plan, Listed(plan), NEW i, i = Len(plan) + 1, NEW j
  PROVE  Left(plan, i, j) = <<>>
<1> DEFINE l == Left(plan, i, j)
           m == (Len(plan) - i) + 1
<1>1. m = 0
  BY ListFacts
<1>2. l = [k \in 1..m |-> l[k]]
  BY DEF Left
<1> HIDE DEF l, m
<1>3. Listed(l) /\ Len(l) = 0
  BY <1>1, <1>2, ListOf
<1>4. l = <<>>
  BY <1>3, NoneListed
<1> QED
  BY <1>4 DEF l

LEMMA LeftTail ==
  ASSUME NEW plan, Listed(plan), NEW i \in 1..Len(plan), NEW j
  PROVE  Tail(Left(plan, i, j)) = Left(plan, i + 1, 0)
<1> DEFINE l == Left(plan, i, j)
           m == (Len(plan) - i) + 1
           t == Tail(l)
           r == Left(plan, i + 1, 0)
<1>1. /\ Listed(l) /\ Len(l) = m
      /\ \A k \in 2..m : l[k] = plan[(k + i) - 1]
  BY LeftFacts
<1>2. Len(plan) \in Nat /\ m \in Nat \ {0}
  BY ListFacts
<1> HIDE DEF l
<1>3. /\ Listed(t) /\ Len(t) = m - 1
      /\ \A k \in 1..m - 1 : t[k] = l[k + 1]
  <2> HIDE DEF m
  <2> QED
    BY <1>1, <1>2, TailOf
<1> HIDE DEF t
<1>4. CASE i = Len(plan)
  <2>1. r = <<>>
    BY <1>4, LeftNone
  <2>2. m - 1 = 0
    BY <1>2, <1>4
  <2>3. t = <<>>
    BY <1>3, <2>2, NoneListed
  <2> QED
    BY <2>1, <2>3 DEF t, l
<1>5. CASE i # Len(plan)
  <2>1. i + 1 \in 1..Len(plan)
    BY <1>2, <1>5
  <2>2. /\ Listed(r) /\ Len(r) = (Len(plan) - (i + 1)) + 1
        /\ r[1] = Later(plan[i + 1], 0)
        /\ \A k \in 2..(Len(plan) - (i + 1)) + 1 : r[k] = plan[(k + (i + 1)) - 1]
    <3> DEFINE e == i + 1
    <3> HIDE DEF e
    <3>1. e \in 1..Len(plan)
      BY <2>1 DEF e
    <3>2. /\ Listed(Left(plan, e, 0)) /\ Len(Left(plan, e, 0)) = (Len(plan) - e) + 1
          /\ Left(plan, e, 0)[1] = Later(plan[e], 0)
          /\ \A k \in 2..(Len(plan) - e) + 1 : Left(plan, e, 0)[k] = plan[(k + e) - 1]
      BY <3>1, LeftFacts
    <3> QED
      BY <3>2 DEF e
  <2>3. Later(plan[i + 1], 0) = plan[i + 1]
    BY DEF Later
  <2> HIDE DEF r
  <2>4. (Len(plan) - (i + 1)) + 1 = m - 1
    BY <1>2
  <2>5. ASSUME NEW k \in 1..m - 1 PROVE t[k] = r[k]
    <3>1. k + 1 \in 2..m /\ ((k + 1) + i) - 1 = k + i
      BY <1>2
    <3>2. t[k] = plan[k + i]
      BY <3>1, <1>1, <1>3
    <3>3. CASE k = 1
      <4>1. k + i = i + 1
        BY <3>3, <1>2
      <4> QED
        BY <4>1, <3>2, <3>3, <2>2, <2>3
    <3>4. CASE k # 1
      <4>1. k \in 2..m - 1 /\ (k + (i + 1)) - 1 = k + i
        BY <3>4, <1>2
      <4>2. r[k] = plan[k + i]
        BY <4>1, <2>2, <2>4
      <4> QED
        BY <4>2, <3>2
    <3> QED
      BY <3>3, <3>4
  <2>6. Len(r) = m - 1
    BY <2>2, <2>4
  <2>7. t = r
    BY <1>3, <2>2, <2>5, <2>6, SameLists
  <2> QED
    BY <2>7 DEF t, l, r
<1> QED
  BY <1>4, <1>5

LEMMA Fields ==
  ASSUME NEW which, NEW at, NEW cells
  PROVE  /\ WriteAt(which, at, cells).do = "write" /\ WriteAt(which, at, cells).file = which
         /\ WriteAt(which, at, cells).at = at /\ WriteAt(which, at, cells).cells = cells
BY DEF WriteAt, Request

LEMMA DoFields ==
  ASSUME NEW what, NEW which, NEW at
  PROVE  Do(what, which, at).do = what /\ Do(what, which, at).file = which /\ Do(what, which, at).at = at
BY DEF Do, Request

LEMMA FromFacts ==
  ASSUME NEW cells, Listed(cells), NEW j \in 0..Len(cells) - 1
  PROVE  /\ Listed(From(cells, j)) /\ Len(From(cells, j)) = Len(cells) - j /\ From(cells, j) # <<>>
         /\ From(cells, j)[1] = cells[j + 1]
         /\ j = 0 => From(cells, j) = cells
         /\ j + 1 < Len(cells) => Tail(From(cells, j)) = From(cells, j + 1)
<1> DEFINE c == From(cells, j)
           m == Len(cells) - j
<1>1. m \in Nat \ {0} /\ 1 \in 1..m /\ Len(cells) \in Nat /\ j \in Nat /\ 1 + j = j + 1
  BY ListFacts
<1>2. c = [k \in 1..m |-> c[k]] /\ \A k \in 1..m : c[k] = cells[k + j]
  BY DEF From
<1>3. Listed(c) /\ Len(c) = m
  <2> HIDE DEF c, m
  <2> QED
    BY <1>1, <1>2, ListOf
<1>4. c # <<>> /\ c[1] = cells[j + 1]
  <2> HIDE DEF c, m
  <2>1. c # <<>>
    BY <1>1, <1>3, NoneListed
  <2>2. c[1] = cells[1 + j]
    BY <1>1, <1>2
  <2> QED
    BY <1>1, <2>1, <2>2
<1>5. ASSUME j = 0 PROVE c = cells
  <2> HIDE DEF c
  <2>1. m = Len(cells) /\ \A k \in 1..m : k + j = k
    BY <1>1, <1>5
  <2>2. \A k \in 1..Len(c) : c[k] = cells[k]
    BY <1>2, <1>3, <2>1
  <2> QED
    BY <1>3, <2>1, <2>2, SameLists
<1>6. ASSUME j + 1 < Len(cells) PROVE Tail(c) = From(cells, j + 1)
  <2> DEFINE t == Tail(c)
             d == From(cells, j + 1)
             n == Len(cells) - (j + 1)
  <2>1. n \in Nat /\ n = m - 1
    BY <1>1, <1>6
  <2>2. d = [k \in 1..n |-> d[k]] /\ \A k \in 1..n : d[k] = cells[k + (j + 1)]
    BY DEF From
  <2> HIDE DEF c, m
  <2>3. /\ Listed(t) /\ Len(t) = m - 1
        /\ \A k \in 1..m - 1 : t[k] = c[k + 1]
    <3>1. Listed(c) /\ Len(c) = m /\ Len(c) # 0
      BY <1>1, <1>3
    <3> QED
      BY <3>1, TailOf
  <2> HIDE DEF t, d, n
  <2>4. Listed(d) /\ Len(d) = n
    BY <2>1, <2>2, ListOf
  <2>5. \A k \in 1..n : t[k] = d[k]
    <3> TAKE k \in 1..n
    <3>1. k \in 1..m - 1 /\ k + 1 \in 1..m /\ (k + 1) + j = k + (j + 1)
      BY <1>1, <2>1
    <3> QED
      BY <3>1, <1>2, <2>2, <2>3
  <2>6. t = d
    BY <2>1, <2>3, <2>4, <2>5, SameLists
  <2> QED
    BY <2>6 DEF t, d
<1> QED
  BY <1>3, <1>4, <1>5, <1>6

\* A request that is not a write is carried out at once.
LEMMA DoStep ==
  ASSUME NEW plan, Listed(plan), NEW i \in 1..Len(plan), At(plan, i, 0), plan[i].do # "write"
  PROVE  todo # <<>> /\ todo[1] = plan[i] /\ Rest(todo) = Left(plan, i + 1, 0)
<1>1. todo = Left(plan, i, 0)
  BY DEF At
<1>2. todo # <<>> /\ todo[1] = plan[i]
  BY <1>1, LeftFacts DEF Later
<1>3. Rest(todo) = Tail(todo)
  BY <1>2 DEF Rest
<1> QED
  BY <1>1, <1>2, <1>3, LeftTail

LEMMA WriteStep ==
  ASSUME NEW plan, Listed(plan), NEW i \in 1..Len(plan), NEW cells, Listed(cells), NEW j \in 0..Len(cells) - 1, At(plan, i, j),
         NEW which, NEW at \in Nat, plan[i] = WriteAt(which, at, cells)
  PROVE  /\ todo # <<>> /\ todo[1].do = "write" /\ todo[1].file = which
         /\ \A f : Changed(f, todo[1]) = PutCell(f, at + j, cells[j + 1])
         /\ Rest(todo) = IF j + 1 < Len(cells) THEN Left(plan, i, j + 1) ELSE Left(plan, i + 1, 0)
<1> DEFINE one == todo[1]
           c == From(cells, j)
<1>1. todo = Left(plan, i, j)
  BY DEF At
<1>2. todo # <<>> /\ one = Later(plan[i], j) /\ Listed(todo)
  BY <1>1, LeftFacts
<1>3. Listed(c) /\ Len(c) = Len(cells) - j /\ c # <<>> /\ c[1] = cells[j + 1] /\ (j = 0 => c = cells)
  BY FromFacts
<1>4. Len(cells) \in Nat /\ j \in Nat
  BY ListFacts
<1>5. Later(plan[i], j) = WriteAt(which, at + j, c)
  <2>1. CASE j = 0
    <3>1. at + j = at
      BY <2>1
    <3> QED
      BY <2>1, <3>1, <1>3 DEF Later
  <2>2. CASE j # 0
    BY <2>2, Fields DEF Later
  <2> QED
    BY <2>1, <2>2
<1> HIDE DEF one, c
<1>6. one.do = "write" /\ one.file = which /\ one.at = at + j /\ one.cells = c
  BY <1>2, <1>5, Fields
<1>7. ASSUME NEW f PROVE Changed(f, one) = PutCell(f, at + j, cells[j + 1])
  BY <1>3, <1>6 DEF Changed
<1>8. Rest(todo) = IF Len(c) > 1 THEN [todo EXCEPT ![1] = WriteAt(which, (at + j) + 1, Tail(c))] ELSE Tail(todo)
  BY <1>6 DEF Rest, one
<1>9. Len(c) > 1 <=> j + 1 < Len(cells)
  BY <1>3, <1>4
<1>10. ASSUME j + 1 < Len(cells) PROVE [todo EXCEPT ![1] = WriteAt(which, (at + j) + 1, Tail(c))] = Left(plan, i, j + 1)
  <2> DEFINE e == j + 1
             w == WriteAt(which, at + e, From(cells, e))
  <2>1. Tail(c) = From(cells, e)
    BY <1>10, FromFacts DEF c
  <2>2. (at + j) + 1 = at + e /\ e # 0
    BY <1>4
  <2>3. Later(plan[i], e) = w
    BY <2>2, Fields DEF Later
  <2> HIDE DEF e, w
  <2> DEFINE m == (Len(plan) - i) + 1
             l == Left(plan, i, e)
             x == [todo EXCEPT ![1] = w]
  <2>4. Listed(l) /\ Len(l) = m /\ l[1] = w /\ \A k \in 2..m : l[k] = plan[(k + i) - 1]
    BY <2>3, LeftFacts
  <2>5. Listed(todo) /\ Len(todo) = m /\ \A k \in 2..m : todo[k] = plan[(k + i) - 1]
    <3> DEFINE r == Left(plan, i, j)
    <3>1. Listed(r) /\ Len(r) = m /\ \A k \in 2..m : r[k] = plan[(k + i) - 1]
      BY LeftFacts
    <3> HIDE DEF r
    <3> QED
      BY <1>1, <3>1 DEF r
  <2>6. m \in Nat \ {0} /\ todo = [k \in 1..m |-> todo[k]]
    BY <2>5, ListFacts
  <2> HIDE DEF m, l
  <2>7. x = [k \in 1..m |-> x[k]] /\ x[1] = w /\ \A k \in 2..m : x[k] = todo[k]
    <3>1. x = [k \in 1..m |-> IF k = 1 THEN w ELSE todo[k]]
      BY <2>6
    <3>2. 1 \in 1..m /\ \A k \in 2..m : k \in 1..m /\ k # 1
      BY <2>6
    <3> HIDE DEF x
    <3> QED
      BY <3>1, <3>2
  <2> HIDE DEF x
  <2>8. Listed(x) /\ Len(x) = m
    BY <2>6, <2>7, ListOf
  <2>9. \A k \in 1..m : x[k] = l[k]
    <3> TAKE k \in 1..m
    <3>1. CASE k = 1
      BY <3>1, <2>4, <2>7
    <3>2. CASE k # 1
      <4>1. k \in 2..m
        BY <3>2
      <4> QED
        BY <4>1, <2>4, <2>5, <2>7
    <3> QED
      BY <3>1, <3>2
  <2>10. x = l
    BY <2>4, <2>8, <2>9, SameLists
  <2>11. WriteAt(which, (at + j) + 1, Tail(c)) = w
    BY <2>1, <2>2 DEF w
  <2> QED
    BY <2>10, <2>11 DEF x, l, e
<1>11. Tail(todo) = Left(plan, i + 1, 0)
  BY <1>1, LeftTail
<1> QED
  BY <1>2, <1>6, <1>7, <1>8, <1>9, <1>10, <1>11 DEF one

------------------------------------------------------------------------------
(* The inductive invariant: where each command is in its plan, and what    *)
(* the files hold by then.                                                 *)
Proper(f, n) == n \in Nat \ {0} /\ \E p \in BOOLEAN : f = Finished(n, p)
Sane(f) == f = Absent \/ \E n \in Nat : Proper(f, n)

IncAt(n, i, j) ==
    /\ Proper(old, n) /\ Proper(new, n + 1) /\ At(Incremental(old, new), i, j)
    /\ i \in 1..11 /\ j \in Nat /\ (i \notin {3, 6, 9} => j = 0)
    /\ recneeded <=> i \in 5..10
    /\ i <= 5 => arch = old
    /\ i <= 2 => ur2 = Absent
    /\ i = 3 => WrittenTo(ur2, RecoverFile(old), 1, j) /\ j < Len(RecoverFile(old))
    /\ i \in 4..10 => ur2 = RecoverFile(old)
    /\ i = 6 => WrittenTo(arch, new, 3, (n + 2) + j) /\ j < 2
    /\ i = 7 => WrittenTo(arch, new, 3, n + 4)
    /\ i = 8 => WrittenTo(arch, new, 2, n + 4)
    /\ i = 9 => WrittenTo(arch, new, 1, (n + 4) + j) /\ j < Len(new) - (n + 4)
    /\ i >= 10 => arch = new
    /\ i = 11 => ur2 = Absent

Ending == IF Exists(old) THEN 8 ELSE 7
PutAt(n, i, j) ==
    /\ Sane(old) /\ Proper(new, n) /\ At(Replacement(old, new), i, j)
    /\ i \in 1..Ending /\ j \in Nat /\ (i \notin {3, 5} => j = 0)
    /\ ~recneeded /\ ur2 = Absent
    /\ i <= 5 => arch = old
    /\ i = 2 => tmp = <<>>
    /\ i = 3 => WrittenTo(tmp, new, 2, 1 + j) /\ j < n + 2
    /\ i = 4 => WrittenTo(tmp, new, 2, n + 3)
    /\ i = 5 => WrittenTo(tmp, new, 1, (n + 3) + j) /\ j < Len(new) - (n + 3)
    /\ i \in 6..Ending - 1 => tmp = new /\ arch = IF i = 6 THEN old ELSE Absent
    /\ i = Ending => arch = new

RecAt(n, i, j) ==
    /\ Proper(old, n) /\ new = old /\ At(RecoverInPlace(RecoverFile(old)), i, j)
    /\ i \in 1..5 /\ j \in Nat /\ (i \notin {1, 3} => j = 0)
    /\ ~recneeded
    /\ i <= 4 => ur2 = RecoverFile(old)
    /\ i = 1 => Agreeing(arch, old, 3, n + 2) /\ j < 2 /\ (j = 1 => arch[1] = old[1])
    /\ i = 2 => Agreeing(arch, old, 1, n + 2)
    /\ i = 3 => WrittenTo(arch, old, 1, (n + 2) + j) /\ j < Len(old) - (n + 2)
    /\ i >= 4 => arch = old
    /\ i = 5 => ur2 = Absent

\* What a command leaves that is not finished: the archive, or what gives it back.
Short(n) == \E j \in Nat : WrittenTo(ur2, RecoverFile(old), 1, j) /\ j < Len(RecoverFile(old))
Covered(n) == ur2 = RecoverFile(old) /\ Agreeing(arch, old, 3, n + 2)
Unfinished ==
    \/ ur2 = Absent /\ arch \in {old, new}
    \/ \E n \in Nat : Proper(old, n) /\ (Covered(n) \/ (arch = old /\ Short(n)))
Hurts ==
    /\ ur2 = Absent
    /\ \E n \in Nat \ {0} :
          LET w == Finishes(n, TRUE)
          IN  old = Protect(w) /\ Guards(arch, w) /\ OneEach(arch, w) /\ (IsHead(arch[1]) => arch[1] = w[1])

StorageInv ==
    /\ Sane(old) /\ Sane(new)
    /\ phase = "Idle" => ~recneeded /\ Unfinished
    /\ phase = "IncUpdate" => \E n \in Nat, i \in 1..11, j \in Nat : IncAt(n, i, j)
    /\ phase \in {"Update", "Create"} => \E n \in Nat, i \in 1..8, j \in Nat : PutAt(n, i, j)
    /\ phase = "Recover" => \E n \in Nat, i \in 1..5, j \in Nat : RecAt(n, i, j)
    /\ phase = "Killed" => Unfinished \/ (ur2 = Absent /\ tmp = new /\ arch = Absent)
    /\ phase = "Hurt" => Hurts
    /\ RepairGivesBack
    /\ phase \in {"Idle", "IncUpdate", "Update", "Create", "Recover", "Killed", "Lost", "Hurt", "Tested"}

LEMMA FourListed ==
  ASSUME NEW a, NEW b, NEW c, NEW d, NEW s, s = <<a, b, c, d>>
  PROVE  Listed(s) /\ Len(s) = 4 /\ s[1] = a /\ s[2] = b /\ s[3] = c /\ s[4] = d
<1>1. s = [k \in 1..4 |-> s[k]] /\ s[1] = a /\ s[2] = b /\ s[3] = c /\ s[4] = d
  OBVIOUS
<1> QED
  BY <1>1, ListOf

LEMMA FiveListed ==
  ASSUME NEW a, NEW b, NEW c, NEW d, NEW e, NEW s, s = <<a, b, c, d, e>>
  PROVE  Listed(s) /\ Len(s) = 5 /\ s[1] = a /\ s[2] = b /\ s[3] = c /\ s[4] = d /\ s[5] = e
<1>1. s = [k \in 1..5 |-> s[k]] /\ s[1] = a /\ s[2] = b /\ s[3] = c /\ s[4] = d /\ s[5] = e
  OBVIOUS
<1> QED
  BY <1>1, ListOf

LEMMA ProperFacts ==
  ASSUME StorageAssumption, NEW f, NEW n, Proper(f, n)
  PROVE  n \in Nat \ {0} /\ Archived(f, n) /\ Listed(f) /\ Len(f) \in Nat /\ Len(f) >= n + 4 /\ PLen(f) = n + 3 /\ Exists(f) /\ f # Absent
         /\ Value(f[2]) = n + 2 /\ FilesIn(f) = n
         /\ Protected(f[1]) \in BOOLEAN /\ (Protected(f[1]) => f = Protect(Finishes(n, TRUE)) /\ VerifyDP(f))
<1>1. PICK p \in BOOLEAN : f = Finished(n, p)
  BY DEF Proper
<1>2. n \in Nat \ {0}
  BY DEF Proper
<1>3. /\ Archived(f, n) /\ PLen(f) = n + 3 /\ Exists(f)
      /\ Protected(f[1]) <=> p
      /\ p => f = Protect(Finishes(n, p)) /\ VerifyDP(f)
  BY <1>1, <1>2, ArchiveFacts
<1>4. Listed(f) /\ Len(f) \in Nat /\ Len(f) >= n + 4 /\ Value(f[2]) = n + 2
  BY <1>3, ListFacts DEF Archived
<1>5. FilesIn(f) = n
  BY <1>2, <1>4 DEF FilesIn
<1>6. Protected(f[1]) \in BOOLEAN
  BY DEF Protected
<1>7. f # Absent
  BY <1>3 DEF Exists
<1>8. p => f = Protect(Finishes(n, TRUE))
  BY <1>3
<1> QED
  BY <1>2, <1>3, <1>4, <1>5, <1>6, <1>7, <1>8

IncShape(plan, f, g, n) ==
    /\ Listed(plan) /\ Len(plan) = 10
    /\ plan[1] = WriteAt("arch", 2, <<f[2]>>)
    /\ plan[2] = Do("create", "ur2", 0)
    /\ plan[3] = WriteAt("ur2", 1, RecoverFile(f))
    /\ plan[4] = Do("need", "ur2", 0)
    /\ plan[5] = Do("cut", "arch", n + 2)
    /\ plan[6] = WriteAt("arch", n + 3, SubSeq(g, n + 3, n + 4))
    /\ plan[7] = WriteAt("arch", 2, <<g[2]>>)
    /\ plan[8] = WriteAt("arch", 1, <<g[1]>>)
    /\ plan[9] = WriteAt("arch", n + 5, SubSeq(g, n + 5, Len(g)))
    /\ plan[10] = Do("delete", "ur2", 0)

LEMMA IncPlan ==
  ASSUME StorageAssumption, NEW f, NEW g, NEW n, Proper(f, n), Proper(g, n + 1)
  PROVE  IncShape(Incremental(f, g), f, g, n)
<1> DEFINE plan == Incremental(f, g)
           a == <<WriteAt("arch", 2, <<f[2]>>)>>
           b == Safeguard(f)
           r6 == WriteAt("arch", n + 3, SubSeq(g, n + 3, n + 4))
           r7 == WriteAt("arch", 2, <<g[2]>>)
           r8 == WriteAt("arch", 1, <<g[1]>>)
           r9 == WriteAt("arch", n + 5, SubSeq(g, n + 5, Len(g)))
           r10 == Do("delete", "ur2", 0)
           c == <<r6, r7, r8, r9, r10>>
           ab == a \o b
<1>1. n \in Nat /\ Value(f[2]) = n + 2 /\ PLen(g) = n + 4
  <2>1. n \in Nat /\ Value(f[2]) = n + 2
    BY ProperFacts
  <2>2. PLen(g) = (n + 1) + 3
    BY ProperFacts
  <2> QED
    BY <2>1, <2>2
<1>2. (n + 2) + 1 = n + 3 /\ (n + 4) + 1 = n + 5
  BY <1>1
<1>3. plan = ab \o c
  BY <1>1, <1>2 DEF Incremental
<1>4. Listed(a) /\ Len(a) = 1 /\ a[1] = WriteAt("arch", 2, <<f[2]>>)
  BY OneListed
<1>5. /\ Listed(b) /\ Len(b) = 4
      /\ b[1] = Do("create", "ur2", 0) /\ b[2] = WriteAt("ur2", 1, RecoverFile(f))
      /\ b[3] = Do("need", "ur2", 0) /\ b[4] = Do("cut", "arch", n + 2)
  BY <1>1, FourListed DEF Safeguard
<1>6. Listed(c) /\ Len(c) = 5 /\ c[1] = r6 /\ c[2] = r7 /\ c[3] = r8 /\ c[4] = r9 /\ c[5] = r10
  <2> HIDE DEF r6, r7, r8, r9, r10
  <2> QED
    BY FiveListed
<1> HIDE DEF a, b, c, plan
<1>7. Listed(ab) /\ Len(ab) = 5 /\ \A k \in 1..5 : ab[k] = IF k <= 1 THEN a[k] ELSE b[k - 1]
  <2>1. /\ Listed(ab) /\ Len(ab) = Len(a) + Len(b)
        /\ \A k \in 1..Len(a) + Len(b) : ab[k] = IF k <= Len(a) THEN a[k] ELSE b[k - Len(a)]
    BY <1>4, <1>5, JoinedLists
  <2> HIDE DEF ab
  <2> QED
    BY <2>1, <1>4, <1>5
<1> HIDE DEF ab
<1>8. Listed(plan) /\ Len(plan) = 10 /\ \A k \in 1..10 : plan[k] = IF k <= 5 THEN ab[k] ELSE c[k - 5]
  <2>1. /\ Listed(ab \o c) /\ Len(ab \o c) = Len(ab) + Len(c)
        /\ \A k \in 1..Len(ab) + Len(c) : (ab \o c)[k] = IF k <= Len(ab) THEN ab[k] ELSE c[k - Len(ab)]
    BY <1>6, <1>7, JoinedLists
  <2> QED
    BY <2>1, <1>3, <1>6, <1>7
<1>9. plan[1] = a[1] /\ plan[2] = b[1] /\ plan[3] = b[2] /\ plan[4] = b[3] /\ plan[5] = b[4]
  BY <1>7, <1>8
<1>10. plan[6] = c[1] /\ plan[7] = c[2] /\ plan[8] = c[3] /\ plan[9] = c[4] /\ plan[10] = c[5]
  BY <1>8
<1> QED
  BY <1>4, <1>5, <1>6, <1>8, <1>9, <1>10 DEF IncShape, plan

PutShape(plan, f, g, n) ==
    /\ Listed(plan) /\ Len(plan) = IF Exists(f) THEN 7 ELSE 6
    /\ plan[1] = Do("create", "tmp", 0)
    /\ plan[2] = WriteAt("tmp", 1, <<FHead(0, FALSE)>>)
    /\ plan[3] = WriteAt("tmp", 2, SubSeq(g, 2, n + 3))
    /\ plan[4] = WriteAt("tmp", 1, <<g[1]>>)
    /\ plan[5] = WriteAt("tmp", n + 4, SubSeq(g, n + 4, Len(g)))
    /\ plan[Len(plan)] = Do("rename", "tmp", 0)
    /\ Exists(f) => plan[6] = Do("delete", "arch", 0)

LEMMA PutPlan ==
  ASSUME StorageAssumption, NEW f, NEW g, NEW n, Proper(g, n)
  PROVE  PutShape(Replacement(f, g), f, g, n)
<1> DEFINE plan == Replacement(f, g)
           r3 == WriteAt("tmp", 2, SubSeq(g, 2, n + 3))
           r1 == Do("create", "tmp", 0)
           r2 == WriteAt("tmp", 1, <<FHead(0, FALSE)>>)
           r4 == WriteAt("tmp", 1, <<g[1]>>)
           r5 == WriteAt("tmp", n + 4, SubSeq(g, n + 4, Len(g)))
           a == <<r1, r2, r3, r4, r5>>
           d == Do("delete", "arch", 0)
           b == IF Exists(f) THEN <<d>> ELSE <<>>
           z == Do("rename", "tmp", 0)
           c == <<z>>
           m == IF Exists(f) THEN 1 ELSE 0
           ab == a \o b
<1>1. n \in Nat /\ PLen(g) = n + 3
  BY ProperFacts
<1>2. (n + 3) + 1 = n + 4
  BY <1>1
<1>3. plan = ab \o c
  BY <1>1, <1>2 DEF Replacement
<1>4. Listed(a) /\ Len(a) = 5 /\ a[1] = r1 /\ a[2] = r2 /\ a[3] = r3 /\ a[4] = r4 /\ a[5] = r5
  <2> HIDE DEF r1, r2, r3, r4, r5
  <2> QED
    BY FiveListed
<1>5. Listed(b) /\ Len(b) = m /\ (Exists(f) => b[1] = d)
  <2> HIDE DEF d
  <2> QED
    BY OneListed, NoneListed
<1>6. Listed(c) /\ Len(c) = 1 /\ c[1] = z
  BY OneListed
<1>7. m \in {0, 1} /\ (Exists(f) <=> m = 1)
  OBVIOUS
<1> HIDE DEF a, b, c, m, plan
<1>8. Listed(ab) /\ Len(ab) = 5 + m /\ \A k \in 1..5 + m : ab[k] = IF k <= 5 THEN a[k] ELSE b[k - 5]
  <2>1. /\ Listed(ab) /\ Len(ab) = Len(a) + Len(b)
        /\ \A k \in 1..Len(a) + Len(b) : ab[k] = IF k <= Len(a) THEN a[k] ELSE b[k - Len(a)]
    BY <1>4, <1>5, JoinedLists
  <2> HIDE DEF ab
  <2>2. Len(a) = 5 /\ Len(b) = m
    BY <1>4, <1>5
  <2> QED
    BY <2>1, <2>2
<1> HIDE DEF ab
<1>9. Listed(plan) /\ Len(plan) = 6 + m /\ \A k \in 1..6 + m : plan[k] = IF k <= 5 + m THEN ab[k] ELSE c[k - (5 + m)]
  <2>1. /\ Listed(ab \o c) /\ Len(ab \o c) = Len(ab) + Len(c)
        /\ \A k \in 1..Len(ab) + Len(c) : (ab \o c)[k] = IF k <= Len(ab) THEN ab[k] ELSE c[k - Len(ab)]
    BY <1>6, <1>8, JoinedLists
  <2>2. Len(ab) = 5 + m /\ Len(c) = 1 /\ (5 + m) + 1 = 6 + m
    BY <1>6, <1>7, <1>8
  <2> QED
    BY <2>1, <2>2, <1>3
<1>10. \A k \in 1..5 : k \in 1..6 + m /\ k <= 5 + m /\ k \in 1..5 + m
  BY <1>7
<1>11. \A k \in 1..5 : plan[k] = a[k]
  BY <1>8, <1>9, <1>10
<1>12. plan[6 + m] = c[1]
  <2>1. 6 + m \in 1..6 + m /\ ~(6 + m <= 5 + m) /\ (6 + m) - (5 + m) = 1
    BY <1>7
  <2> QED
    BY <2>1, <1>9
<1>13. m = 1 => plan[6] = b[1]
  BY <1>8, <1>9
<1>14. Len(plan) = IF Exists(f) THEN 7 ELSE 6
  BY <1>7, <1>9
<1>15. plan[1] = a[1] /\ plan[2] = a[2] /\ plan[3] = a[3] /\ plan[4] = a[4] /\ plan[5] = a[5]
  BY <1>11
<1> QED
  BY <1>4, <1>5, <1>6, <1>7, <1>9, <1>12, <1>13, <1>14, <1>15 DEF PutShape, plan

RecShape(plan, r, n) ==
    /\ Listed(plan) /\ Len(plan) = 4
    /\ plan[1] = WriteAt("arch", 1, SubSeq(r, 2, 3))
    /\ plan[2] = Do("cut", "arch", n + 2)
    /\ plan[3] = WriteAt("arch", n + 3, SubSeq(r, 6, Len(r)))
    /\ plan[4] = Do("delete", "ur2", 0)

LEMMA RecPlan ==
  ASSUME StorageAssumption, NEW f, NEW n, Proper(f, n), NEW r, r = RecoverFile(f)
  PROVE  RecShape(RecoverInPlace(r), r, n)
<1>1. n \in Nat /\ Archived(f, n)
  BY ProperFacts
<1>2. Value(r[4]) = n + 2
  BY <1>1, RecoverFileFacts
<1>3. (n + 2) + 1 = n + 3
  BY <1>1
<1> DEFINE plan == RecoverInPlace(r)
           r1 == WriteAt("arch", 1, SubSeq(r, 2, 3))
           r2 == Do("cut", "arch", n + 2)
           r3 == WriteAt("arch", n + 3, SubSeq(r, 6, Len(r)))
           r4 == Do("delete", "ur2", 0)
<1>4. plan = <<r1, r2, r3, r4>>
  BY <1>2, <1>3 DEF RecoverInPlace
<1> HIDE DEF r1, r2, r3, r4, plan
<1>5. Listed(plan) /\ Len(plan) = 4 /\ plan[1] = r1 /\ plan[2] = r2 /\ plan[3] = r3 /\ plan[4] = r4
  BY <1>4, FourListed
<1> QED
  BY <1>5 DEF r1, r2, r3, r4, RecShape, plan

LEMMA RecoverFileLong ==
  ASSUME StorageAssumption, NEW f, NEW n, Proper(f, n)
  PROVE  /\ Listed(RecoverFile(f)) /\ Len(RecoverFile(f)) = 5 + (Len(f) - (n + 2)) /\ Len(RecoverFile(f)) >= 7
         /\ RecoverFile(f) # Absent /\ Exists(RecoverFile(f))
<1>1. Archived(f, n) /\ n \in Nat /\ Len(f) \in Nat /\ Len(f) >= n + 4
  BY ProperFacts
<1>2. Listed(RecoverFile(f)) /\ Len(RecoverFile(f)) = 5 + (Len(f) - (n + 2))
  BY <1>1, RecoverFileFacts
<1>3. Len(RecoverFile(f)) >= 7
  BY <1>1, <1>2
<1>4. RecoverFile(f) # Absent
  <2> DEFINE r == RecoverFile(f)
  <2>1. Len(Absent) = 1
    BY OneListed DEF Absent
  <2>2. Len(r) \in Nat /\ Len(r) >= 7
    BY <1>2, <1>3, ListFacts
  <2> HIDE DEF r
  <2>3. r # Absent
    <3> SUFFICES ASSUME r = Absent PROVE FALSE
      OBVIOUS
    <3>1. Len(r) = 1
      BY <2>1, Zenon
    <3> QED
      BY <2>2, <3>1
  <2> QED
    BY <2>3 DEF r
<1> QED
  BY <1>2, <1>3, <1>4 DEF Exists

LEMMA ReadyFacts ==
  ASSUME StorageAssumption, StorageInv, Ready
  PROVE  ur2 = Absent /\ ~recneeded /\ Sane(arch)
<1>1. phase = "Idle" /\ ur2 = Absent
  BY DEF Ready, Exists
<1>2. ~recneeded /\ Unfinished /\ Sane(old) /\ Sane(new)
  BY <1>1 DEF StorageInv
<1>3. ASSUME NEW n \in Nat, Proper(old, n), Covered(n) PROVE FALSE
  BY <1>1, <1>3, RecoverFileLong DEF Covered
<1>4. arch \in {old, new}
  BY <1>2, <1>3 DEF Unfinished
<1> QED
  BY <1>1, <1>2, <1>4

LEMMA IdleReady ==
  ASSUME StorageAssumption, StorageInv, Ready, Exists(arch)
  PROVE  \E n \in Nat : Proper(arch, n)
BY ReadyFacts DEF Sane, Exists

LEMMA BeginInc ==
  ASSUME StorageAssumption, StorageInv, NEW o \in Options, IncUpdateArchive(o)
  PROVE  StorageInv'
<1>1. Ready /\ Exists(arch)
  BY DEF IncUpdateArchive
<1>2. PICK n \in Nat : Proper(arch, n)
  BY <1>1, IdleReady
<1>3. ur2 = Absent /\ ~recneeded
  BY <1>1, ReadyFacts
<1> DEFINE g == Finished(FilesIn(arch) + 1, Kept(arch, o))
           plan == Incremental(arch, g)
<1>4. FilesIn(arch) = n /\ n \in Nat \ {0} /\ Protected(arch[1]) \in BOOLEAN
  BY <1>2, ProperFacts
<1>5. Kept(arch, o) \in BOOLEAN
  BY <1>4 DEF Kept
<1>6. Proper(g, n + 1)
  BY <1>4, <1>5 DEF Proper
<1>7. /\ phase' = "IncUpdate" /\ old' = arch /\ new' = g /\ todo' = plan
      /\ arch' = arch /\ ur2' = ur2 /\ recneeded' = recneeded
  BY DEF IncUpdateArchive, Begin
<1> HIDE DEF g
<1>8. Listed(plan) /\ Len(plan) # 0
  <2>1. IncShape(plan, arch, g, n)
    BY <1>2, <1>6, IncPlan
  <2> HIDE DEF plan
  <2> QED
    BY <2>1 DEF IncShape
<1> HIDE DEF plan
<1>9. Left(plan, 1, 0) = plan
  BY <1>8, LeftWhole
<1>10. IncAt(n, 1, 0)'
  <2>1. At(Incremental(old, new), 1, 0)'
    BY <1>7, <1>9 DEF At, plan
  <2>2. Proper(old, n)' /\ Proper(new, n + 1)'
    BY <1>2, <1>6, <1>7 DEF Proper
  <2> QED
    BY <2>1, <2>2, <1>3, <1>7 DEF IncAt
<1>11. Sane(old)' /\ Sane(new)'
  <2>1. n + 1 \in Nat
    OBVIOUS
  <2>2. Sane(arch) /\ Sane(g)
    BY <2>1, <1>2, <1>6 DEF Sane
  <2> QED
    BY <2>2, <1>7
<1>12. RepairGivesBack'
  BY <1>7 DEF RepairGivesBack
<1> QED
  BY <1>7, <1>10, <1>11, <1>12 DEF StorageInv

LEMMA BeginPut ==
  ASSUME StorageAssumption, Ready, StorageInv, NEW n \in Nat \ {0}, NEW p \in BOOLEAN, NEW g, g = Finished(n, p),
         NEW command, command \in {"Update", "Create"}, Begin(command, g, Replacement(arch, g))
  PROVE  StorageInv'
<1> DEFINE plan == Replacement(arch, g)
<1>1. ur2 = Absent /\ ~recneeded /\ Sane(arch)
  BY ReadyFacts
<1>2. Proper(g, n)
  BY DEF Proper
<1>3. /\ phase' = command /\ old' = arch /\ new' = g /\ todo' = plan
      /\ arch' = arch /\ ur2' = ur2 /\ recneeded' = recneeded
  BY DEF Begin
<1>4. Listed(plan) /\ Len(plan) # 0
  <2>1. PutShape(plan, arch, g, n)
    BY <1>2, PutPlan
  <2> HIDE DEF plan
  <2> QED
    BY <2>1 DEF PutShape
<1> HIDE DEF plan
<1>5. Left(plan, 1, 0) = plan
  BY <1>4, LeftWhole
<1>6. Sane(old)' /\ Proper(new, n)'
  BY <1>1, <1>2, <1>3
<1>7. At(Replacement(old, new), 1, 0)'
  BY <1>3, <1>5 DEF At, plan
<1>8. (1 \in 1..Ending)'
  BY DEF Ending
<1>9. (1 \in 6..Ending - 1 => tmp = new /\ arch = IF 1 = 6 THEN old ELSE Absent)' /\ (1 = Ending => arch = new)'
  BY DEF Ending
<1>10. PutAt(n, 1, 0)'
  BY <1>1, <1>3, <1>6, <1>7, <1>8, <1>9 DEF PutAt
<1>11. Sane(new)'
  BY <1>6 DEF Sane
<1>12. RepairGivesBack'
  BY <1>3 DEF RepairGivesBack
<1> QED
  BY <1>3, <1>6, <1>10, <1>11, <1>12 DEF StorageInv

LEMMA BeginUpdate ==
  ASSUME StorageAssumption, StorageInv, NEW o \in Options, UpdateArchive(o)
  PROVE  StorageInv'
<1>1. Ready /\ Exists(arch)
  BY DEF UpdateArchive
<1>2. PICK count \in {FilesIn(arch) - 1, FilesIn(arch) + 1} \cap 1..MaxFiles :
        Begin("Update", Finished(count, Kept(arch, o)), Replacement(arch, Finished(count, Kept(arch, o))))
  BY DEF UpdateArchive
<1>3. PICK n \in Nat : Proper(arch, n)
  BY <1>1, IdleReady
<1>4. Protected(arch[1]) \in BOOLEAN
  BY <1>3, ProperFacts
<1>5. Kept(arch, o) \in BOOLEAN
  BY <1>4 DEF Kept
<1>6. count \in Nat \ {0}
  OBVIOUS
<1> QED
  BY <1>1, <1>2, <1>5, <1>6, BeginPut

LEMMA BeginCreate ==
  ASSUME StorageAssumption, StorageInv, NEW o \in Options, CreateArchive(o)
  PROVE  StorageInv'
<1> DEFINE p == o = "on"
<1>1. Ready /\ Begin("Create", Finished(1, p), Replacement(arch, Finished(1, p)))
  BY DEF CreateArchive
<1>2. p \in BOOLEAN /\ 1 \in Nat \ {0}
  OBVIOUS
<1> HIDE DEF p
<1> QED
  BY <1>1, <1>2, BeginPut

LEMMA PartFrom ==
  ASSUME NEW s, Listed(s), NEW a \in Nat \ {0}, NEW b \in Nat, a <= b + 1, b <= Len(s)
  PROVE  /\ Listed(SubSeq(s, a, b)) /\ Len(SubSeq(s, a, b)) = (b - a) + 1
         /\ \A k \in 1..(b - a) + 1 : SubSeq(s, a, b)[k] = s[(a + k) - 1]
<1> DEFINE m == a - 1
<1>1. m \in Nat /\ m <= b /\ m + 1 = a /\ b - m = (b - a) + 1 /\ \A k \in Nat : m + k = (a + k) - 1
  OBVIOUS
<1> HIDE DEF m
<1>2. /\ Listed(SubSeq(s, m + 1, b)) /\ Len(SubSeq(s, m + 1, b)) = b - m
      /\ \A k \in 1..b - m : SubSeq(s, m + 1, b)[k] = s[m + k]
  <2>1. m \in Nat /\ b \in Nat /\ m <= b /\ b <= Len(s) /\ Listed(s)
    BY <1>1
  <2> QED
    BY <2>1, PartOfList
<1>3. \A k \in 1..b - m : SubSeq(s, m + 1, b)[k] = s[(a + k) - 1]
  BY <1>1, <1>2
<1> QED
  BY <1>1, <1>2, <1>3

\* What a step does that carries out a request at once, and one that writes a cell.
Performed(plan, i, what, which, at) ==
    /\ At(plan, i + 1, 0)' /\ UNCHANGED <<old, new, phase>>
    /\ arch' = IF what = "rename" THEN tmp ELSE IF which = "arch" THEN Changed(arch, plan[i]) ELSE arch
    /\ tmp' = IF what = "rename" THEN Absent ELSE IF which = "tmp" THEN Changed(tmp, plan[i]) ELSE tmp
    /\ ur2' = IF which = "ur2" /\ what # "need" THEN Changed(ur2, plan[i]) ELSE ur2
    /\ recneeded' <=> what = "need" \/ (recneeded /\ ~(what = "delete" /\ which = "ur2"))
Stored(plan, i, j, which, at, cells) ==
    /\ IF j + 1 < Len(cells) THEN At(plan, i, j + 1)' ELSE At(plan, i + 1, 0)'
    /\ UNCHANGED <<old, new, phase>>
    /\ arch' = IF which = "arch" THEN PutCell(arch, at + j, cells[j + 1]) ELSE arch
    /\ tmp' = IF which = "tmp" THEN PutCell(tmp, at + j, cells[j + 1]) ELSE tmp
    /\ ur2' = IF which = "ur2" THEN PutCell(ur2, at + j, cells[j + 1]) ELSE ur2
    /\ recneeded' <=> recneeded

LEMMA DoEffects ==
  ASSUME Proceed, NEW plan, Listed(plan), NEW i \in 1..Len(plan), At(plan, i, 0),
         NEW what, NEW which, NEW at, plan[i] = Do(what, which, at), what # "write"
  PROVE  Performed(plan, i, what, which, at)
<1>1. plan[i].do = what /\ plan[i].file = which
  BY DoFields
<1>2. todo # <<>> /\ todo[1] = plan[i] /\ Rest(todo) = Left(plan, i + 1, 0)
  BY <1>1, DoStep
<1>3. At(plan, i + 1, 0)'
  BY <1>2 DEF Proceed, At
<1>4. UNCHANGED <<old, new, phase>>
  BY DEF Proceed
<1> DEFINE one == todo[1]
<1>5. /\ arch' = IF one.do = "rename" THEN tmp
                 ELSE IF one.file = "arch" THEN Changed(arch, one) ELSE arch
      /\ tmp' = IF one.do = "rename" THEN Absent ELSE IF one.file = "tmp" THEN Changed(tmp, one) ELSE tmp
      /\ ur2' = IF one.file = "ur2" /\ one.do # "need" THEN Changed(ur2, one) ELSE ur2
  BY DEF Proceed
<1>6. recneeded' <=> one.do = "need" \/ (recneeded /\ ~(one.do = "delete" /\ one.file = "ur2"))
  BY Zenon DEF Proceed
<1> HIDE DEF one
<1>7. one.do = what /\ one.file = which /\ one = plan[i]
  BY <1>1, <1>2 DEF one
<1>8. recneeded' <=> what = "need" \/ (recneeded /\ ~(what = "delete" /\ which = "ur2"))
  BY <1>6, <1>7
<1> QED
  BY <1>3, <1>4, <1>5, <1>7, <1>8 DEF Performed

LEMMA WriteEffects ==
  ASSUME Proceed, NEW plan, Listed(plan), NEW i \in 1..Len(plan), NEW cells, Listed(cells), NEW j \in 0..Len(cells) - 1,
         At(plan, i, j), NEW which, NEW at \in Nat, plan[i] = WriteAt(which, at, cells)
  PROVE  Stored(plan, i, j, which, at, cells)
<1>1. /\ todo # <<>> /\ todo[1].do = "write" /\ todo[1].file = which
      /\ \A f : Changed(f, todo[1]) = PutCell(f, at + j, cells[j + 1])
      /\ Rest(todo) = IF j + 1 < Len(cells) THEN Left(plan, i, j + 1) ELSE Left(plan, i + 1, 0)
  BY WriteStep
<1>2. todo' = IF j + 1 < Len(cells) THEN Left(plan, i, j + 1) ELSE Left(plan, i + 1, 0)
  BY <1>1 DEF Proceed
<1>3. IF j + 1 < Len(cells) THEN At(plan, i, j + 1)' ELSE At(plan, i + 1, 0)'
  BY <1>2 DEF At
<1>4. UNCHANGED <<old, new, phase>>
  BY DEF Proceed
<1> DEFINE one == todo[1]
<1>5. /\ arch' = IF one.do = "rename" THEN tmp
                 ELSE IF one.file = "arch" THEN Changed(arch, one) ELSE arch
      /\ tmp' = IF one.do = "rename" THEN Absent ELSE IF one.file = "tmp" THEN Changed(tmp, one) ELSE tmp
      /\ ur2' = IF one.file = "ur2" /\ one.do # "need" THEN Changed(ur2, one) ELSE ur2
  BY DEF Proceed
<1>6. recneeded' <=> one.do = "need" \/ (recneeded /\ ~(one.do = "delete" /\ one.file = "ur2"))
  BY Zenon DEF Proceed
<1> HIDE DEF one
<1>7. one.do = "write" /\ one.file = which /\ \A f : Changed(f, one) = PutCell(f, at + j, cells[j + 1])
  BY <1>1 DEF one
<1>8. recneeded' <=> recneeded
  BY <1>6, <1>7
<1> QED
  BY <1>3, <1>4, <1>5, <1>7, <1>8 DEF Stored

LEMMA ChangedFacts ==
  ASSUME NEW f, NEW which, NEW at
  PROVE  /\ Changed(f, Do("create", which, at)) = <<>>
         /\ Changed(f, Do("cut", which, at)) = SubSeq(f, 1, at)
         /\ Changed(f, Do("delete", which, at)) = Absent
<1>1. ASSUME NEW one, one.do = "create" PROVE Changed(f, one) = <<>>
  BY <1>1 DEF Changed
<1>2. ASSUME NEW one, one.do = "cut", one.at = at PROVE Changed(f, one) = SubSeq(f, 1, at)
  BY <1>2 DEF Changed
<1>3. ASSUME NEW one, one.do = "delete" PROVE Changed(f, one) = Absent
  BY <1>3 DEF Changed
<1>4. Do("create", which, at).do = "create" /\ Do("cut", which, at).do = "cut" /\ Do("delete", which, at).do = "delete"
  BY DoFields
<1>5. Do("cut", which, at).at = at
  BY DoFields
<1> QED
  BY <1>1, <1>2, <1>3, <1>4, <1>5

LEMMA PutSame ==
  ASSUME NEW f, Listed(f), NEW at \in 1..Len(f)
  PROVE  PutCell(f, at, f[at]) = f
<1> DEFINE c == f[at]
           p == PutCell(f, at, c)
<1>1. Len(f) \in Nat /\ at \in Nat \ {0} /\ at <= Len(f)
  BY ListFacts
<1>2. Listed(p) /\ Len(p) = (IF at > Len(f) THEN at ELSE Len(f)) /\ p[at] = c /\ \A k \in 1..Len(f) : k # at => p[k] = f[k]
  BY <1>1, PutCellFacts
<1> HIDE DEF p
<1>3. Len(p) = Len(f) /\ \A k \in 1..Len(f) : p[k] = f[k]
  BY <1>1, <1>2
<1>4. p = f
  BY <1>2, <1>3, SameLists
<1> QED
  BY <1>4 DEF p

LEMMA SameData ==
  ASSUME StorageAssumption, NEW f, NEW g, NEW n, Proper(f, n), Proper(g, n + 1)
  PROVE  \A k \in 3..n + 2 : f[k] = g[k]
<1>1. n \in Nat /\ Archived(f, n) /\ Archived(g, n + 1)
  BY ProperFacts
<1>2. \A k \in 3..n + 2 : f[k] = Mark(<<"data", k - 2>>)
  BY <1>1 DEF Archived
<1>3. \A k \in 3..(n + 1) + 2 : g[k] = Mark(<<"data", k - 2>>)
  BY <1>1 DEF Archived
<1>4. \A k \in 3..n + 2 : k \in 3..(n + 1) + 2
  BY <1>1
<1> QED
  BY <1>2, <1>3, <1>4

\* A write of one cell.
Cell(plan, i, which, at, c) ==
    /\ At(plan, i + 1, 0)'
    /\ UNCHANGED <<old, new, phase>>
    /\ arch' = IF which = "arch" THEN PutCell(arch, at, c) ELSE arch
    /\ tmp' = IF which = "tmp" THEN PutCell(tmp, at, c) ELSE tmp
    /\ ur2' = IF which = "ur2" THEN PutCell(ur2, at, c) ELSE ur2
    /\ recneeded' <=> recneeded

LEMMA CellEffects ==
  ASSUME Proceed, NEW plan, Listed(plan), NEW i \in 1..Len(plan), NEW c, At(plan, i, 0),
         NEW which, NEW at \in Nat, plan[i] = WriteAt(which, at, <<c>>)
  PROVE  Cell(plan, i, which, at, c)
<1> DEFINE cells == <<c>>
           j == 0
<1>1. Listed(cells) /\ Len(cells) = 1 /\ cells[1] = c
  BY OneListed
<1>2. j \in 0..Len(cells) - 1 /\ at + j = at /\ j + 1 = 1 /\ ~(j + 1 < Len(cells))
  BY <1>1
<1>3. At(plan, i, j) /\ plan[i] = WriteAt(which, at, cells)
  OBVIOUS
<1> HIDE DEF cells, j
<1>4. Stored(plan, i, j, which, at, cells)
  BY <1>1, <1>2, <1>3, WriteEffects
<1> QED
  BY <1>1, <1>2, <1>4 DEF Stored, Cell

LEMMA IncEarly ==
  ASSUME StorageAssumption, NEW n, NEW i \in 1..5, NEW j, IncAt(n, i, j), Proceed
  PROVE  \E k \in 1..11, l \in Nat : IncAt(n, k, l)'
<1> DEFINE plan == Incremental(old, new)
           R == RecoverFile(old)
<1>1. /\ Proper(old, n) /\ Proper(new, n + 1) /\ At(plan, i, j) /\ j \in Nat /\ (i \notin {3, 6, 9} => j = 0)
      /\ recneeded <=> i \in 5..10
  BY DEF IncAt
<1>2. IncShape(plan, old, new, n)
  BY <1>1, IncPlan
<1>3. arch = old /\ n \in Nat \ {0} /\ Listed(old) /\ Len(old) >= n + 4 /\ Len(old) \in Nat
  <2>1. arch = old
    BY DEF IncAt
  <2>2. n \in Nat \ {0} /\ Listed(old) /\ Len(old) >= n + 4 /\ Len(old) \in Nat
    BY <1>1, ProperFacts
  <2> QED
    BY <2>1, <2>2
<1>4. Listed(R) /\ Len(R) >= 7 /\ Len(R) \in Nat
  BY <1>1, RecoverFileLong, ListFacts
<1> HIDE DEF plan, R
<1>5. Listed(plan) /\ Len(plan) = 10 /\ \A k \in 1..10 : k \in 1..Len(plan)
  BY <1>2 DEF IncShape
<1>6. CASE i = 1
  <2> DEFINE c == old[2]
  <2>1. plan[1] = WriteAt("arch", 2, <<c>>) /\ At(plan, 1, 0) /\ 1 \in 1..Len(plan)
    BY <1>1, <1>2, <1>5, <1>6 DEF IncShape
  <2>2. 2 \in 1..Len(old)
    BY <1>3
  <2>3. ur2 = Absent /\ ~recneeded
    BY <1>1, <1>6 DEF IncAt
  <2> HIDE DEF c
  <2>4. At(plan, 1 + 1, 0)' /\ UNCHANGED <<old, new, phase>> /\ arch' = PutCell(arch, 2, c) /\ ur2' = ur2 /\ (recneeded' <=> recneeded)
    <3>1. Cell(plan, 1, "arch", 2, c)
      BY <1>5, <2>1, CellEffects
    <3> QED
      BY <3>1 DEF Cell
  <2>5. arch' = old
    BY <1>3, <2>2, <2>4, PutSame DEF c
  <2>6. IncAt(n, 2, 0)'
    BY <1>1, <2>3, <2>4, <2>5 DEF IncAt, plan
  <2> QED
    BY <2>6
<1>7. CASE i = 2
  <2>1. plan[2] = Do("create", "ur2", 0) /\ At(plan, 2, 0) /\ 2 \in 1..Len(plan)
    BY <1>1, <1>2, <1>5, <1>7 DEF IncShape
  <2>2. ~recneeded
    BY <1>1, <1>7
  <2>3. At(plan, 2 + 1, 0)' /\ UNCHANGED <<old, new, phase>> /\ arch' = arch /\ ur2' = Changed(ur2, plan[2]) /\ (recneeded' <=> recneeded)
    <3>1. Performed(plan, 2, "create", "ur2", 0)
      BY <1>5, <2>1, DoEffects
    <3> QED
      BY <3>1 DEF Performed
  <2>4. ur2' = <<>>
    BY <2>1, <2>3, ChangedFacts
  <2>5. WrittenTo(ur2', R, 1, 0) /\ 0 < Len(R)
    BY <1>4, <2>4, NoneListed DEF WrittenTo
  <2>6. IncAt(n, 3, 0)'
    BY <1>1, <1>3, <2>2, <2>3, <2>5 DEF IncAt, plan, R
  <2> QED
    BY <2>6
<1>8. CASE i = 3
  <2>1. plan[3] = WriteAt("ur2", 1, R) /\ At(plan, 3, j) /\ 3 \in 1..Len(plan)
    BY <1>1, <1>2, <1>5, <1>8 DEF IncShape, R
  <2>2. ~recneeded /\ WrittenTo(ur2, R, 1, j) /\ j < Len(R) /\ j \in 0..Len(R) - 1
    BY <1>1, <1>4, <1>8 DEF IncAt, R
  <2>3. /\ IF j + 1 < Len(R) THEN At(plan, 3, j + 1)' ELSE At(plan, 3 + 1, 0)'
        /\ UNCHANGED <<old, new, phase>> /\ arch' = arch /\ ur2' = PutCell(ur2, 1 + j, R[j + 1]) /\ (recneeded' <=> recneeded)
    <3>1. Stored(plan, 3, j, "ur2", 1, R)
      BY <1>4, <1>5, <2>1, <2>2, WriteEffects
    <3> QED
      BY <3>1 DEF Stored
  <2>4. 1 + j = j + 1
    BY <1>1
  <2>5. WrittenTo(ur2', R, 1, j + 1)
    BY <1>1, <2>2, <2>3, <2>4, WriteOn
  <2>6. CASE j + 1 < Len(R)
    <3>1. IncAt(n, 3, j + 1)'
      BY <1>1, <1>3, <2>2, <2>3, <2>5, <2>6 DEF IncAt, plan, R
    <3> QED
      BY <3>1, <1>1
  <2>7. CASE ~(j + 1 < Len(R))
    <3>1. Len(R) = j + 1
      BY <1>1, <1>4, <2>2, <2>7
    <3>2. ur2' = R
      BY <1>4, <2>5, <3>1, WrittenToEnd
    <3>3. IncAt(n, 4, 0)'
      BY <1>1, <1>3, <2>2, <2>3, <2>7, <3>2 DEF IncAt, plan, R
    <3> QED
      BY <3>3
  <2> QED
    BY <2>6, <2>7
<1>9. CASE i = 4
  <2>1. plan[4] = Do("need", "ur2", 0) /\ At(plan, 4, 0) /\ 4 \in 1..Len(plan)
    BY <1>1, <1>2, <1>5, <1>9 DEF IncShape
  <2>2. ur2 = R
    BY <1>9 DEF IncAt, R
  <2>3. At(plan, 4 + 1, 0)' /\ UNCHANGED <<old, new, phase>> /\ arch' = arch /\ ur2' = ur2 /\ recneeded'
    <3>1. Performed(plan, 4, "need", "ur2", 0)
      BY <1>5, <2>1, DoEffects
    <3> QED
      BY <3>1 DEF Performed
  <2>4. IncAt(n, 5, 0)'
    BY <1>1, <1>3, <2>2, <2>3 DEF IncAt, plan, R
  <2> QED
    BY <2>4
<1>10. CASE i = 5
  <2>1. plan[5] = Do("cut", "arch", n + 2) /\ At(plan, 5, 0) /\ 5 \in 1..Len(plan)
    BY <1>1, <1>2, <1>5, <1>10 DEF IncShape
  <2>2. ur2 = R /\ recneeded
    BY <1>1, <1>10 DEF IncAt, R
  <2>3. At(plan, 5 + 1, 0)' /\ UNCHANGED <<old, new, phase>> /\ arch' = Changed(arch, plan[5]) /\ ur2' = ur2 /\ recneeded'
    <3>1. Performed(plan, 5, "cut", "arch", n + 2)
      BY <1>5, <2>1, <2>2, DoEffects
    <3> QED
      BY <3>1, <2>2 DEF Performed
  <2>4. arch' = SubSeq(old, 1, n + 2)
    BY <1>3, <2>1, <2>3, ChangedFacts
  <2>5. Agreeing(old, old, 1, n + 2)
    BY <1>3 DEF Agreeing
  <2>6. WrittenTo(arch', old, 1, n + 2)
    <3>1. n + 2 \in Nat
      BY <1>3
    <3> QED
      BY <2>4, <2>5, <3>1, CutAgrees
  <2>7. WrittenTo(arch', new, 3, (n + 2) + 0)
    <3>1. \A k \in 3..n + 2 : old[k] = new[k] /\ k \in 1..n + 2
      BY <1>1, SameData
    <3>2. (n + 2) + 0 = n + 2
      BY <1>3
    <3> QED
      BY <2>6, <3>1, <3>2 DEF WrittenTo
  <2>8. IncAt(n, 6, 0)'
    BY <1>1, <2>2, <2>3, <2>7 DEF IncAt, plan, R
  <2> QED
    BY <2>8
<1> QED
  BY <1>6, <1>7, <1>8, <1>9, <1>10

LEMMA IncLate ==
  ASSUME StorageAssumption, NEW n, NEW i \in 6..10, NEW j, IncAt(n, i, j), Proceed
  PROVE  \E k \in 1..11, l \in Nat : IncAt(n, k, l)'
<1> DEFINE plan == Incremental(old, new)
           R == RecoverFile(old)
           e == n + 4
<1>1. /\ Proper(old, n) /\ Proper(new, n + 1) /\ At(plan, i, j) /\ j \in Nat /\ (i \notin {3, 6, 9} => j = 0)
      /\ recneeded <=> i \in 5..10
  BY DEF IncAt
<1>2. IncShape(plan, old, new, n)
  BY <1>1, IncPlan
<1>3. ur2 = R /\ recneeded
  BY <1>1 DEF IncAt
<1>4. n \in Nat \ {0} /\ Listed(new) /\ Len(new) \in Nat /\ Len(new) >= n + 5
  <2>1. Listed(new) /\ Len(new) >= (n + 1) + 4 /\ Len(new) \in Nat
    BY <1>1, ProperFacts
  <2>2. n \in Nat \ {0}
    BY <1>1, ProperFacts
  <2> QED
    BY <2>1, <2>2
<1> HIDE DEF plan, R
<1>5. Listed(plan) /\ Len(plan) = 10 /\ \A k \in 1..10 : k \in 1..Len(plan)
  BY <1>2 DEF IncShape
<1>6. CASE i = 6
  <2> DEFINE cells == SubSeq(new, n + 3, n + 4)
  <2>1. plan[6] = WriteAt("arch", n + 3, cells) /\ At(plan, 6, j) /\ 6 \in 1..Len(plan)
    BY <1>1, <1>2, <1>5, <1>6 DEF IncShape
  <2>2. WrittenTo(arch, new, 3, (n + 2) + j) /\ j < 2
    BY <1>6 DEF IncAt
  <2>3. Listed(cells) /\ Len(cells) = 2 /\ \A k \in 1..2 : cells[k] = new[((n + 3) + k) - 1]
    <3> DEFINE a == n + 3
               b == n + 4
    <3>1. a \in Nat \ {0} /\ b \in Nat /\ a <= b + 1 /\ b <= Len(new) /\ (b - a) + 1 = 2
      BY <1>4
    <3> HIDE DEF a, b
    <3>2. /\ Listed(SubSeq(new, a, b)) /\ Len(SubSeq(new, a, b)) = (b - a) + 1
          /\ \A k \in 1..(b - a) + 1 : SubSeq(new, a, b)[k] = new[(a + k) - 1]
      BY <1>4, <3>1, PartFrom
    <3> QED
      BY <3>1, <3>2 DEF a, b
  <2> HIDE DEF cells
  <2>4. j \in 0..Len(cells) - 1 /\ n + 3 \in Nat
    BY <1>1, <1>4, <2>2, <2>3
  <2>5. Stored(plan, 6, j, "arch", n + 3, cells)
    BY <1>5, <2>1, <2>3, <2>4, WriteEffects
  <2>6. /\ IF j + 1 < 2 THEN At(plan, 6, j + 1)' ELSE At(plan, 6 + 1, 0)'
        /\ UNCHANGED <<old, new, phase>> /\ arch' = PutCell(arch, (n + 3) + j, cells[j + 1]) /\ ur2' = ur2 /\ recneeded'
    BY <1>3, <2>3, <2>5 DEF Stored
  <2> DEFINE h == (n + 2) + j
  <2>7. (n + 3) + j = h + 1 /\ ((n + 3) + (j + 1)) - 1 = h + 1 /\ j + 1 \in 1..2 /\ h \in Nat /\ h + 1 = (n + 2) + (j + 1)
    BY <1>1, <1>4, <2>2
  <2> HIDE DEF h
  <2>8. arch' = PutCell(arch, h + 1, new[h + 1])
    <3>1. cells[j + 1] = new[((n + 3) + (j + 1)) - 1]
      BY <2>3, <2>7
    <3>2. arch' = PutCell(arch, (n + 3) + j, cells[j + 1])
      BY <2>6
    <3> QED
      BY <3>1, <3>2, <2>7
  <2>9. WrittenTo(arch, new, 3, h)
    BY <2>2 DEF h
  <2>10. WrittenTo(arch', new, 3, h + 1)
    BY <2>7, <2>8, <2>9, WriteOn
  <2>11. CASE j = 0
    <3>1. j + 1 = 1 /\ j + 1 < 2
      BY <2>11
    <3>2. WrittenTo(arch', new, 3, (n + 2) + 1)
      BY <2>7, <2>10, <3>1
    <3>3. IncAt(n, 6, 1)'
      BY <1>1, <1>3, <2>6, <3>1, <3>2 DEF IncAt, plan, R
    <3> QED
      BY <3>3
  <2>12. CASE j = 1
    <3>1. h + 1 = n + 4 /\ ~(j + 1 < 2)
      BY <1>4, <2>7, <2>12
    <3>2. WrittenTo(arch', new, 3, n + 4)
      BY <2>10, <3>1
    <3>3. IncAt(n, 7, 0)'
      BY <1>1, <1>3, <2>6, <3>1, <3>2 DEF IncAt, plan, R
    <3> QED
      BY <3>3
  <2> QED
    BY <1>1, <2>2, <2>11, <2>12
<1>7. CASE i = 7
  <2> DEFINE c == new[2]
  <2>1. plan[7] = WriteAt("arch", 2, <<c>>) /\ At(plan, 7, 0) /\ 7 \in 1..Len(plan)
    BY <1>1, <1>2, <1>5, <1>7 DEF IncShape
  <2>2. WrittenTo(arch, new, 2 + 1, e) /\ e \in Nat /\ 2 <= e
    BY <1>4, <1>7 DEF IncAt
  <2> HIDE DEF c, e
  <2>3. Cell(plan, 7, "arch", 2, c)
    BY <1>5, <2>1, CellEffects
  <2>4. At(plan, 7 + 1, 0)' /\ UNCHANGED <<old, new, phase>> /\ arch' = PutCell(arch, 2, new[2]) /\ ur2' = ur2 /\ recneeded'
    BY <1>3, <2>3 DEF Cell, c
  <2>5. WrittenTo(PutCell(arch, 2, new[2]), new, 2, e)
    <3>1. 2 \in Nat \ {0}
      OBVIOUS
    <3> QED
      BY <2>2, <3>1, WriteBefore
  <2>6. WrittenTo(arch', new, 2, n + 4)
    BY <2>4, <2>5 DEF e
  <2>7. IncAt(n, 8, 0)'
    BY <1>1, <1>3, <2>4, <2>6 DEF IncAt, plan, R
  <2> QED
    BY <2>7
<1>8. CASE i = 8
  <2> DEFINE c == new[1]
  <2>1. plan[8] = WriteAt("arch", 1, <<c>>) /\ At(plan, 8, 0) /\ 8 \in 1..Len(plan)
    BY <1>1, <1>2, <1>5, <1>8 DEF IncShape
  <2>2. WrittenTo(arch, new, 1 + 1, e) /\ e \in Nat /\ 1 <= e
    BY <1>4, <1>8 DEF IncAt
  <2> HIDE DEF c, e
  <2>3. Cell(plan, 8, "arch", 1, c)
    BY <1>5, <2>1, CellEffects
  <2>4. At(plan, 8 + 1, 0)' /\ UNCHANGED <<old, new, phase>> /\ arch' = PutCell(arch, 1, new[1]) /\ ur2' = ur2 /\ recneeded'
    BY <1>3, <2>3 DEF Cell, c
  <2>5. WrittenTo(PutCell(arch, 1, new[1]), new, 1, e)
    <3>1. 1 \in Nat \ {0}
      OBVIOUS
    <3> QED
      BY <2>2, <3>1, WriteBefore
  <2>6. WrittenTo(arch', new, 1, (n + 4) + 0) /\ 0 < Len(new) - (n + 4)
    <3>1. (n + 4) + 0 = n + 4 /\ 0 < Len(new) - (n + 4)
      BY <1>4
    <3> QED
      BY <2>4, <2>5, <3>1 DEF e
  <2>7. IncAt(n, 9, 0)'
    BY <1>1, <1>3, <2>4, <2>6 DEF IncAt, plan, R
  <2> QED
    BY <2>7
<1>9. CASE i = 9
  <2> DEFINE cells == SubSeq(new, n + 5, Len(new))
             m == Len(new) - (n + 4)
  <2>1. plan[9] = WriteAt("arch", n + 5, cells) /\ At(plan, 9, j) /\ 9 \in 1..Len(plan)
    BY <1>1, <1>2, <1>5, <1>9 DEF IncShape
  <2>2. WrittenTo(arch, new, 1, (n + 4) + j) /\ j < m
    BY <1>9 DEF IncAt
  <2>3. Listed(cells) /\ Len(cells) = m /\ \A k \in 1..m : cells[k] = new[((n + 5) + k) - 1]
    <3> DEFINE a == n + 5
               b == Len(new)
    <3>1. a \in Nat \ {0} /\ b \in Nat /\ a <= b + 1 /\ b <= Len(new) /\ (b - a) + 1 = m
      BY <1>4
    <3> HIDE DEF a, b, m
    <3>2. /\ Listed(SubSeq(new, a, b)) /\ Len(SubSeq(new, a, b)) = (b - a) + 1
          /\ \A k \in 1..(b - a) + 1 : SubSeq(new, a, b)[k] = new[(a + k) - 1]
      BY <1>4, <3>1, PartFrom
    <3> QED
      BY <3>1, <3>2 DEF a, b
  <2>4. m \in Nat /\ Len(new) = (n + 4) + m
    BY <1>4
  <2> HIDE DEF cells, m
  <2>5. j \in 0..Len(cells) - 1 /\ n + 5 \in Nat
    BY <1>1, <1>4, <2>2, <2>3, <2>4
  <2>6. Stored(plan, 9, j, "arch", n + 5, cells)
    BY <1>5, <2>1, <2>3, <2>5, WriteEffects
  <2>7. /\ IF j + 1 < m THEN At(plan, 9, j + 1)' ELSE At(plan, 9 + 1, 0)'
        /\ UNCHANGED <<old, new, phase>> /\ arch' = PutCell(arch, (n + 5) + j, cells[j + 1]) /\ ur2' = ur2 /\ recneeded'
    BY <1>3, <2>3, <2>6 DEF Stored
  <2> DEFINE h == (n + 4) + j
  <2>8. (n + 5) + j = h + 1 /\ ((n + 5) + (j + 1)) - 1 = h + 1 /\ j + 1 \in 1..m /\ h \in Nat /\ h + 1 = (n + 4) + (j + 1)
    BY <1>1, <1>4, <2>2, <2>4
  <2> HIDE DEF h
  <2>9. arch' = PutCell(arch, h + 1, new[h + 1])
    BY <2>3, <2>7, <2>8
  <2>10. WrittenTo(arch, new, 1, h)
    BY <2>2 DEF h
  <2>11. WrittenTo(arch', new, 1, h + 1)
    BY <2>8, <2>9, <2>10, WriteOn
  <2>12. CASE j + 1 < m
    <3>1. WrittenTo(arch', new, 1, (n + 4) + (j + 1)) /\ j + 1 \in Nat
      BY <1>1, <2>8, <2>11
    <3>2. IncAt(n, 9, j + 1)'
      BY <1>1, <1>3, <2>7, <2>12, <3>1 DEF IncAt, plan, R, m
    <3> QED
      BY <3>1, <3>2
  <2>13. CASE ~(j + 1 < m)
    <3>1. h + 1 = Len(new)
      BY <1>1, <2>2, <2>4, <2>8, <2>13
    <3>2. arch' = new
      BY <1>4, <2>11, <3>1, WrittenToEnd
    <3>3. IncAt(n, 10, 0)'
      BY <1>1, <1>3, <2>7, <2>13, <3>2 DEF IncAt, plan, R
    <3> QED
      BY <3>3
  <2> QED
    BY <2>12, <2>13
<1>10. CASE i = 10
  <2>1. plan[10] = Do("delete", "ur2", 0) /\ At(plan, 10, 0) /\ 10 \in 1..Len(plan)
    BY <1>1, <1>2, <1>5, <1>10 DEF IncShape
  <2>2. arch = new
    BY <1>10 DEF IncAt
  <2>3. Performed(plan, 10, "delete", "ur2", 0)
    BY <1>5, <2>1, DoEffects
  <2>4. At(plan, 10 + 1, 0)' /\ UNCHANGED <<old, new, phase>> /\ arch' = arch /\ ur2' = Changed(ur2, plan[10]) /\ ~recneeded'
    BY <2>3 DEF Performed
  <2>5. ur2' = Absent
    BY <2>1, <2>4, ChangedFacts
  <2>6. IncAt(n, 11, 0)'
    BY <1>1, <2>2, <2>4, <2>5 DEF IncAt, plan
  <2> QED
    BY <2>6
<1> QED
  BY <1>6, <1>7, <1>8, <1>9, <1>10

LEMMA IncDone ==
  ASSUME StorageAssumption, NEW n, NEW j, IncAt(n, 11, j)
  PROVE  todo = <<>> /\ arch = new /\ ur2 = Absent /\ ~recneeded
<1> DEFINE plan == Incremental(old, new)
<1>1. Proper(old, n) /\ Proper(new, n + 1) /\ At(plan, 11, j) /\ arch = new /\ ur2 = Absent /\ ~recneeded
  BY DEF IncAt
<1>2. IncShape(plan, old, new, n)
  BY <1>1, IncPlan
<1> HIDE DEF plan
<1>3. Listed(plan) /\ 11 = Len(plan) + 1
  BY <1>2 DEF IncShape
<1>4. Left(plan, 11, j) = <<>>
  BY <1>3, LeftNone
<1> QED
  BY <1>1, <1>4 DEF At

LEMMA IncSteps ==
  ASSUME StorageAssumption, NEW n, NEW i \in 1..11, NEW j, IncAt(n, i, j), Proceed
  PROVE  \E k \in 1..11, l \in Nat : IncAt(n, k, l)'
<1>1. i # 11
  BY IncDone DEF Proceed
<1>2. i \in 1..5 \/ i \in 6..10
  BY <1>1
<1> QED
  BY <1>2, IncEarly, IncLate

LEMMA PutEarly ==
  ASSUME StorageAssumption, NEW n, NEW i \in 1..5, NEW j, PutAt(n, i, j), Proceed
  PROVE  \E k \in 1..8, l \in Nat : PutAt(n, k, l)'
<1> DEFINE plan == Replacement(old, new)
           e == n + 3
<1>1. /\ Sane(old) /\ Proper(new, n) /\ At(plan, i, j) /\ j \in Nat /\ (i \notin {3, 5} => j = 0)
      /\ ~recneeded /\ ur2 = Absent /\ arch = old
  BY DEF PutAt
<1>2. PutShape(plan, old, new, n)
  BY <1>1, PutPlan
<1>3. n \in Nat \ {0} /\ Listed(new) /\ Len(new) \in Nat /\ Len(new) >= n + 4
  BY <1>1, ProperFacts
<1> HIDE DEF plan
<1>4. Listed(plan) /\ \A k \in 1..6 : k \in 1..Len(plan)
  BY <1>2 DEF PutShape
<1>5. \A k \in 1..6 : k \in 1..Ending
  BY DEF Ending
<1>6. CASE i = 1
  <2>1. plan[1] = Do("create", "tmp", 0) /\ At(plan, 1, 0) /\ 1 \in 1..Len(plan)
    BY <1>1, <1>2, <1>4, <1>6 DEF PutShape
  <2>2. Performed(plan, 1, "create", "tmp", 0)
    BY <1>4, <2>1, DoEffects
  <2>3. At(plan, 1 + 1, 0)' /\ UNCHANGED <<old, new, phase>> /\ arch' = arch /\ ur2' = ur2 /\ tmp' = Changed(tmp, plan[1]) /\ ~recneeded'
    BY <1>1, <2>2 DEF Performed
  <2>4. tmp' = <<>>
    BY <2>1, <2>3, ChangedFacts
  <2>5. Ending' = Ending
    BY <2>3 DEF Ending
  <2>6. 2 \in 1..Ending /\ ~(2 \in 6..Ending - 1) /\ 2 # Ending
    BY DEF Ending
  <2>7. PutAt(n, 2, 0)'
    BY <1>1, <2>3, <2>4, <2>5, <2>6 DEF PutAt, plan
  <2> QED
    BY <2>7
<1>7. CASE i = 2
  <2> DEFINE c == FHead(0, FALSE)
  <2>1. plan[2] = WriteAt("tmp", 1, <<c>>) /\ At(plan, 2, 0) /\ 2 \in 1..Len(plan)
    BY <1>1, <1>2, <1>4, <1>7 DEF PutShape
  <2>2. tmp = <<>>
    BY <1>7 DEF PutAt
  <2> HIDE DEF c
  <2>3. Cell(plan, 2, "tmp", 1, c)
    BY <1>4, <2>1, CellEffects
  <2>4. At(plan, 2 + 1, 0)' /\ UNCHANGED <<old, new, phase>> /\ arch' = arch /\ ur2' = ur2 /\ tmp' = PutCell(tmp, 1, c) /\ ~recneeded'
    BY <1>1, <2>3 DEF Cell
  <2>5. WrittenTo(tmp', new, 2, 1 + 0)
    <3>1. Listed(tmp) /\ Len(tmp) = 0 /\ 1 \in Nat \ {0}
      BY <2>2, NoneListed
    <3> DEFINE at == 1
               p == PutCell(tmp, at, c)
    <3>2. at \in Nat \ {0} /\ tmp' = p
      BY <2>4
    <3> HIDE DEF at
    <3>3. /\ Listed(p) /\ Len(p) = IF at > Len(tmp) THEN at ELSE Len(tmp)
          /\ p[at] = c
          /\ \A k \in 1..Len(tmp) : k # at => p[k] = tmp[k]
      BY <3>1, <3>2, PutCellFacts
    <3> HIDE DEF p
    <3>4. Listed(tmp') /\ Len(tmp') = 1
      BY <3>1, <3>2, <3>3 DEF at
    <3> QED
      BY <3>4 DEF WrittenTo
  <2>6. 0 < n + 2
    BY <1>3
  <2>7. Ending' = Ending
    BY <2>4 DEF Ending
  <2>8. 3 \in 1..Ending /\ ~(3 \in 6..Ending - 1) /\ 3 # Ending
    BY DEF Ending
  <2>9. PutAt(n, 3, 0)'
    BY <1>1, <2>4, <2>5, <2>6, <2>7, <2>8 DEF PutAt, plan
  <2> QED
    BY <2>9
<1>8. CASE i = 3
  <2> DEFINE cells == SubSeq(new, 2, e)
             m == n + 2
  <2>1. plan[3] = WriteAt("tmp", 2, cells) /\ At(plan, 3, j) /\ 3 \in 1..Len(plan)
    BY <1>1, <1>2, <1>4, <1>8 DEF PutShape
  <2>2. WrittenTo(tmp, new, 2, 1 + j) /\ j < m
    BY <1>8 DEF PutAt
  <2>3. Listed(cells) /\ Len(cells) = m /\ \A k \in 1..m : cells[k] = new[(2 + k) - 1]
    <3>1. 2 \in Nat \ {0} /\ e \in Nat /\ 2 <= e + 1 /\ e <= Len(new) /\ (e - 2) + 1 = m
      BY <1>3
    <3> HIDE DEF e, m
    <3>2. /\ Listed(SubSeq(new, 2, e)) /\ Len(SubSeq(new, 2, e)) = (e - 2) + 1
          /\ \A k \in 1..(e - 2) + 1 : SubSeq(new, 2, e)[k] = new[(2 + k) - 1]
      BY <1>3, <3>1, PartFrom
    <3> QED
      BY <3>1, <3>2
  <2>4. m \in Nat /\ e = 1 + m
    BY <1>3
  <2> HIDE DEF cells, m
  <2>5. j \in 0..Len(cells) - 1 /\ 2 \in Nat
    BY <1>1, <2>2, <2>3, <2>4
  <2>6. Stored(plan, 3, j, "tmp", 2, cells)
    BY <1>4, <2>1, <2>3, <2>5, WriteEffects
  <2>7. /\ IF j + 1 < m THEN At(plan, 3, j + 1)' ELSE At(plan, 3 + 1, 0)'
        /\ UNCHANGED <<old, new, phase>> /\ arch' = arch /\ tmp' = PutCell(tmp, 2 + j, cells[j + 1]) /\ ur2' = ur2 /\ ~recneeded'
    BY <1>1, <2>3, <2>6 DEF Stored
  <2> DEFINE h == 1 + j
  <2>8. 2 + j = h + 1 /\ (2 + (j + 1)) - 1 = h + 1 /\ j + 1 \in 1..m /\ h \in Nat /\ h + 1 = 1 + (j + 1)
    BY <1>1, <2>2, <2>4
  <2> HIDE DEF h
  <2>9. tmp' = PutCell(tmp, h + 1, new[h + 1])
    <3>1. cells[j + 1] = new[(2 + (j + 1)) - 1]
      BY <2>3, <2>8
    <3>2. tmp' = PutCell(tmp, 2 + j, cells[j + 1])
      BY <2>7
    <3> QED
      BY <3>1, <3>2, <2>8
  <2>10. WrittenTo(tmp, new, 2, h)
    BY <2>2 DEF h
  <2>11. WrittenTo(tmp', new, 2, h + 1)
    <3>1. 2 \in Nat \ {0}
      OBVIOUS
    <3> QED
      BY <2>8, <2>9, <2>10, <3>1, WriteOn
  <2>12. Ending' = Ending
    BY <2>7 DEF Ending
  <2>13. 3 \in 1..Ending /\ ~(3 \in 6..Ending - 1) /\ 3 # Ending /\ 4 \in 1..Ending /\ ~(4 \in 6..Ending - 1) /\ 4 # Ending
    BY DEF Ending
  <2>14. CASE j + 1 < m
    <3>1. WrittenTo(tmp', new, 2, 1 + (j + 1)) /\ j + 1 \in Nat
      BY <1>1, <2>8, <2>11
    <3>2. PutAt(n, 3, j + 1)'
      BY <1>1, <2>7, <2>12, <2>13, <2>14, <3>1 DEF PutAt, plan, m
    <3> QED
      BY <3>1, <3>2
  <2>15. CASE ~(j + 1 < m)
    <3>1. h + 1 = e
      BY <1>1, <2>2, <2>4, <2>8, <2>15
    <3>2. WrittenTo(tmp', new, 2, n + 3)
      BY <2>11, <3>1
    <3>3. PutAt(n, 4, 0)'
      BY <1>1, <2>7, <2>12, <2>13, <2>15, <3>2 DEF PutAt, plan
    <3> QED
      BY <3>3
  <2> QED
    BY <2>14, <2>15
<1>9. CASE i = 4
  <2> DEFINE c == new[1]
  <2>1. plan[4] = WriteAt("tmp", 1, <<c>>) /\ At(plan, 4, 0) /\ 4 \in 1..Len(plan)
    BY <1>1, <1>2, <1>4, <1>9 DEF PutShape
  <2>2. WrittenTo(tmp, new, 1 + 1, e) /\ e \in Nat /\ 1 <= e
    BY <1>3, <1>9 DEF PutAt
  <2> HIDE DEF c, e
  <2>3. Cell(plan, 4, "tmp", 1, c)
    BY <1>4, <2>1, CellEffects
  <2>4. At(plan, 4 + 1, 0)' /\ UNCHANGED <<old, new, phase>> /\ arch' = arch /\ tmp' = PutCell(tmp, 1, new[1]) /\ ur2' = ur2 /\ ~recneeded'
    BY <1>1, <2>3 DEF Cell, c
  <2>5. WrittenTo(PutCell(tmp, 1, new[1]), new, 1, e)
    <3>1. 1 \in Nat \ {0}
      OBVIOUS
    <3> QED
      BY <2>2, <3>1, WriteBefore
  <2>6. WrittenTo(tmp', new, 1, (n + 3) + 0) /\ 0 < Len(new) - (n + 3)
    <3>1. (n + 3) + 0 = n + 3 /\ 0 < Len(new) - (n + 3)
      BY <1>3
    <3> QED
      BY <2>4, <2>5, <3>1 DEF e
  <2>7. Ending' = Ending
    BY <2>4 DEF Ending
  <2>8. 5 \in 1..Ending /\ ~(5 \in 6..Ending - 1) /\ 5 # Ending
    BY DEF Ending
  <2>9. PutAt(n, 5, 0)'
    BY <1>1, <2>4, <2>6, <2>7, <2>8 DEF PutAt, plan
  <2> QED
    BY <2>9
<1>10. CASE i = 5
  <2> DEFINE cells == SubSeq(new, n + 4, Len(new))
             m == Len(new) - (n + 3)
  <2>1. plan[5] = WriteAt("tmp", n + 4, cells) /\ At(plan, 5, j) /\ 5 \in 1..Len(plan)
    BY <1>1, <1>2, <1>4, <1>10 DEF PutShape
  <2>2. WrittenTo(tmp, new, 1, (n + 3) + j) /\ j < m
    BY <1>10 DEF PutAt
  <2>3. Listed(cells) /\ Len(cells) = m /\ \A k \in 1..m : cells[k] = new[((n + 4) + k) - 1]
    <3> DEFINE a == n + 4
               b == Len(new)
    <3>1. a \in Nat \ {0} /\ b \in Nat /\ a <= b + 1 /\ b <= Len(new) /\ (b - a) + 1 = m
      BY <1>3
    <3> HIDE DEF a, b, m
    <3>2. /\ Listed(SubSeq(new, a, b)) /\ Len(SubSeq(new, a, b)) = (b - a) + 1
          /\ \A k \in 1..(b - a) + 1 : SubSeq(new, a, b)[k] = new[(a + k) - 1]
      BY <1>3, <3>1, PartFrom
    <3> QED
      BY <3>1, <3>2 DEF a, b
  <2>4. m \in Nat /\ Len(new) = (n + 3) + m
    BY <1>3
  <2> HIDE DEF cells, m
  <2>5. j \in 0..Len(cells) - 1 /\ n + 4 \in Nat
    BY <1>1, <1>3, <2>2, <2>3, <2>4
  <2>6. Stored(plan, 5, j, "tmp", n + 4, cells)
    BY <1>4, <2>1, <2>3, <2>5, WriteEffects
  <2>7. /\ IF j + 1 < m THEN At(plan, 5, j + 1)' ELSE At(plan, 5 + 1, 0)'
        /\ UNCHANGED <<old, new, phase>> /\ arch' = arch /\ tmp' = PutCell(tmp, (n + 4) + j, cells[j + 1]) /\ ur2' = ur2 /\ ~recneeded'
    BY <1>1, <2>3, <2>6 DEF Stored
  <2> DEFINE h == (n + 3) + j
  <2>8. (n + 4) + j = h + 1 /\ ((n + 4) + (j + 1)) - 1 = h + 1 /\ j + 1 \in 1..m /\ h \in Nat /\ h + 1 = (n + 3) + (j + 1)
    BY <1>1, <1>3, <2>2, <2>4
  <2> HIDE DEF h
  <2>9. tmp' = PutCell(tmp, h + 1, new[h + 1])
    <3>1. cells[j + 1] = new[((n + 4) + (j + 1)) - 1]
      BY <2>3, <2>8
    <3>2. tmp' = PutCell(tmp, (n + 4) + j, cells[j + 1])
      BY <2>7
    <3> QED
      BY <3>1, <3>2, <2>8
  <2>10. WrittenTo(tmp, new, 1, h)
    BY <2>2 DEF h
  <2>11. WrittenTo(tmp', new, 1, h + 1)
    <3>1. 1 \in Nat \ {0}
      OBVIOUS
    <3> QED
      BY <2>8, <2>9, <2>10, <3>1, WriteOn
  <2>12. Ending' = Ending
    BY <2>7 DEF Ending
  <2>13. 5 \in 1..Ending /\ ~(5 \in 6..Ending - 1) /\ 5 # Ending /\ 6 \in 1..Ending /\ 6 # Ending
    BY DEF Ending
  <2>14. CASE j + 1 < m
    <3>1. WrittenTo(tmp', new, 1, (n + 3) + (j + 1)) /\ j + 1 \in Nat
      BY <1>1, <2>8, <2>11
    <3>2. PutAt(n, 5, j + 1)'
      BY <1>1, <2>7, <2>12, <2>13, <2>14, <3>1 DEF PutAt, plan, m
    <3> QED
      BY <3>1, <3>2
  <2>15. CASE ~(j + 1 < m)
    <3>1. h + 1 = Len(new)
      BY <1>1, <2>2, <2>4, <2>8, <2>15
    <3>2. tmp' = new
      BY <1>3, <2>11, <3>1, WrittenToEnd
    <3>3. PutAt(n, 6, 0)'
      BY <1>1, <2>7, <2>12, <2>13, <2>15, <3>2 DEF PutAt, plan
    <3> QED
      BY <3>3
  <2> QED
    BY <2>14, <2>15
<1> QED
  BY <1>6, <1>7, <1>8, <1>9, <1>10

LEMMA PutLate ==
  ASSUME StorageAssumption, NEW n, NEW i \in 6..Ending - 1, NEW j, PutAt(n, i, j), Proceed
  PROVE  \E k \in 1..8, l \in Nat : PutAt(n, k, l)'
<1> DEFINE plan == Replacement(old, new)
<1>1. /\ Sane(old) /\ Proper(new, n) /\ At(plan, i, 0)
      /\ ~recneeded /\ ur2 = Absent /\ tmp = new /\ arch = IF i = 6 THEN old ELSE Absent
  BY DEF PutAt
<1>2. PutShape(plan, old, new, n)
  BY <1>1, PutPlan
<1> HIDE DEF plan
<1>3. Listed(plan) /\ Len(plan) = IF Exists(old) THEN 7 ELSE 6
  BY <1>2 DEF PutShape
<1>4. i \in {6, 7} /\ i \in 1..Len(plan) /\ Len(plan) = Ending - 1 /\ (i = 7 => Exists(old)) /\ Ending \in {7, 8}
  BY <1>3 DEF Ending
<1>5. CASE i = Len(plan)
  <2>1. plan[i] = Do("rename", "tmp", 0)
    BY <1>2, <1>5 DEF PutShape
  <2>2. Performed(plan, i, "rename", "tmp", 0)
    BY <1>1, <1>3, <1>4, <2>1, DoEffects
  <2>3. At(plan, i + 1, 0)' /\ UNCHANGED <<old, new, phase>> /\ arch' = tmp /\ ur2' = ur2 /\ ~recneeded'
    BY <1>1, <2>2 DEF Performed
  <2>4. PICK k \in {7, 8} : k = Ending
    BY <1>4
  <2>5. Ending' = k /\ i + 1 = k /\ k \in 1..k /\ ~(k \in 6..k - 1)
    BY <1>4, <1>5, <2>3, <2>4 DEF Ending
  <2>6. At(Replacement(old, new), k, 0)'
    BY <2>3, <2>5 DEF At, plan
  <2>7. PutAt(n, k, 0)'
    BY <1>1, <2>3, <2>5, <2>6 DEF PutAt
  <2> QED
    BY <2>7
<1>6. CASE i # Len(plan)
  <2>1. i = 6 /\ Exists(old) /\ Ending = 8
    BY <1>3, <1>4, <1>6 DEF Ending
  <2>2. plan[6] = Do("delete", "arch", 0) /\ At(plan, 6, 0) /\ 6 \in 1..Len(plan)
    BY <1>1, <1>2, <1>4, <2>1 DEF PutShape
  <2>3. Performed(plan, 6, "delete", "arch", 0)
    BY <1>3, <2>2, DoEffects
  <2>4. At(plan, 6 + 1, 0)' /\ UNCHANGED <<old, new, phase>> /\ arch' = Changed(arch, plan[6]) /\ tmp' = tmp /\ ur2' = ur2 /\ ~recneeded'
    BY <1>1, <2>3 DEF Performed
  <2>5. arch' = Absent
    BY <2>2, <2>4, ChangedFacts
  <2>6. Ending' = 8
    BY <2>1, <2>4 DEF Ending
  <2>7. PutAt(n, 7, 0)'
    BY <1>1, <2>4, <2>5, <2>6 DEF PutAt, plan
  <2> QED
    BY <2>7
<1> QED
  BY <1>5, <1>6

LEMMA PutDone ==
  ASSUME StorageAssumption, NEW n, NEW j, PutAt(n, Ending, j)
  PROVE  todo = <<>> /\ arch = new /\ ur2 = Absent /\ ~recneeded
<1> DEFINE plan == Replacement(old, new)
<1>1. Proper(new, n) /\ At(plan, Ending, j) /\ arch = new /\ ur2 = Absent /\ ~recneeded
  BY DEF PutAt
<1>2. PutShape(plan, old, new, n)
  BY <1>1, PutPlan
<1> HIDE DEF plan
<1>3. Listed(plan) /\ Ending = Len(plan) + 1
  BY <1>2 DEF PutShape, Ending
<1>4. Left(plan, Ending, j) = <<>>
  BY <1>3, LeftNone
<1> QED
  BY <1>1, <1>4 DEF At

LEMMA PutSteps ==
  ASSUME StorageAssumption, NEW n, NEW i \in 1..8, NEW j, PutAt(n, i, j), Proceed
  PROVE  \E k \in 1..8, l \in Nat : PutAt(n, k, l)'
<1>1. i # Ending
  BY PutDone DEF Proceed
<1>2. i \in 1..Ending
  BY DEF PutAt
<1>3. Ending \in {7, 8}
  BY DEF Ending
<1>4. i \in 1..5 \/ i \in 6..Ending - 1
  BY <1>1, <1>2, <1>3
<1> QED
  BY <1>4, PutEarly, PutLate

LEMMA RecoveredHeads ==
  ASSUME StorageAssumption, NEW n, NEW f, Proper(f, n)
  PROVE  /\ Listed(SubSeq(RecoverFile(f), 2, 3)) /\ Len(SubSeq(RecoverFile(f), 2, 3)) = 2
         /\ \A k \in 1..2 : SubSeq(RecoverFile(f), 2, 3)[k] = f[k]
<1> DEFINE r == RecoverFile(f)
<1>1. Archived(f, n)
  BY ProperFacts
<1>2. r[2] = f[1] /\ r[3] = f[2]
  BY <1>1, RecoverFileFacts
<1>3. Listed(r) /\ Len(r) \in Nat /\ Len(r) >= 7
  BY RecoverFileLong, ListFacts
<1> HIDE DEF r
<1> DEFINE a == 2
           b == 3
           x == SubSeq(r, a, b)
<1>4. a \in Nat \ {0} /\ b \in Nat /\ a <= b + 1 /\ b <= Len(r) /\ (b - a) + 1 = 2 /\ a = 2 /\ b = 3
  BY <1>3
<1> HIDE DEF a, b
<1>5. /\ Listed(x) /\ Len(x) = (b - a) + 1
      /\ \A k \in 1..(b - a) + 1 : x[k] = r[(a + k) - 1]
  BY <1>3, <1>4, PartFrom
<1> HIDE DEF x
<1>6. Listed(x) /\ Len(x) = 2 /\ x[1] = f[1] /\ x[2] = f[2]
  <2>1. (a + 1) - 1 = 2 /\ (a + 2) - 1 = 3 /\ 1 \in 1..(b - a) + 1 /\ 2 \in 1..(b - a) + 1
    BY <1>4
  <2> QED
    BY <2>1, <1>2, <1>4, <1>5
<1>7. x = SubSeq(r, 2, 3)
  BY <1>4 DEF x
<1>8. \A k \in 1..2 : k = 1 \/ k = 2
  OBVIOUS
<1> QED
  BY <1>6, <1>7, <1>8 DEF r

LEMMA RecoveredTail ==
  ASSUME StorageAssumption, NEW n, NEW f, Proper(f, n), NEW r, r = RecoverFile(f)
  PROVE  /\ Listed(SubSeq(r, 6, Len(r))) /\ Len(SubSeq(r, 6, Len(r))) = Len(f) - (n + 2)
         /\ \A k \in 1..Len(f) - (n + 2) : SubSeq(r, 6, Len(r))[k] = f[(n + 2) + k]
<1> DEFINE l == Len(r)
           cells == SubSeq(r, 6, l)
<1>1. Archived(f, n) /\ l = 5 + (Len(f) - (n + 2))
  BY ProperFacts, RecoverFileLong
<1> HIDE DEF l
<1>2. /\ Listed(SubSeq(RecoverFile(f), 6, l)) /\ Len(SubSeq(RecoverFile(f), 6, l)) = Len(f) - (n + 2)
      /\ \A k \in 1..Len(f) - (n + 2) : SubSeq(RecoverFile(f), 6, l)[k] = f[(n + 2) + k]
  BY <1>1, TailOfRecoverFile
<1>3. SubSeq(RecoverFile(f), 6, l) = cells
  OBVIOUS
<1> HIDE DEF cells
<1>4. Listed(cells) /\ Len(cells) = Len(f) - (n + 2) /\ \A k \in 1..Len(f) - (n + 2) : cells[k] = f[(n + 2) + k]
  BY <1>2, <1>3
<1> QED
  BY <1>4 DEF cells, l

LEMMA RecSteps ==
  ASSUME StorageAssumption, NEW n, NEW i \in 1..5, NEW j, RecAt(n, i, j), Proceed, i # 5
  PROVE  \E k \in 1..5, l \in Nat : RecAt(n, k, l)'
<1> DEFINE R == RecoverFile(old)
           plan == RecoverInPlace(R)
           c == n + 2
<1>1. Proper(old, n) /\ new = old /\ At(plan, i, j) /\ j \in Nat /\ (i \notin {1, 3} => j = 0) /\ ~recneeded /\ ur2 = R
  BY DEF RecAt
<1>2. RecShape(plan, R, n)
  BY <1>1, RecPlan
<1>3. n \in Nat \ {0} /\ Listed(old) /\ Len(old) \in Nat /\ Len(old) >= n + 4 /\ Archived(old, n)
  BY <1>1, ProperFacts
<1>4. Listed(R) /\ Len(R) = 5 + (Len(old) - c)
  BY <1>1, RecoverFileLong
<1>5. c \in Nat /\ 1 \in 1..c /\ 2 \in 1..c /\ 3 \in Nat \ {0} /\ 1 \in Nat \ {0} /\ 2 \in Nat \ {0}
  BY <1>3
<1> HIDE DEF plan, R
<1>6. Listed(plan) /\ Len(plan) = 4 /\ \A k \in 1..4 : k \in 1..Len(plan)
  BY <1>2 DEF RecShape
<1>7. CASE i = 1
  <2> DEFINE cells == SubSeq(R, 2, 3)
  <2>1. plan[1] = WriteAt("arch", 1, cells) /\ At(plan, 1, j) /\ 1 \in 1..Len(plan)
    BY <1>1, <1>2, <1>6, <1>7 DEF RecShape
  <2>2. Agreeing(arch, old, 3, c) /\ j < 2 /\ (j = 1 => arch[1] = old[1])
    BY <1>7 DEF RecAt
  <2>3. Listed(cells) /\ Len(cells) = 2 /\ \A k \in 1..2 : cells[k] = old[k]
    BY <1>1, RecoveredHeads DEF R
  <2> HIDE DEF cells
  <2>4. j \in 0..Len(cells) - 1 /\ 1 \in Nat
    BY <1>1, <2>2, <2>3
  <2>5. Stored(plan, 1, j, "arch", 1, cells)
    BY <1>6, <2>1, <2>3, <2>4, WriteEffects
  <2>6. /\ IF j + 1 < 2 THEN At(plan, 1, j + 1)' ELSE At(plan, 1 + 1, 0)'
        /\ UNCHANGED <<old, new, phase>> /\ arch' = PutCell(arch, 1 + j, cells[j + 1]) /\ ur2' = ur2 /\ ~recneeded'
    BY <1>1, <2>3, <2>5 DEF Stored
  <2> HIDE DEF c
  <2>7. CASE j = 0
    <3>1. 1 + j = 1 /\ j + 1 = 1 /\ 1 \in 1..2
      BY <2>7
    <3>2. arch' = PutCell(arch, 1, old[1])
      BY <2>3, <2>6, <3>1
    <3>3. Agreeing(PutCell(arch, 1, old[1]), old, 3, c)
      BY <1>5, <2>2, WriteIn
    <3>4. PutCell(arch, 1, old[1])[1] = old[1]
      <4>1. Listed(arch)
        BY <2>2 DEF Agreeing
      <4> QED
        BY <1>5, <4>1, PutCellFacts
    <3>5. RecAt(n, 1, 1)'
      <4>1. At(plan, 1, 1)'
        BY <2>6, <3>1
      <4>2. Agreeing(arch', old, 3, n + 2) /\ arch'[1] = old[1]
        BY <3>2, <3>3, <3>4 DEF c
      <4> QED
        BY <1>1, <2>6, <4>1, <4>2 DEF RecAt, plan, R
    <3> QED
      BY <3>5
  <2>8. CASE j = 1
    <3>1. 1 + j = 2 /\ j + 1 = 2 /\ 2 \in 1..2 /\ ~(j + 1 < 2)
      BY <2>8
    <3> DEFINE p == PutCell(arch, 2, old[2])
    <3>2. arch' = p
      BY <2>3, <2>6, <3>1
    <3>3. Agreeing(p, old, 3, c)
      BY <1>5, <2>2, WriteIn
    <3>4. Listed(arch) /\ Len(arch) >= c /\ Len(arch) \in Nat
      BY <2>2, ListFacts DEF Agreeing
    <3>5. p[2] = old[2] /\ \A k \in 1..Len(arch) : k # 2 => p[k] = arch[k]
      BY <1>5, <3>4, PutCellFacts
    <3> HIDE DEF p
    <3>6. 1 \in 1..Len(arch)
      BY <1>5, <3>4
    <3>7. p[1] = old[1]
      BY <2>2, <2>8, <3>5, <3>6
    <3>8. Agreeing(p, old, 1, c)
      <4>1. Listed(p) /\ Len(p) >= c /\ \A k \in 3..c : p[k] = old[k]
        BY <3>3 DEF Agreeing
      <4>2. \A k \in 1..c : k = 1 \/ k = 2 \/ k \in 3..c
        BY <1>5
      <4>3. \A k \in 1..c : p[k] = old[k]
        BY <3>5, <3>7, <4>1, <4>2
      <4> QED
        BY <4>1, <4>3 DEF Agreeing
    <3>9. RecAt(n, 2, 0)'
      <4>1. At(plan, 2, 0)'
        BY <2>6, <3>1
      <4>2. Agreeing(arch', old, 1, n + 2)
        BY <3>2, <3>8 DEF c
      <4> QED
        BY <1>1, <2>6, <4>1, <4>2 DEF RecAt, plan, R
    <3> QED
      BY <3>9
  <2> QED
    BY <1>1, <2>2, <2>7, <2>8
<1>8. CASE i = 2
  <2>1. plan[2] = Do("cut", "arch", c) /\ At(plan, 2, 0) /\ 2 \in 1..Len(plan)
    BY <1>1, <1>2, <1>6, <1>8 DEF RecShape
  <2>2. Agreeing(arch, old, 1, c)
    BY <1>8 DEF RecAt
  <2> HIDE DEF c
  <2>3. Performed(plan, 2, "cut", "arch", c)
    BY <1>6, <2>1, DoEffects
  <2>4. At(plan, 2 + 1, 0)' /\ UNCHANGED <<old, new, phase>> /\ arch' = Changed(arch, plan[2]) /\ ur2' = ur2 /\ ~recneeded'
    BY <1>1, <2>3 DEF Performed
  <2>5. arch' = SubSeq(arch, 1, c)
    BY <2>1, <2>4, ChangedFacts
  <2>6. WrittenTo(arch', old, 1, c)
    BY <1>5, <2>2, <2>5, CutAgrees
  <2>7. WrittenTo(arch', old, 1, (n + 2) + 0) /\ 0 < Len(old) - (n + 2)
    <3>1. (n + 2) + 0 = c /\ 0 < Len(old) - (n + 2)
      BY <1>3 DEF c
    <3> QED
      BY <2>6, <3>1
  <2>8. RecAt(n, 3, 0)'
    BY <1>1, <2>4, <2>7 DEF RecAt, plan, R
  <2> QED
    BY <2>8
<1>9. CASE i = 3
  <2> DEFINE cells == SubSeq(R, 6, Len(R))
             m == Len(old) - c
  <2>1. plan[3] = WriteAt("arch", n + 3, cells) /\ At(plan, 3, j) /\ 3 \in 1..Len(plan)
    BY <1>1, <1>2, <1>6, <1>9 DEF RecShape
  <2>2. WrittenTo(arch, old, 1, c + j) /\ j < m
    BY <1>9 DEF RecAt
  <2>3. Listed(cells) /\ Len(cells) = m /\ \A k \in 1..m : cells[k] = old[c + k]
    BY <1>1, RecoveredTail DEF R
  <2>4. m \in Nat /\ Len(old) = c + m /\ n + 3 = c + 1
    BY <1>3
  <2> HIDE DEF cells, m, c
  <2>5. j \in 0..Len(cells) - 1 /\ n + 3 \in Nat
    BY <1>1, <1>3, <2>2, <2>3, <2>4
  <2>6. Stored(plan, 3, j, "arch", n + 3, cells)
    BY <1>6, <2>1, <2>3, <2>5, WriteEffects
  <2>7. /\ IF j + 1 < m THEN At(plan, 3, j + 1)' ELSE At(plan, 3 + 1, 0)'
        /\ UNCHANGED <<old, new, phase>> /\ arch' = PutCell(arch, (n + 3) + j, cells[j + 1]) /\ ur2' = ur2 /\ ~recneeded'
    BY <1>1, <2>3, <2>6 DEF Stored
  <2> DEFINE h == c + j
  <2>8. (n + 3) + j = h + 1 /\ c + (j + 1) = h + 1 /\ j + 1 \in 1..m /\ h \in Nat
    BY <1>1, <1>5, <2>2, <2>4
  <2> HIDE DEF h
  <2>9. arch' = PutCell(arch, h + 1, old[h + 1])
    <3>1. cells[j + 1] = old[c + (j + 1)]
      BY <2>3, <2>8
    <3>2. arch' = PutCell(arch, (n + 3) + j, cells[j + 1])
      BY <2>7
    <3> QED
      BY <3>1, <3>2, <2>8
  <2>10. WrittenTo(arch, old, 1, h)
    BY <2>2 DEF h
  <2>11. WrittenTo(arch', old, 1, h + 1)
    BY <1>5, <2>8, <2>9, <2>10, WriteOn
  <2>12. CASE j + 1 < m
    <3>1. WrittenTo(arch', old, 1, (n + 2) + (j + 1)) /\ j + 1 \in Nat
      BY <1>1, <2>8, <2>11 DEF c
    <3>2. j + 1 < Len(old) - (n + 2)
      BY <2>12 DEF m, c
    <3>3. RecAt(n, 3, j + 1)'
      BY <1>1, <2>7, <2>12, <3>1, <3>2 DEF RecAt, plan, R
    <3> QED
      BY <3>1, <3>3
  <2>13. CASE ~(j + 1 < m)
    <3>1. h + 1 = Len(old)
      BY <1>1, <1>5, <2>2, <2>4, <2>8, <2>13
    <3>2. arch' = old
      BY <1>3, <2>11, <3>1, WrittenToEnd
    <3>3. RecAt(n, 4, 0)'
      BY <1>1, <2>7, <2>13, <3>2 DEF RecAt, plan, R
    <3> QED
      BY <3>3
  <2> QED
    BY <2>12, <2>13
<1>10. CASE i = 4
  <2>1. plan[4] = Do("delete", "ur2", 0) /\ At(plan, 4, 0) /\ 4 \in 1..Len(plan)
    BY <1>1, <1>2, <1>6, <1>10 DEF RecShape
  <2>2. arch = old
    BY <1>10 DEF RecAt
  <2>3. Performed(plan, 4, "delete", "ur2", 0)
    BY <1>6, <2>1, DoEffects
  <2>4. At(plan, 4 + 1, 0)' /\ UNCHANGED <<old, new, phase>> /\ arch' = arch /\ ur2' = Changed(ur2, plan[4]) /\ ~recneeded'
    BY <1>1, <2>3 DEF Performed
  <2>5. ur2' = Absent
    BY <2>1, <2>4, ChangedFacts
  <2>6. RecAt(n, 5, 0)'
    BY <1>1, <2>2, <2>4, <2>5 DEF RecAt, plan, R
  <2> QED
    BY <2>6
<1> QED
  BY <1>7, <1>8, <1>9, <1>10

LEMMA RecDone ==
  ASSUME StorageAssumption, NEW n, NEW j, RecAt(n, 5, j)
  PROVE  todo = <<>> /\ arch = new /\ ur2 = Absent /\ ~recneeded
<1> DEFINE R == RecoverFile(old)
           plan == RecoverInPlace(R)
<1>1. Proper(old, n) /\ At(plan, 5, j) /\ arch = new /\ ur2 = Absent /\ ~recneeded
  BY DEF RecAt
<1>2. RecShape(plan, R, n)
  BY <1>1, RecPlan
<1> HIDE DEF plan
<1>3. Listed(plan) /\ 5 = Len(plan) + 1
  BY <1>2 DEF RecShape
<1>4. Left(plan, 5, j) = <<>>
  BY <1>3, LeftNone
<1> QED
  BY <1>1, <1>4 DEF At

LEMMA ProceedStep ==
  ASSUME StorageAssumption, StorageInv, Proceed
  PROVE  StorageInv'
<1>1. phase \in Running /\ todo # <<>> /\ UNCHANGED <<old, new, phase>>
  BY DEF Proceed
<1>2. (Sane(old) /\ Sane(new))'
  BY <1>1 DEF StorageInv
<1>3. RepairGivesBack'
  BY <1>1 DEF RepairGivesBack, Running
<1>4. CASE phase = "IncUpdate"
  <2>1. PICK n \in Nat, i \in 1..11, j \in Nat : IncAt(n, i, j)
    BY <1>4 DEF StorageInv
  <2>2. \E k \in 1..11, l \in Nat : IncAt(n, k, l)'
    BY <2>1, IncSteps
  <2>3. (\E m \in Nat, k \in 1..11, l \in Nat : IncAt(m, k, l))'
    BY <2>2
  <2> QED
    BY <1>1, <1>2, <1>3, <1>4, <2>3 DEF StorageInv
<1>5. CASE phase \in {"Update", "Create"}
  <2>1. PICK n \in Nat, i \in 1..8, j \in Nat : PutAt(n, i, j)
    BY <1>5 DEF StorageInv
  <2>2. \E k \in 1..8, l \in Nat : PutAt(n, k, l)'
    BY <2>1, PutSteps
  <2>3. (\E m \in Nat, k \in 1..8, l \in Nat : PutAt(m, k, l))'
    BY <2>2
  <2> QED
    BY <1>1, <1>2, <1>3, <1>5, <2>3 DEF StorageInv
<1>6. CASE phase = "Recover"
  <2>1. PICK n \in Nat, i \in 1..5, j \in Nat : RecAt(n, i, j)
    BY <1>6 DEF StorageInv
  <2>2. i # 5
    BY <1>1, <2>1, RecDone
  <2>3. \E k \in 1..5, l \in Nat : RecAt(n, k, l)'
    BY <2>1, <2>2, RecSteps
  <2>4. (\E m \in Nat, k \in 1..5, l \in Nat : RecAt(m, k, l))'
    BY <2>3
  <2> QED
    BY <1>1, <1>2, <1>3, <1>6, <2>4 DEF StorageInv
<1> QED
  BY <1>1, <1>4, <1>5, <1>6 DEF Running

LEMMA FinishStep ==
  ASSUME StorageAssumption, StorageInv, Finish
  PROVE  StorageInv'
<1>1. phase \in Running /\ todo = <<>> /\ phase' = "Idle" /\ old' = arch /\ new' = arch
      /\ arch' = arch /\ ur2' = ur2 /\ recneeded' = recneeded
  BY DEF Finish
<1>2. arch = new /\ ur2 = Absent /\ ~recneeded
  <2>1. CASE phase = "IncUpdate"
    <3>1. PICK n \in Nat, i \in 1..11, j \in Nat : IncAt(n, i, j)
      BY <2>1 DEF StorageInv
    <3> DEFINE plan == Incremental(old, new)
    <3>2. IncShape(plan, old, new, n) /\ At(plan, i, j)
      BY <3>1, IncPlan DEF IncAt
    <3> HIDE DEF plan
    <3>3. Listed(plan) /\ Len(plan) = 10
      BY <3>2 DEF IncShape
    <3>4. i \notin 1..10
      BY <1>1, <3>2, <3>3, LeftFacts DEF At
    <3>5. i = 11
      BY <3>4
    <3> QED
      BY <3>1, <3>5, IncDone
  <2>2. CASE phase \in {"Update", "Create"}
    <3>1. PICK n \in Nat, i \in 1..8, j \in Nat : PutAt(n, i, j)
      BY <2>2 DEF StorageInv
    <3> DEFINE plan == Replacement(old, new)
    <3>2. PutShape(plan, old, new, n) /\ At(plan, i, j) /\ i \in 1..Ending
      BY <3>1, PutPlan DEF PutAt
    <3> HIDE DEF plan
    <3>3. Listed(plan) /\ Len(plan) = Ending - 1 /\ Ending \in {7, 8}
      BY <3>2 DEF PutShape, Ending
    <3>4. i \notin 1..Len(plan)
      BY <1>1, <3>2, <3>3, LeftFacts DEF At
    <3>5. i = Ending
      BY <3>2, <3>3, <3>4
    <3> QED
      BY <3>1, <3>5, PutDone
  <2>3. CASE phase = "Recover"
    <3>1. PICK n \in Nat, i \in 1..5, j \in Nat : RecAt(n, i, j)
      BY <2>3 DEF StorageInv
    <3> DEFINE R == RecoverFile(old)
               plan == RecoverInPlace(R)
    <3>2. RecShape(plan, R, n) /\ At(plan, i, j)
      BY <3>1, RecPlan DEF RecAt
    <3> HIDE DEF plan
    <3>3. Listed(plan) /\ Len(plan) = 4
      BY <3>2 DEF RecShape
    <3>4. i \notin 1..4
      BY <1>1, <3>2, <3>3, LeftFacts DEF At
    <3>5. i = 5
      BY <3>4
    <3> QED
      BY <3>1, <3>5, RecDone
  <2> QED
    BY <1>1, <2>1, <2>2, <2>3 DEF Running
<1>3. (Sane(old) /\ Sane(new))'
  BY <1>1, <1>2 DEF StorageInv
<1>4. RepairGivesBack' /\ Unfinished'
  BY <1>1, <1>2 DEF RepairGivesBack, Unfinished
<1> QED
  BY <1>1, <1>2, <1>3, <1>4 DEF StorageInv

------------------------------------------------------------------------------
\* What every stage of a command keeps.
LEMMA AgreesOld ==
  ASSUME StorageAssumption, NEW f, NEW g, NEW n, Proper(f, n), Proper(g, n + 1),
         NEW a, NEW lo \in 1..3, NEW hi \in Nat, hi >= n + 2, WrittenTo(a, g, lo, hi)
  PROVE  Agreeing(a, f, 3, n + 2)
<1>1. Listed(a) /\ Len(a) = hi /\ (\A k \in lo..hi : a[k] = g[k]) /\ n \in Nat
  BY ProperFacts DEF WrittenTo
<1>2. \A k \in 3..n + 2 : f[k] = g[k]
  BY SameData
<1>3. \A k \in 3..n + 2 : k \in lo..hi
  BY <1>1
<1> QED
  BY <1>1, <1>2, <1>3 DEF Agreeing

LEMMA AgreesSelf ==
  ASSUME StorageAssumption, NEW f, NEW n, Proper(f, n)
  PROVE  Agreeing(f, f, 3, n + 2)
<1>1. Listed(f) /\ Len(f) >= n + 4 /\ Len(f) \in Nat /\ n \in Nat
  BY ProperFacts
<1> QED
  BY <1>1 DEF Agreeing

LEMMA IncKept ==
  ASSUME StorageAssumption, NEW n \in Nat, NEW i \in 1..11, NEW j \in Nat, IncAt(n, i, j)
  PROVE  Unfinished /\ (recneeded => Covered(n))
<1>1. Proper(old, n) /\ Proper(new, n + 1) /\ (recneeded <=> i \in 5..10)
  BY DEF IncAt
<1>2. CASE i \in 1..2
  BY <1>1, <1>2 DEF IncAt, Unfinished
<1>3. CASE i = 3
  BY <1>1, <1>3 DEF IncAt, Unfinished, Short
<1>4. CASE i \in 4..10
  <2>1. ur2 = RecoverFile(old)
    BY <1>4 DEF IncAt
  <2>2. Agreeing(arch, old, 3, n + 2)
    <3>1. CASE i \in 4..5
      BY <1>1, <3>1, AgreesSelf DEF IncAt
    <3>2. CASE i \in 6..9
      <4>1. WrittenTo(arch, new, 3, (n + 2) + j) \/ WrittenTo(arch, new, 3, n + 4) \/ WrittenTo(arch, new, 2, n + 4)
              \/ WrittenTo(arch, new, 1, (n + 4) + j)
        BY <3>2 DEF IncAt
      <4>2. PICK lo \in 1..3, hi \in Nat : hi >= n + 2 /\ WrittenTo(arch, new, lo, hi)
        <5>1. (n + 2) + j \in Nat /\ (n + 2) + j >= n + 2 /\ n + 4 \in Nat /\ n + 4 >= n + 2 /\ (n + 4) + j \in Nat /\ (n + 4) + j >= n + 2
          OBVIOUS
        <5>2. 1 \in 1..3 /\ 2 \in 1..3 /\ 3 \in 1..3
          OBVIOUS
        <5> QED
          BY <4>1, <5>1, <5>2
      <4> QED
        BY <1>1, <4>2, AgreesOld
    <3>3. CASE i = 10
      <4>1. arch = new /\ Listed(new) /\ Len(new) \in Nat /\ Len(new) >= n + 5
        <5>1. arch = new
          BY <3>3 DEF IncAt
        <5>2. Listed(new) /\ Len(new) \in Nat /\ Len(new) >= (n + 1) + 4
          BY <1>1, ProperFacts
        <5>3. (n + 1) + 4 = n + 5
          OBVIOUS
        <5> QED
          BY <5>1, <5>2, <5>3
      <4>2. WrittenTo(arch, new, 1, Len(new)) /\ Len(new) >= n + 2 /\ 1 \in 1..3
        BY <4>1 DEF WrittenTo
      <4> QED
        BY <1>1, <4>1, <4>2, AgreesOld
    <3> QED
      BY <1>4, <3>1, <3>2, <3>3
  <2> QED
    BY <1>1, <2>1, <2>2 DEF Unfinished, Covered
<1>5. CASE i = 11
  BY <1>1, <1>5 DEF IncAt, Unfinished
<1> QED
  BY <1>2, <1>3, <1>4, <1>5

LEMMA PutKept ==
  ASSUME StorageAssumption, NEW n \in Nat, NEW i \in 1..8, NEW j \in Nat, PutAt(n, i, j)
  PROVE  /\ ~recneeded /\ ur2 = Absent
         /\ Unfinished \/ (tmp = new /\ arch = Absent /\ Len(todo) = 1 /\ todo[1].do = "rename")
<1>1. ~recneeded /\ ur2 = Absent /\ Proper(new, n) /\ At(Replacement(old, new), i, j) /\ i \in 1..Ending /\ (i \notin {3, 5} => j = 0)
  BY DEF PutAt
<1>2. Ending \in {7, 8}
  BY DEF Ending
<1>3. CASE i \in 1..6 \/ i = Ending
  BY <1>1, <1>2, <1>3 DEF PutAt, Unfinished
<1>4. CASE i = 7 /\ i # Ending
  <2>1. Ending = 8 /\ tmp = new /\ arch = Absent /\ j = 0
    BY <1>1, <1>2, <1>4 DEF PutAt
  <2> DEFINE plan == Replacement(old, new)
  <2>2. PutShape(plan, old, new, n)
    BY <1>1, PutPlan
  <2> HIDE DEF plan
  <2>3. Listed(plan) /\ Len(plan) = 7 /\ plan[7] = Do("rename", "tmp", 0)
    BY <2>1, <2>2 DEF PutShape, Ending
  <2>4. 7 \in 1..Len(plan) /\ (Len(plan) - 7) + 1 = 1
    BY <2>3
  <2>5. Len(Left(plan, 7, 0)) = 1 /\ Left(plan, 7, 0)[1] = Later(plan[7], 0)
    <3>1. Len(Left(plan, 7, 0)) = (Len(plan) - 7) + 1 /\ Left(plan, 7, 0)[1] = Later(plan[7], 0)
      <4> DEFINE s == 7
      <4>1. Listed(plan) /\ s \in 1..Len(plan)
        BY <2>3, <2>4
      <4> HIDE DEF s
      <4>2. Len(Left(plan, s, 0)) = (Len(plan) - s) + 1 /\ Left(plan, s, 0)[1] = Later(plan[s], 0)
        BY <4>1, LeftFacts
      <4> QED
        BY <4>2 DEF s
    <3> QED
      BY <2>4, <3>1
  <2>6. todo = Left(plan, 7, 0)
    BY <1>1, <1>4, <2>1 DEF At, plan
  <2>7. Later(plan[7], 0).do = "rename"
    BY <2>3 DEF Later, Do, Request
  <2> QED
    BY <1>1, <2>1, <2>5, <2>6, <2>7
<1> QED
  BY <1>1, <1>2, <1>3, <1>4

LEMMA RecKept ==
  ASSUME StorageAssumption, NEW n \in Nat, NEW i \in 1..5, NEW j \in Nat, RecAt(n, i, j)
  PROVE  Unfinished
<1>1. Proper(old, n) /\ new = old /\ n \in Nat
  BY DEF RecAt
<1>2. CASE i \in 1..4
  <2>1. ur2 = RecoverFile(old)
    BY <1>2 DEF RecAt
  <2>2. Agreeing(arch, old, 3, n + 2)
    <3>1. CASE i = 1
      BY <3>1 DEF RecAt
    <3>2. CASE i = 2
      <4>1. Agreeing(arch, old, 1, n + 2)
        BY <3>2 DEF RecAt
      <4>2. \A k \in 3..n + 2 : k \in 1..n + 2
        OBVIOUS
      <4> QED
        BY <4>1, <4>2 DEF Agreeing
    <3>3. CASE i = 3
      <4>1. WrittenTo(arch, old, 1, (n + 2) + j)
        BY <3>3 DEF RecAt
      <4>2. \A k \in 3..n + 2 : k \in 1..(n + 2) + j
        OBVIOUS
      <4>3. (n + 2) + j >= n + 2
        OBVIOUS
      <4> QED
        BY <4>1, <4>2, <4>3 DEF Agreeing, WrittenTo
    <3>4. CASE i = 4
      BY <1>1, <3>4, AgreesSelf DEF RecAt
    <3> QED
      BY <1>2, <3>1, <3>2, <3>3, <3>4
  <2> QED
    BY <1>1, <2>1, <2>2 DEF Unfinished, Covered
<1>3. CASE i = 5
  BY <1>1, <1>3 DEF RecAt, Unfinished
<1> QED
  BY <1>2, <1>3

LEMMA FailsStep ==
  ASSUME StorageAssumption, StorageInv, NEW critical \in BOOLEAN, Fails(critical)
  PROVE  StorageInv'
<1>1. /\ phase \in {"IncUpdate", "Update", "Create"} /\ recneeded' = FALSE
      /\ phase' = IF recneeded /\ ~critical THEN "Recover"
                  ELSE IF Len(todo) = 1 /\ todo[1].do = "rename" THEN "Lost" ELSE "Idle"
      /\ todo' = IF recneeded /\ ~critical THEN RecoverInPlace(ur2) ELSE <<>>
      /\ new' = IF recneeded THEN old ELSE new
      /\ UNCHANGED <<arch, ur2, old>>
  BY DEF Fails
<1>2. Sane(old) /\ Sane(new)
  BY DEF StorageInv
<1>3. Sane(old)' /\ Sane(new)'
  BY <1>1, <1>2
<1>4. RepairGivesBack'
  BY <1>1 DEF RepairGivesBack
<1>5. CASE recneeded /\ ~critical
  <2>1. PICK n \in Nat : Proper(old, n) /\ Covered(n)
    <3>1. CASE phase = "IncUpdate"
      <4>1. PICK n \in Nat, i \in 1..11, j \in Nat : IncAt(n, i, j)
        BY <3>1 DEF StorageInv
      <4>2. Proper(old, n) /\ Covered(n)
        BY <1>5, <4>1, IncKept DEF IncAt
      <4> QED
        BY <4>2
    <3>2. CASE phase \in {"Update", "Create"}
      <4>1. PICK n \in Nat, i \in 1..8, j \in Nat : PutAt(n, i, j)
        BY <3>2 DEF StorageInv
      <4> QED
        BY <1>5, <4>1, PutKept
    <3> QED
      BY <1>1, <3>1, <3>2
  <2> DEFINE R == RecoverFile(old)
             plan == RecoverInPlace(R)
  <2>2. ur2 = R /\ Agreeing(arch, old, 3, n + 2)
    BY <2>1 DEF Covered
  <2>3. RecShape(plan, R, n)
    BY <2>1, RecPlan
  <2>4. phase' = "Recover" /\ todo' = RecoverInPlace(ur2) /\ new' = old
    BY <1>1, <1>5
  <2>5. todo' = plan
    BY <2>2, <2>4
  <2> HIDE DEF plan
  <2>6. Left(plan, 1, 0) = plan
    <3>1. Listed(plan) /\ Len(plan) # 0
      BY <2>3 DEF RecShape
    <3> QED
      BY <3>1, LeftWhole
  <2>7. RecAt(n, 1, 0)'
    <3>1. At(RecoverInPlace(RecoverFile(old)), 1, 0)'
      BY <1>1, <2>5, <2>6 DEF At, plan
    <3>2. Proper(old, n)' /\ (new = old)' /\ (ur2 = RecoverFile(old))' /\ Agreeing(arch, old, 3, n + 2)'
      BY <1>1, <2>1, <2>2, <2>4
    <3> QED
      BY <1>1, <3>1, <3>2 DEF RecAt
  <2>8. (\E m \in Nat, k \in 1..5, l \in Nat : RecAt(m, k, l))'
    BY <2>7
  <2> QED
    BY <1>1, <1>3, <1>4, <2>4, <2>8 DEF StorageInv
<1>6. CASE ~(recneeded /\ ~critical)
  <2>1. phase' = "Lost" \/ (phase' = "Idle" /\ ~(Len(todo) = 1 /\ todo[1].do = "rename"))
    BY <1>1, <1>6
  <2>2. CASE phase' = "Lost"
    BY <1>1, <1>3, <1>4, <2>2 DEF StorageInv
  <2>3. CASE phase' = "Idle" /\ ~(Len(todo) = 1 /\ todo[1].do = "rename")
    <3>1. Unfinished'
      <4>1. CASE phase = "IncUpdate"
        <5>1. PICK n \in Nat, i \in 1..11, j \in Nat : IncAt(n, i, j)
          BY <4>1 DEF StorageInv
        <5>2. Unfinished /\ (recneeded => Proper(old, n) /\ Covered(n))
          BY <5>1, IncKept DEF IncAt
        <5>3. CASE recneeded
          BY <1>1, <5>2, <5>3 DEF Unfinished, Covered
        <5>4. CASE ~recneeded
          BY <1>1, <5>2, <5>4 DEF Unfinished, Covered, Short
        <5> QED
          BY <5>3, <5>4
      <4>2. CASE phase \in {"Update", "Create"}
        <5>1. PICK n \in Nat, i \in 1..8, j \in Nat : PutAt(n, i, j)
          BY <4>2 DEF StorageInv
        <5>2. Unfinished /\ ~recneeded
          BY <2>3, <5>1, PutKept
        <5> QED
          BY <1>1, <5>2 DEF Unfinished, Covered, Short
      <4> QED
        BY <1>1, <4>1, <4>2
    <3> QED
      BY <1>1, <1>3, <1>4, <2>3, <3>1 DEF StorageInv
  <2> QED
    BY <2>1, <2>2, <2>3
<1> QED
  BY <1>5, <1>6

LEMMA KilledStep ==
  ASSUME StorageAssumption, StorageInv, StorageKilled
  PROVE  StorageInv'
<1>1. /\ phase \in Running /\ phase' = "Killed" /\ recneeded' = FALSE
      /\ UNCHANGED <<arch, tmp, ur2, old, new>>
  BY DEF StorageKilled
<1>2. Unfinished \/ (ur2 = Absent /\ tmp = new /\ arch = Absent)
  <2>1. CASE phase = "IncUpdate"
    BY <2>1, IncKept DEF StorageInv
  <2>2. CASE phase \in {"Update", "Create"}
    BY <2>2, PutKept DEF StorageInv
  <2>3. CASE phase = "Recover"
    BY <2>3, RecKept DEF StorageInv
  <2> QED
    BY <1>1, <2>1, <2>2, <2>3 DEF Running
<1>3. (Unfinished \/ (ur2 = Absent /\ tmp = new /\ arch = Absent))'
  BY <1>1, <1>2 DEF Unfinished, Covered, Short
<1>4. (Sane(old) /\ Sane(new) /\ RepairGivesBack)'
  BY <1>1 DEF StorageInv, RepairGivesBack
<1> QED
  BY <1>1, <1>3, <1>4 DEF StorageInv

------------------------------------------------------------------------------
\* What damage to a protected archive leaves of it.
Spoilt(a, bad) == [k \in DOMAIN a |-> IF (k - 1) \div SECTOR \in bad THEN Ruined ELSE a[k]]

LEMMA DamagedFile ==
  ASSUME StorageAssumption, NEW w, Payloads(w), NEW a, a = Protect(w),
         NEW bad, bad \subseteq 0..SecsIn(w) - 1,
         \A i, j \in bad : i # j => i % Calc(SecsIn(w)) # j % Calc(SecsIn(w)),
         NEW g, g = Spoilt(a, bad)
  PROVE  Guards(g, w) /\ OneEach(g, w) /\ (IsHead(g[1]) => g[1] = w[1])
<1> DEFINE s == SecsIn(w)
           n == s * SECTOR
<1>1. Guards(a, w) /\ AllSound(a, w) /\ a[1] = w[1] /\ Listed(w)
  BY ProtectGuards DEF Payloads
<1>2. Listed(a) /\ Len(a) = Len(Protect(w)) /\ Len(a) \in Nat /\ DOMAIN a = 1..Len(a)
  BY <1>1, ListFacts DEF Guards
<1>3. s \in Nat \ {0} /\ n \in Nat /\ n <= Len(a) /\ SECTOR \in Nat \ {0} /\ n >= 1
  <2>1. s \in Nat \ {0} /\ n \in Nat /\ Len(w) < n /\ Len(w) \in Nat
    BY <1>1, PaddedLists
  <2>2. Len(a) = n + Calc(s) * SECTOR + s + 2 /\ Calc(s) * SECTOR \in Nat
    BY <1>1, GuardedPlaces
  <2> HIDE DEF n
  <2> QED
    BY <2>1, <2>2 DEF StorageAssumption
<1>4. \A k \in 1..Len(a) : g[k] = IF (k - 1) \div SECTOR \in bad THEN Ruined ELSE a[k]
  BY <1>2 DEF Spoilt
<1>5. Listed(g) /\ Len(g) = Len(a)
  <2>1. g = [k \in 1..Len(a) |-> g[k]]
    BY <1>2 DEF Spoilt
  <2> QED
    BY <1>2, <2>1, ListOf
<1>6. \A k \in 1..Len(a) : k > n => g[k] = a[k]
  <2> SUFFICES ASSUME NEW k \in 1..Len(a), k > n PROVE (k - 1) \div SECTOR \notin bad
    BY <1>4
  <2> DEFINE q == (k - 1) \div SECTOR
             r == (k - 1) % SECTOR
  <2>1. q \in Int /\ r \in 0..SECTOR - 1 /\ k - 1 = SECTOR * q + r
    <3>1. k - 1 \in Int /\ SECTOR \in Nat \ {0}
      BY <1>3
    <3> QED
      BY <3>1, Division
  <2> HIDE DEF q, r
  <2>2. SUFFICES ASSUME q \in 0..s - 1 PROVE FALSE
    BY DEF q
  <2>3. q \in Nat /\ q < s /\ s \in Nat
    BY <1>3, <2>2
  <2>4. q * SECTOR + SECTOR <= n /\ q * SECTOR \in Nat
    BY <2>3, Rows
  <2>5. SECTOR * q = q * SECTOR
    BY <1>3, <2>3
  <2> HIDE DEF n
  <2> QED
    BY <1>3, <2>1, <2>4, <2>5
<1>7. Guards(g, w)
  <2>1. \A k \in 1..Len(g) : k > s * SECTOR => g[k] = a[k]
    BY <1>5, <1>6
  <2> QED
    BY <1>2, <1>5, <2>1 DEF Guards
<1>8. ASSUME NEW i \in 0..s - 1, i \notin bad PROVE Sector(g, i) = Sheltered(w, i)
  <2>1. i \in Nat /\ i < s /\ s \in Nat
    BY <1>3
  <2>2. i * SECTOR + SECTOR <= n /\ i * SECTOR \in Nat
    BY <2>1, Rows
  <2>3. ASSUME NEW k \in 1..SECTOR PROVE g[i * SECTOR + k] = a[i * SECTOR + k]
    <3>1. ((i * SECTOR + k) - 1) \div SECTOR = i
      BY <2>1, PlaceInRow
    <3>2. i * SECTOR + k \in 1..Len(a)
      <4> DEFINE m == i * SECTOR
      <4>1. m \in Nat /\ m + SECTOR <= n
        BY <2>2
      <4> HIDE DEF m, n
      <4>2. m + k \in 1..Len(a)
        BY <1>2, <1>3, <4>1
      <4> QED
        BY <4>2 DEF m
    <3> DEFINE l == i * SECTOR + k
    <3>3. l \in 1..Len(a) /\ (l - 1) \div SECTOR = i
      BY <3>1, <3>2
    <3> HIDE DEF l
    <3>4. g[l] = a[l]
      BY <1>4, <1>8, <3>3
    <3> QED
      BY <3>4 DEF l
  <2>4. i * SECTOR + SECTOR <= Len(a) /\ i * SECTOR + SECTOR <= Len(g)
    <3> DEFINE m == i * SECTOR + SECTOR
    <3>1. m <= n /\ m \in Nat
      BY <1>3, <2>2
    <3> HIDE DEF m, n
    <3>2. m <= Len(a)
      BY <1>2, <1>3, <3>1
    <3> QED
      BY <3>2, <1>5 DEF m
  <2>5. Sector(g, i) = Sector(a, i)
    <3>1. \A k \in 1..SECTOR : g[i * SECTOR + k] = a[i * SECTOR + k]
      BY <2>3
    <3>2. Listed(g) /\ Listed(a) /\ i \in Nat
      BY <1>2, <1>5, <2>1
    <3> HIDE DEF n, s
    <3> QED
      BY <3>1, <3>2, <2>4, SameSectors
  <2>6. Sector(a, i) = Sheltered(w, i)
    BY <1>1 DEF AllSound
  <2> QED
    BY <2>5, <2>6
<1>9. OneEach(g, w)
  BY <1>8 DEF OneEach
<1>10. IsHead(g[1]) => g[1] = w[1]
  <2>1. ~IsHead(Ruined)
    <3>1. <<"ruined">>[1] # "head"
      OBVIOUS
    <3> QED
      BY <3>1, MarkFacts DEF Ruined
  <2>2. 1 \in 1..Len(a)
    BY <1>2, <1>3
  <2>3. g[1] = Ruined \/ g[1] = a[1]
    BY <1>4, <2>2
  <2> QED
    BY <1>1, <2>1, <2>3
<1> QED
  BY <1>7, <1>9, <1>10

LEMMA DamageStep ==
  ASSUME StorageAssumption, StorageInv, Damage
  PROVE  StorageInv'
<1>1. Ready /\ Exists(arch) /\ Protected(arch[1])
  BY DEF Damage
<1>2. PICK n \in Nat : Proper(arch, n)
  BY <1>1, IdleReady
<1> DEFINE w == Finishes(n, TRUE)
           s == SecsIn(w)
<1>3. n \in Nat \ {0} /\ arch = Protect(w) /\ PLen(arch) = n + 3
  BY <1>1, <1>2, ProperFacts
<1>4. Payloads(w) /\ Len(w) = n + 3
  BY <1>3, PayloadFacts
<1>5. Secs(PLen(arch)) = s
  BY <1>3, <1>4 DEF SecsIn
<1> HIDE DEF w
<1>6. PICK bad \in SUBSET (0..s - 1) :
        /\ \A i, j \in bad : i # j => i % Calc(s) # j % Calc(s)
        /\ arch' = Spoilt(arch, bad)
  BY <1>5 DEF Damage, Spoilt
<1> HIDE DEF s
<1>7. Guards(arch', w) /\ OneEach(arch', w) /\ (IsHead(arch'[1]) => arch'[1] = w[1])
  <2>1. bad \subseteq 0..SecsIn(w) - 1 /\ \A i, j \in bad : i # j => i % Calc(SecsIn(w)) # j % Calc(SecsIn(w))
    BY <1>6 DEF s
  <2> DEFINE g == arch'
  <2>2. g = Spoilt(arch, bad)
    BY <1>6
  <2> HIDE DEF g
  <2>3. Guards(g, w) /\ OneEach(g, w) /\ (IsHead(g[1]) => g[1] = w[1])
    BY <1>3, <1>4, <2>1, <2>2, DamagedFile
  <2> QED
    BY <2>3 DEF g
<1>8. ur2 = Absent /\ ~recneeded /\ Sane(arch)
  BY <1>1, ReadyFacts
<1>9. old' = arch /\ new' = arch /\ phase' = "Hurt" /\ ur2' = ur2 /\ recneeded' = recneeded
  BY DEF Damage
<1>10. Hurts'
  BY <1>3, <1>7, <1>8, <1>9 DEF Hurts, w
<1>11. (Sane(old) /\ Sane(new) /\ RepairGivesBack)'
  BY <1>8, <1>9 DEF RepairGivesBack
<1> QED
  BY <1>9, <1>10, <1>11 DEF StorageInv

------------------------------------------------------------------------------
LEMMA CoveredGood ==
  ASSUME StorageAssumption, NEW n \in Nat, Proper(old, n), Covered(n)
  PROVE  Exists(arch) /\ Exists(ur2) /\ Recoverable /\ Recover(arch, ur2) = old
<1> DEFINE R == RecoverFile(old)
           c == n + 2
<1>1. ur2 = R /\ Agreeing(arch, old, 3, c)
  BY DEF Covered
<1>2. Archived(old, n)
  BY ProperFacts
<1>3. Len(R) = 5 + (Len(old) - c) /\ Len(R) >= 7 /\ Exists(R)
  BY RecoverFileLong
<1>4. Value(R[5]) = Len(old) - c
  BY <1>2, RecoverFileFacts
<1>5. Recover(arch, R) = old
  BY <1>1, <1>2, Recovered
<1>6. Exists(arch)
  <2>1. Len(Absent) = 1
    BY OneListed DEF Absent
  <2>2. Len(arch) \in Nat /\ Len(arch) >= c /\ n \in Nat
    BY <1>1, ListFacts DEF Agreeing
  <2>3. SUFFICES ASSUME arch = Absent PROVE FALSE
    BY DEF Exists
  <2>4. Len(arch) = 1
    BY <2>1, <2>3, Zenon
  <2> QED
    BY <2>2, <2>4
<1> HIDE DEF R
<1>7. Recoverable
  <2>1. Len(R) >= 5
    BY <1>1, <1>3, ListFacts, RecoverFileLong DEF R
  <2> QED
    BY <1>1, <1>3, <1>4, <2>1 DEF Recoverable
<1> QED
  BY <1>1, <1>3, <1>5, <1>6, <1>7

\* A recover file cut short is not taken for a whole one.
LEMMA ShortKnown ==
  ASSUME StorageAssumption, NEW n \in Nat, Proper(old, n), Short(n)
  PROVE  ~Recoverable
<1> DEFINE R == RecoverFile(old)
<1>1. PICK j \in Nat : WrittenTo(ur2, R, 1, j) /\ j < Len(R)
  BY DEF Short
<1>2. Len(R) = 5 + (Len(old) - (n + 2)) /\ Value(R[5]) = Len(old) - (n + 2)
  BY RecoverFileLong, RecoverFileFacts, ProperFacts
<1> HIDE DEF R
<1>3. SUFFICES ASSUME Recoverable PROVE FALSE
  OBVIOUS
<1>4. Len(ur2) = j /\ \A k \in 1..j : ur2[k] = R[k]
  BY <1>1 DEF WrittenTo
<1>5. Len(ur2) >= 5 /\ Len(ur2) = 5 + Value(ur2[5])
  BY <1>3 DEF Recoverable
<1>6. ur2[5] = R[5]
  BY <1>4, <1>5
<1> QED
  BY <1>1, <1>2, <1>4, <1>5, <1>6

LEMMA HurtRepaired ==
  ASSUME StorageAssumption, Hurts, arch # old
  PROVE  ~VerifyDP(arch) /\ RepairDP(arch, PLen(arch)) = old
<1>1. PICK n \in Nat \ {0} :
        /\ old = Protect(Finishes(n, TRUE)) /\ Guards(arch, Finishes(n, TRUE)) /\ OneEach(arch, Finishes(n, TRUE))
        /\ IsHead(arch[1]) => arch[1] = Finishes(n, TRUE)[1]
  BY DEF Hurts
<1> DEFINE w == Finishes(n, TRUE)
<1>2. Payloads(w)
  BY PayloadFacts
<1>3. old = Protect(w) /\ Guards(arch, w) /\ OneEach(arch, w) /\ (IsHead(arch[1]) => arch[1] = w[1])
  BY <1>1
<1> HIDE DEF w
<1>4. PLen(arch) = Len(w) /\ Listed(w)
  BY <1>2, <1>3, GuardedLength DEF Payloads
<1>5. ~VerifyDP(arch)
  BY <1>3, <1>4, VerifiesSound, SoundIsProtected
<1>6. RepairDP(arch, Len(w)) = Protect(w)
  BY <1>3, <1>4, RepairedWhole
<1> QED
  BY <1>3, <1>4, <1>5, <1>6

LEMMA TestStep ==
  ASSUME StorageAssumption, StorageInv, TestAndRepair
  PROVE  StorageInv'
<1>1. /\ phase \in {"Killed", "Hurt"} \/ (phase = "Idle" /\ Exists(ur2))
      /\ Exists(arch) /\ phase' = "Tested" /\ UNCHANGED <<arch, ur2, old, new>>
      /\ fix' = IF Exists(ur2) THEN (IF Recoverable THEN Recover(arch, ur2) ELSE <<Ruined>>)
                ELSE IF phase = "Hurt" /\ ~VerifyDP(arch) THEN RepairDP(arch, PLen(arch)) ELSE fix
  BY DEF TestAndRepair
<1>2. Sane(old)' /\ Sane(new)'
  BY <1>1 DEF StorageInv
<1>3. /\ Exists(ur2) /\ Recoverable => fix' = old
      /\ ~Exists(ur2) /\ arch \notin {old, new} => fix' = old
  <2>1. CASE Unfinished
    <3>1. CASE ur2 = Absent /\ arch \in {old, new}
      BY <3>1 DEF Exists
    <3>2. ASSUME NEW n \in Nat, Proper(old, n), Covered(n)
          PROVE  /\ Exists(ur2) /\ Recoverable => fix' = old
                 /\ ~Exists(ur2) /\ arch \notin {old, new} => fix' = old
      BY <1>1, <3>2, CoveredGood
    <3>3. ASSUME NEW n \in Nat, Proper(old, n), arch = old, Short(n)
          PROVE  /\ Exists(ur2) /\ Recoverable => fix' = old
                 /\ ~Exists(ur2) /\ arch \notin {old, new} => fix' = old
      BY <3>3, ShortKnown
    <3> QED
      BY <2>1, <3>1, <3>2, <3>3 DEF Unfinished
  <2>2. CASE Hurts /\ phase = "Hurt"
    <3>1. ~Exists(ur2)
      BY <2>2 DEF Hurts, Exists
    <3> QED
      BY <1>1, <2>2, <3>1, HurtRepaired
  <2>3. Unfinished \/ (Hurts /\ phase = "Hurt")
    BY <1>1 DEF StorageInv, Exists
  <2> QED
    BY <2>1, <2>2, <2>3
<1>4. RepairGivesBack'
  BY <1>1, <1>3 DEF RepairGivesBack, Recoverable
<1> QED
  BY <1>1, <1>2, <1>4 DEF StorageInv

------------------------------------------------------------------------------
LEMMA StorageStart ==
  ASSUME StorageAssumption, ClassicInit
  PROVE  StorageInv
<1>1. PICK count \in 1..MaxFiles, p \in BOOLEAN : arch \in {Absent, Finished(count, p)}
  BY DEF ClassicInit
<1>2. Sane(arch)
  <2>1. count \in Nat \ {0}
    BY DEF StorageAssumption
  <2>2. Proper(Finished(count, p), count)
    BY <2>1 DEF Proper
  <2> QED
    BY <1>1, <2>1, <2>2 DEF Sane
<1>3. ur2 = Absent /\ recneeded = FALSE /\ old = arch /\ new = arch /\ phase = "Idle"
  BY DEF ClassicInit
<1> QED
  BY <1>2, <1>3 DEF StorageInv, Unfinished, RepairGivesBack

LEMMA StorageStep ==
  ASSUME StorageAssumption, StorageInv, [ClassicNext]_classic
  PROVE  StorageInv'
<1>1. CASE UNCHANGED classic
  <2>1. UNCHANGED <<arch, tmp, ur2, fix, todo, recneeded, old, new, phase>>
    BY <1>1 DEF classic
  <2>2. UNCHANGED <<RepairGivesBack, Hurts, Unfinished>>
    BY <2>1 DEF RepairGivesBack, Recoverable, Hurts, Unfinished, Covered, Short
  <2>3. \A n, i, j : (IncAt(n, i, j) => IncAt(n, i, j)') /\ (RecAt(n, i, j) => RecAt(n, i, j)')
    BY <2>1 DEF IncAt, RecAt, At
  <2>4. \A n, i, j : PutAt(n, i, j) => PutAt(n, i, j)'
    BY <2>1 DEF PutAt, At, Ending
  <2> QED
    BY <2>1, <2>2, <2>3, <2>4 DEF StorageInv
<1>2. CASE ClassicNext
  BY <1>2, BeginInc, BeginUpdate, BeginCreate, ProceedStep, FinishStep, KilledStep, DamageStep, TestStep, FailsStep
     DEF ClassicNext
<1> QED
  BY <1>1, <1>2

LEMMA StorageHolds ==
  ASSUME StorageAssumption
  PROVE  ClassicSpec => []StorageInv
<1>1. ClassicInit => StorageInv
  BY StorageStart
<1>2. StorageInv /\ [ClassicNext]_classic => StorageInv'
  BY StorageStep
<1> QED
  BY <1>1, <1>2, PTL DEF ClassicSpec

LEMMA StorageGood ==
  ASSUME StorageAssumption, StorageInv
  PROVE  OneCopyGood
<1> SUFFICES ASSUME phase \notin {"Hurt", "Tested", "Lost"}
             PROVE  /\ \/ arch \in {old, new}
                       \/ tmp = new
                       \/ Exists(arch) /\ Exists(ur2) /\ Recoverable /\ Recover(arch, ur2) = old
                    /\ arch = new /\ Exists(arch) /\ Protected(arch[1]) => VerifyDP(arch)
  BY DEF OneCopyGood
<1>1. Unfinished \/ tmp = new
  <2>1. CASE phase \in {"Idle", "Killed"}
    BY <2>1 DEF StorageInv
  <2>2. CASE phase = "IncUpdate"
    BY <2>2, IncKept DEF StorageInv
  <2>3. CASE phase \in {"Update", "Create"}
    BY <2>3, PutKept DEF StorageInv
  <2>4. CASE phase = "Recover"
    BY <2>4, RecKept DEF StorageInv
  <2> QED
    BY <2>1, <2>2, <2>3, <2>4 DEF StorageInv
<1>2. arch \in {old, new} \/ tmp = new \/ (Exists(arch) /\ Exists(ur2) /\ Recoverable /\ Recover(arch, ur2) = old)
  BY <1>1, CoveredGood DEF Unfinished
<1>3. arch = new /\ Exists(arch) /\ Protected(arch[1]) => VerifyDP(arch)
  BY ProperFacts DEF StorageInv, Sane, Exists
<1> QED
  BY <1>2, <1>3

\* For any sizes of a sector and of a group, any number of files and any sequence of
\* commands, each failing or killed at any write: the archive as it was or as it
\* becomes is whole, or is made of what the update left and the recover file; and a
\* protected archive verifies (IncUpdateArchive(), CloseArchiveFile(), RecIt()).
THEOREM ArchiveSurvives ==
  ASSUME StorageAssumption
  PROVE  ClassicSpec => []OneCopyGood
BY StorageHolds, StorageGood, PTL

\* A repair gives back the archive: from a complete recover file the old one, and from
\* the protection the whole one, if at most one sector of each group was damaged;
\* a damaged archive never verifies, as far as sums tell sectors apart (Recover(),
\* VerifyDP(), RepairDP()).
THEOREM RepairsRestore ==
  ASSUME StorageAssumption
  PROVE  ClassicSpec => []RepairGivesBack
<1>1. StorageInv => RepairGivesBack
  BY DEF StorageInv
<1> QED
  BY <1>1, StorageHolds, PTL
==============================================================================
