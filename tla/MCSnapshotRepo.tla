--------------------------- MODULE MCSnapshotRepo ---------------------------
(***************************************************************************)
(* Instances of SnapshotRepo for TLC.  Two snapshots share a chunk and each *)
(* has one of its own, so that pruning either must keep the shared one.    *)
(***************************************************************************)
EXTENDS SnapshotRepo, TLC

CONSTANTS x, y, z

\* One snapshot of one chunk.
SmallRefs == (1 :> {x})

\* The snapshots overlap in y.
OverlappingRefs == (1 :> {x, y}) @@ (2 :> {y, z})

\* The second snapshot extends the first.
GrowingRefs == (1 :> {x}) @@ (2 :> {x, y})

\* The clients are alike, and so are the repositories.
Clients == Permutations(Client)
ClientsAndRepos == Permutations(Client) \cup Permutations(Repo)

-----------------------------------------------------------------------------
(***************************************************************************)
(* Repair by itself, from every pair of repositories in which a run of the *)
(* other operations may have left it: each holds some snapshots, complete  *)
(* in the loose or the packed format.                                      *)
(***************************************************************************)
Holding(S) == [o \in Object |-> IF o \in S \cup Live(S) THEN "good" ELSE "absent"]

ReplicasInit ==
    \E held \in [Repo -> SUBSET Snap], formats \in [Repo -> {"v1", "v2"}] :
        LET stored(f) == [r \in Repo |-> IF formats[r] = f THEN Holding(held[r])
                                                           ELSE Empty]
        IN
        /\ format = formats
        /\ loose = stored("v1")
        /\ packed = stored("v2")
        /\ kept = held
        /\ lock = [r \in Repo |-> Free]
        /\ damaged = [r \in Repo |-> {}]
        /\ pc = [c \in Client |-> "idle"]
        /\ at = [c \in Client |-> Nil]
        /\ from = [c \in Client |-> Nil]
        /\ goal = [c \in Client |-> Nil]
        /\ plan = [c \in Client |-> {}]
        /\ todo = [c \in Client |-> {}]
        /\ txn = [c \in Client |-> Empty]

ReplicasNext ==
    \/ \E c \in Client : \/ \E r \in Repo : BeginRepair(c, r)
                         \/ Repair(c)
                         \/ Leave(c)
                         \/ Fail(c)
                         \/ Crash(c)
    \/ \E r \in Repo : Environment(r)

ReplicasSpec == ReplicasInit /\ [][ReplicasNext]_vars

=============================================================================
