-------------------------- MODULE SnapshotHistory --------------------------
(***************************************************************************)
(* What python/uc2/snapshot.py promises of a set of repositories, with     *)
(* nothing said of chunks, formats, transactions or the steps of an        *)
(* operation: each repository has a history, the snapshots that can be     *)
(* restored completely from it, and only the process that owns the         *)
(* repository changes it, by adding to it or by deliberately forgetting a  *)
(* part of it, never all of it.  Anything else that shrinks a history is a *)
(* fault of the medium, and is recorded as one.                            *)
(***************************************************************************)
CONSTANTS Client, Repo, Snap, Object, Free, Stale

VARIABLES
    owner,      \* per repository: the client that holds its lock, Free or Stale
    history,    \* per repository: the snapshots that can be restored from it
    lost        \* per repository: the objects the medium has lost

vars == <<owner, history, lost>>

Init ==
    /\ owner = [r \in Repo |-> Free]
    /\ history = [r \in Repo |-> {}]
    /\ lost = [r \in Repo |-> {}]

\* A client takes, returns or abandons its repositories.
Take(c, r) ==
    /\ owner[r] = Free
    /\ owner' = [owner EXCEPT ![r] = c]
    /\ UNCHANGED <<history, lost>>

Return(c, r) ==
    /\ owner[r] = c
    /\ owner' = [owner EXCEPT ![r] = Free]
    /\ UNCHANGED <<history, lost>>

Abandon(c) ==
    /\ \E r \in Repo : owner[r] = c
    /\ owner' = [r \in Repo |-> IF owner[r] = c THEN Stale ELSE owner[r]]
    /\ UNCHANGED <<history, lost>>

Recover(r) ==
    /\ owner[r] = Stale
    /\ owner' = [owner EXCEPT ![r] = Free]
    /\ UNCHANGED <<history, lost>>

\* The owner makes snapshots restorable; objects the medium had lost may be
\* written again on the way.  A new snapshot is added or old ones are mended.
Add(r, S, restored) ==
    /\ owner[r] \notin {Free, Stale}
    /\ history' = [history EXCEPT ![r] = @ \cup S]
    /\ lost' = [lost EXCEPT ![r] = @ \ restored]
    /\ UNCHANGED owner

\* The owner forgets snapshots, but not the last ones.
Discard(r, S) ==
    /\ owner[r] \notin {Free, Stale}
    /\ history[r] \ S # {}
    /\ history' = [history EXCEPT ![r] = @ \ S]
    /\ UNCHANGED <<owner, lost>>

\* The medium loses an object nobody is using, and with it the snapshots S.
Lose(r, o, S) ==
    /\ owner[r] \in {Free, Stale}
    /\ o \notin lost[r]
    /\ history' = [history EXCEPT ![r] = @ \ S]
    /\ lost' = [lost EXCEPT ![r] = @ \cup {o}]
    /\ UNCHANGED owner

Next ==
    \/ \E c \in Client : Abandon(c) \/ \E r \in Repo : Take(c, r) \/ Return(c, r)
    \/ \E r \in Repo : \/ Recover(r)
                       \/ \E S \in SUBSET Snap, restored \in SUBSET Object :
                              Add(r, S, restored)
                       \/ \E S \in SUBSET Snap : Discard(r, S)
                       \/ \E o \in Object, S \in SUBSET Snap : Lose(r, o, S)

Spec == Init /\ [][Next]_vars

=============================================================================
