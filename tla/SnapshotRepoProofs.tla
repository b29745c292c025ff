------------------------ MODULE SnapshotRepoProofs ------------------------
(***************************************************************************)
(* Proofs about SnapshotRepo, for any number of clients, repositories,     *)
(* chunks and snapshots: types, exclusion of the locks, completeness and   *)
(* survival of snapshots, exactness of the conversion, and the refinement  *)
(* of the abstract histories.                                              *)
(***************************************************************************)
EXTENDS SnapshotRepo, TLAPS

-----------------------------------------------------------------------------
(***************************************************************************)
(* Types.                                                                  *)
(***************************************************************************)

LEMMA EmptyIsStore == Empty \in Store
  BY DEF Empty, Store, Health

LEMMA StoreExcept ==
  ASSUME NEW store \in Store, NEW o \in Object, NEW health \in Health
  PROVE  [store EXCEPT ![o] = health] \in Store
  BY DEF Store

\* What a client knows inside an operation.
LEMMA InOperation ==
  ASSUME Inductive, NEW c \in Client, pc[c] # "idle"
  PROVE  /\ at[c] \in Repo
         /\ lock[at[c]] = c
         /\ View(c, at[c]) \in Store
         /\ from[c] # Nil => /\ from[c] \in Repo
                             /\ lock[from[c]] = c
                             /\ from[c] # at[c]
                             /\ View(c, from[c]) \in Store
  BY DEF Inductive, TypeOK, Consistent, RegistersKnown, HoldsLocks, View

-----------------------------------------------------------------------------
(***************************************************************************)
(* Frames: what a step leaves alone.                                       *)
(***************************************************************************)

SameRepo(r) ==
    /\ lock'[r] = lock[r]
    /\ format'[r] = format[r]
    /\ loose'[r] = loose[r]
    /\ packed'[r] = packed[r]
    /\ damaged'[r] = damaged[r]
    /\ kept'[r] = kept[r]

SameClient(c) ==
    /\ pc'[c] = pc[c]
    /\ at'[c] = at[c]
    /\ from'[c] = from[c]
    /\ goal'[c] = goal[c]
    /\ plan'[c] = plan[c]
    /\ todo'[c] = todo[c]
    /\ txn'[c] = txn[c]

\* The step changes nothing of client d, nor of what it has locked.
Undisturbed(d) == SameClient(d) /\ \A r \in Repo : lock[r] = d => SameRepo(r)

LEMMA UndisturbedConsistent ==
  ASSUME Inductive, NEW d \in Client, Undisturbed(d)
  PROVE  Consistent(d)'
<1>1. CASE pc[d] = "idle"
  BY <1>1 DEF Inductive, Undisturbed, SameClient, Consistent, HoldsLocks, RegistersKnown, ViewSound,
        VisitedStored, DonorVerified, RemovalsUnreferred, ConversionExact,
        WithGoal, WithReplica, Loose
<1>2. CASE pc[d] # "idle"
  <2>1. /\ at[d] \in Repo
        /\ lock[at[d]] = d
        /\ from[d] # Nil => from[d] \in Repo /\ lock[from[d]] = d
    BY <1>2, InOperation
  <2>2. SameClient(d) /\ SameRepo(at[d]) /\ (from[d] # Nil => SameRepo(from[d]))
    BY <2>1 DEF Undisturbed
  <2>3. View(d, at[d])' = View(d, at[d])
    BY <2>2 DEF SameClient, SameRepo, View
  <2>4. from[d] # Nil => View(d, from[d])' = View(d, from[d])
    BY <2>2 DEF SameClient, SameRepo, View
  <2>5. pc[d] \in WithReplica => from[d] # Nil
    BY NilIsNoValue DEF Inductive, Consistent, RegistersKnown
  <2>6. HoldsLocks(d)' /\ RegistersKnown(d)'
    BY <2>2 DEF Inductive, Consistent, HoldsLocks, RegistersKnown, SameClient, SameRepo
  <2>7. ViewSound(d)' /\ VisitedStored(d)'
    BY <2>2, <2>3 DEF Inductive, Consistent, ViewSound, VisitedStored, SameClient, SameRepo
  <2>8. DonorVerified(d)'
    BY <2>2, <2>4, <2>5 DEF Inductive, Consistent, DonorVerified, SameClient, WithReplica
  <2>9. RemovalsUnreferred(d)' /\ ConversionExact(d)'
    BY <2>2 DEF Inductive, Consistent, RemovalsUnreferred, ConversionExact, SameClient, SameRepo
  <2> QED BY <2>6, <2>7, <2>8, <2>9 DEF Consistent
<1> QED BY <1>1, <1>2

-----------------------------------------------------------------------------
(***************************************************************************)
(* What every step of client c has to establish.                           *)
(***************************************************************************)

StepOK(c) ==
    /\ TypeOK'
    /\ RepositoriesSound'
    /\ Consistent(c)'
    /\ \A d \in Client \ {c} : Undisturbed(d)

LEMMA StepSuffices ==
  ASSUME Inductive, NEW c \in Client, StepOK(c)
  PROVE  Inductive'
<1>1. ASSUME NEW d \in Client PROVE Consistent(d)'
  BY UndisturbedConsistent DEF StepOK
<1> QED BY <1>1 DEF Inductive, StepOK

-----------------------------------------------------------------------------
(***************************************************************************)
(* Taking and leaving a repository.                                        *)
(***************************************************************************)

\* Taking a free lock disturbs nobody, and finds a sound repository.
LEMMA AcquireOK ==
  ASSUME Inductive, NEW c \in Client, NEW r \in Repo, Acquire(c, r)
  PROVE  /\ lock' \in [Repo -> Client \cup {Free, Stale}]
         /\ at' \in [Client -> Repo \cup {Nil}]
         /\ txn' \in [Client -> Store]
         /\ RepositoriesSound'
         /\ from[c] = Nil
         /\ at'[c] = r /\ lock'[r] = c
         /\ Sound(View(c, r), damaged[r], kept[r])'
         /\ \A d \in Client \ {c} :
                /\ at'[d] = at[d] /\ txn'[d] = txn[d]
                /\ \A q \in Repo : lock[q] = d => lock'[q] = lock[q]
<1> USE DEF Acquire
<1>1. /\ lock' \in [Repo -> Client \cup {Free, Stale}]
      /\ at' \in [Client -> Repo \cup {Nil}]
      /\ txn' \in [Client -> Store]
  BY EmptyIsStore DEF Inductive, TypeOK
<1>2. from[c] = Nil
  BY DEF Inductive, Consistent, RegistersKnown, WithReplica
<1>3. at'[c] = r /\ lock'[r] = c
  BY DEF Inductive, TypeOK
<1>4. RepositoriesSound'
  BY DEF Inductive, RepositoriesSound, Disk
<1>5. View(c, r)' = Disk(r)
  BY <1>3 DEF View, Disk, Inductive, TypeOK
<1>6. Sound(View(c, r), damaged[r], kept[r])'
  BY <1>5 DEF Inductive, RepositoriesSound
<1>7. ASSUME NEW d \in Client \ {c}
      PROVE  /\ at'[d] = at[d] /\ txn'[d] = txn[d]
             /\ \A q \in Repo : lock[q] = d => lock'[q] = lock[q]
  BY LockValues DEF Inductive, TypeOK
<1> QED BY <1>1, <1>2, <1>3, <1>4, <1>6, <1>7

LEMMA BeginCreateOK ==
  ASSUME Inductive, NEW c \in Client, NEW r \in Repo, NEW s \in Snap, BeginCreate(c, r, s)
  PROVE  StepOK(c)
<1> USE DEF BeginCreate, Goto
<1>0. Acquire(c, r) /\ UNCHANGED <<format, loose, packed, from, damaged, kept>>
  BY DEF Acquire
<1>1. TypeOK'
  BY <1>0, AcquireOK, RefsType DEF Inductive, TypeOK, Steps, Object
<1>2. pc'[c] = "storing" /\ goal'[c] = s /\ todo'[c] = Refs[s]
  BY DEF Inductive, TypeOK
<1>3. Consistent(c)'
  BY <1>0, <1>2, AcquireOK, NilIsNoValue
     DEF Consistent, HoldsLocks, RegistersKnown, ViewSound, VisitedStored, DonorVerified,
         RemovalsUnreferred, ConversionExact, WithGoal, WithReplica, Loose
<1>4. \A d \in Client \ {c} : Undisturbed(d)
  BY <1>0, AcquireOK DEF Undisturbed, SameClient, SameRepo, Inductive, TypeOK
<1> QED BY <1>0, <1>1, <1>3, <1>4, AcquireOK DEF StepOK

LEMMA BeginReadOK ==
  ASSUME Inductive, NEW c \in Client, NEW r \in Repo, NEW s \in Snap, BeginRead(c, r, s)
  PROVE  StepOK(c)
<1> USE DEF BeginRead, Goto
<1>0. Acquire(c, r) /\ UNCHANGED <<format, loose, packed, from, damaged, kept>>
  BY DEF Acquire
<1>1. TypeOK'
  BY <1>0, AcquireOK, RefsType DEF Inductive, TypeOK, Steps, Object
<1>2. pc'[c] = "reading"
  BY DEF Inductive, TypeOK
<1>3. Consistent(c)'
  BY <1>0, <1>2, AcquireOK, NilIsNoValue
     DEF Consistent, HoldsLocks, RegistersKnown, ViewSound, VisitedStored, DonorVerified,
         RemovalsUnreferred, ConversionExact, WithGoal, WithReplica, Loose
<1>4. \A d \in Client \ {c} : Undisturbed(d)
  BY <1>0, AcquireOK DEF Undisturbed, SameClient, SameRepo, Inductive, TypeOK
<1> QED BY <1>0, <1>1, <1>3, <1>4, AcquireOK DEF StepOK

LEMMA BeginListOK ==
  ASSUME Inductive, NEW c \in Client, NEW r \in Repo, BeginList(c, r)
  PROVE  StepOK(c)
<1> USE DEF BeginList, Goto
<1>0. Acquire(c, r) /\ UNCHANGED <<format, loose, packed, from, damaged, kept>>
  BY DEF Acquire
<1>1. TypeOK'
  BY <1>0, AcquireOK, RefsType DEF Inductive, TypeOK, Steps, Object, Addresses
<1>2. pc'[c] = "reading"
  BY DEF Inductive, TypeOK
<1>3. Consistent(c)'
  BY <1>0, <1>2, AcquireOK, NilIsNoValue
     DEF Consistent, HoldsLocks, RegistersKnown, ViewSound, VisitedStored, DonorVerified,
         RemovalsUnreferred, ConversionExact, WithGoal, WithReplica, Loose
<1>4. \A d \in Client \ {c} : Undisturbed(d)
  BY <1>0, AcquireOK DEF Undisturbed, SameClient, SameRepo, Inductive, TypeOK
<1> QED BY <1>0, <1>1, <1>3, <1>4, AcquireOK DEF StepOK

LEMMA BeginPruneOK ==
  ASSUME Inductive, NEW c \in Client, NEW r \in Repo, BeginPrune(c, r)
  PROVE  StepOK(c)
<1> USE DEF BeginPrune, Goto
<1>0. Acquire(c, r) /\ UNCHANGED <<format, loose, packed, from, damaged, kept>>
  BY DEF Acquire
<1>1. TypeOK'
  BY <1>0, AcquireOK, RefsType DEF Inductive, TypeOK, Steps, Object
<1>2. pc'[c] = "retaining"
  BY DEF Inductive, TypeOK
<1>3. Consistent(c)'
  BY <1>0, <1>2, AcquireOK, NilIsNoValue
     DEF Consistent, HoldsLocks, RegistersKnown, ViewSound, VisitedStored, DonorVerified,
         RemovalsUnreferred, ConversionExact, WithGoal, WithReplica, Loose
<1>4. \A d \in Client \ {c} : Undisturbed(d)
  BY <1>0, AcquireOK DEF Undisturbed, SameClient, SameRepo, Inductive, TypeOK
<1> QED BY <1>0, <1>1, <1>3, <1>4, AcquireOK DEF StepOK

LEMMA BeginCompactOK ==
  ASSUME Inductive, NEW c \in Client, NEW r \in Repo, BeginCompact(c, r)
  PROVE  StepOK(c)
<1> USE DEF BeginCompact, Goto
<1>0. Acquire(c, r) /\ UNCHANGED <<format, loose, packed, from, damaged, kept>>
  BY DEF Acquire
<1>1. TypeOK'
  BY <1>0, AcquireOK, RefsType DEF Inductive, TypeOK, Steps, Object
<1>2. pc'[c] = "packing"
  BY DEF Inductive, TypeOK
<1>3. Consistent(c)'
  BY <1>0, <1>2, AcquireOK, NilIsNoValue
     DEF Consistent, HoldsLocks, RegistersKnown, ViewSound, VisitedStored, DonorVerified,
         RemovalsUnreferred, ConversionExact, WithGoal, WithReplica, Loose
<1>4. \A d \in Client \ {c} : Undisturbed(d)
  BY <1>0, AcquireOK DEF Undisturbed, SameClient, SameRepo, Inductive, TypeOK
<1> QED BY <1>0, <1>1, <1>3, <1>4, AcquireOK DEF StepOK

LEMMA BeginRepairOK ==
  ASSUME Inductive, NEW c \in Client, NEW r \in Repo, BeginRepair(c, r)
  PROVE  StepOK(c)
<1> USE DEF BeginRepair, Goto
<1>0. Acquire(c, r) /\ UNCHANGED <<format, loose, packed, from, damaged, kept>>
  BY DEF Acquire
<1>1. TypeOK'
  BY <1>0, AcquireOK, RefsType DEF Inductive, TypeOK, Steps, Object
<1>2. pc'[c] = "pairing"
  BY DEF Inductive, TypeOK
<1>3. Consistent(c)'
  BY <1>0, <1>2, AcquireOK, NilIsNoValue
     DEF Consistent, HoldsLocks, RegistersKnown, ViewSound, VisitedStored, DonorVerified,
         RemovalsUnreferred, ConversionExact, WithGoal, WithReplica, Loose
<1>4. \A d \in Client \ {c} : Undisturbed(d)
  BY <1>0, AcquireOK DEF Undisturbed, SameClient, SameRepo, Inductive, TypeOK
<1> QED BY <1>0, <1>1, <1>3, <1>4, AcquireOK DEF StepOK

\* A client that forgets its operation disturbs nobody, whatever becomes of
\* its lock files.
LEMMA ForgetOK ==
  ASSUME Inductive, NEW c \in Client, Forget(c),
         UNCHANGED <<format, loose, packed, ghosts>>,
         lock' \in [Repo -> Client \cup {Free, Stale}],
         \A r \in Repo : lock[r] # c => lock'[r] = lock[r]
  PROVE  StepOK(c)
<1> USE DEF Forget, ghosts
<1>1. TypeOK'
  BY EmptyIsStore DEF Inductive, TypeOK, Steps
<1>2. pc'[c] = "idle" /\ from'[c] = Nil
  BY DEF Inductive, TypeOK
<1>3. Consistent(c)'
  BY <1>2 DEF Consistent, HoldsLocks, RegistersKnown, ViewSound, VisitedStored, DonorVerified,
        RemovalsUnreferred, ConversionExact, WithGoal, WithReplica, Loose
<1>4. RepositoriesSound'
  BY DEF Inductive, RepositoriesSound, Disk
<1>5. \A d \in Client \ {c} : Undisturbed(d)
  BY DEF Undisturbed, SameClient, SameRepo, Inductive, TypeOK
<1> QED BY <1>1, <1>3, <1>4, <1>5 DEF StepOK

LEMMA UnlockOK ==
  ASSUME Inductive, NEW c \in Client, Unlock(c)
  PROVE  StepOK(c)
<1>1. at[c] \in Repo /\ lock[at[c]] = c
  BY InOperation DEF Unlock
<1>2. /\ lock' \in [Repo -> Client \cup {Free, Stale}]
      /\ \A r \in Repo : lock[r] # c => lock'[r] = lock[r]
  BY <1>1 DEF Unlock, Inductive, TypeOK
<1> QED BY <1>2, ForgetOK DEF Unlock

LEMMA CrashOK ==
  ASSUME Inductive, NEW c \in Client, Crash(c)
  PROVE  StepOK(c)
<1>1. /\ lock' \in [Repo -> Client \cup {Free, Stale}]
      /\ \A r \in Repo : lock[r] # c => lock'[r] = lock[r]
  BY DEF Crash, Inductive, TypeOK
<1> QED BY <1>1, ForgetOK DEF Crash

LEMMA ReleaseReplicaOK ==
  ASSUME Inductive, NEW c \in Client, ReleaseReplica(c)
  PROVE  StepOK(c)
<1> USE DEF ReleaseReplica, ghosts
<1>1. /\ from[c] \in Repo /\ lock[from[c]] = c /\ from[c] # at[c]
      /\ at[c] \in Repo /\ lock[at[c]] = c
  BY InOperation
<1>2. TypeOK'
  BY <1>1 DEF Inductive, TypeOK
<1>3. /\ from'[c] = Nil
      /\ lock'[at[c]] = c
      /\ View(c, at[c])' = View(c, at[c])
  BY <1>1 DEF Inductive, TypeOK, View
<1>4. Consistent(c)'
  BY <1>3 DEF Inductive, Consistent, HoldsLocks, RegistersKnown, ViewSound, VisitedStored,
        DonorVerified, RemovalsUnreferred, ConversionExact, WithGoal, WithReplica, Loose
<1>5. RepositoriesSound'
  BY DEF Inductive, RepositoriesSound, Disk
<1>6. \A d \in Client \ {c} : Undisturbed(d)
  BY <1>1 DEF Undisturbed, SameClient, SameRepo, Inductive, TypeOK
<1> QED BY <1>2, <1>4, <1>5, <1>6 DEF StepOK

-----------------------------------------------------------------------------
(***************************************************************************)
(* Steps that change nothing but the registers of their client.            *)
(***************************************************************************)

\* Such a step disturbs nobody, and leaves what its client sees, unless it
\* replaces its rows.
LEMMA RegistersOnly ==
  ASSUME Inductive, NEW c \in Client, UNCHANGED <<disk, ghosts, at, from>>,
         pc[c] # "idle", pc'[c] # "idle",
         \A d \in Client \ {c} : SameClient(d)
  PROVE  /\ RepositoriesSound'
         /\ HoldsLocks(c)'
         /\ \A d \in Client \ {c} : Undisturbed(d)
         /\ txn' = txn => /\ View(c, at[c])' = View(c, at[c])
                          /\ View(c, from[c])' = View(c, from[c])
<1> USE DEF disk, ghosts
<1>1. RepositoriesSound'
  BY DEF Inductive, RepositoriesSound, Disk
<1>2. HoldsLocks(c)'
  BY DEF Inductive, Consistent, HoldsLocks
<1>3. \A d \in Client \ {c} : Undisturbed(d)
  BY DEF Undisturbed, SameRepo
<1>4. txn' = txn => /\ View(c, at[c])' = View(c, at[c])
                    /\ View(c, from[c])' = View(c, from[c])
  BY DEF View
<1> QED BY <1>1, <1>2, <1>3, <1>4

LEMMA ReuseChunkOK ==
  ASSUME Inductive, NEW c \in Client, NEW h \in Chunk, ReuseChunk(c, h)
  PROVE  StepOK(c)
<1> USE DEF ReuseChunk, Goto, Visited, disk, registers, ghosts
<1>1. TypeOK'
  BY DEF Inductive, TypeOK, Steps, Object
<1>2. \A d \in Client \ {c} : SameClient(d)
  BY DEF SameClient, Inductive, TypeOK
<1>3. pc[c] = "storing" /\ pc'[c] = "storing" /\ todo'[c] = todo[c] \ {h}
  BY DEF Inductive, TypeOK
<1>4. /\ RepositoriesSound' /\ HoldsLocks(c)'
      /\ \A d \in Client \ {c} : Undisturbed(d)
      /\ View(c, at[c])' = View(c, at[c])
      /\ View(c, from[c])' = View(c, from[c])
  BY <1>2, <1>3, RegistersOnly
<1>5. Consistent(c)'
  BY <1>3, <1>4
     DEF Inductive, TypeOK, Consistent, RegistersKnown, ViewSound, VisitedStored, DonorVerified,
         RemovalsUnreferred, ConversionExact, WithGoal, WithReplica, Loose
<1> QED BY <1>1, <1>4, <1>5 DEF StepOK

LEMMA ReadObjectOK ==
  ASSUME Inductive, NEW c \in Client, NEW o \in Object, ReadObject(c, o)
  PROVE  StepOK(c)
<1> USE DEF ReadObject, Goto, Visited, disk, registers, ghosts
<1>1. TypeOK'
  BY DEF Inductive, TypeOK, Steps, Object
<1>2. \A d \in Client \ {c} : SameClient(d)
  BY DEF SameClient, Inductive, TypeOK
<1>3. pc[c] = "reading" /\ pc'[c] = "reading"
  BY DEF Inductive, TypeOK
<1>4. /\ RepositoriesSound' /\ HoldsLocks(c)'
      /\ \A d \in Client \ {c} : Undisturbed(d)
      /\ View(c, at[c])' = View(c, at[c])
      /\ View(c, from[c])' = View(c, from[c])
  BY <1>2, <1>3, RegistersOnly
<1>5. Consistent(c)'
  BY <1>3, <1>4
     DEF Inductive, TypeOK, Consistent, RegistersKnown, ViewSound, VisitedStored, DonorVerified,
         RemovalsUnreferred, ConversionExact, WithGoal, WithReplica, Loose
<1> QED BY <1>1, <1>4, <1>5 DEF StepOK

LEMMA EndReadOK ==
  ASSUME Inductive, NEW c \in Client, EndRead(c)
  PROVE  StepOK(c)
<1> USE DEF EndRead, Goto, Visited, disk, registers, ghosts
<1>1. TypeOK'
  BY DEF Inductive, TypeOK, Steps, Object
<1>2. \A d \in Client \ {c} : SameClient(d)
  BY DEF SameClient, Inductive, TypeOK
<1>3. pc[c] = "reading" /\ pc'[c] = "leaving"
  BY DEF Inductive, TypeOK
<1>4. /\ RepositoriesSound' /\ HoldsLocks(c)'
      /\ \A d \in Client \ {c} : Undisturbed(d)
      /\ View(c, at[c])' = View(c, at[c])
      /\ View(c, from[c])' = View(c, from[c])
  BY <1>2, <1>3, RegistersOnly
<1>5. Consistent(c)'
  BY <1>3, <1>4
     DEF Inductive, TypeOK, Consistent, RegistersKnown, ViewSound, VisitedStored, DonorVerified,
         RemovalsUnreferred, ConversionExact, WithGoal, WithReplica, Loose
<1> QED BY <1>1, <1>4, <1>5 DEF StepOK

LEMMA BeginSweepOK ==
  ASSUME Inductive, NEW c \in Client, BeginSweep(c)
  PROVE  StepOK(c)
<1> USE DEF BeginSweep, Goto, Visited, disk, registers, ghosts
<1>1. TypeOK'
  BY DEF Inductive, TypeOK, Steps, Object, Addresses
<1>2. \A d \in Client \ {c} : SameClient(d)
  BY DEF SameClient, Inductive, TypeOK
<1>3. pc[c] = "unlinking" /\ pc'[c] = "sweeping"
  BY DEF Inductive, TypeOK
<1>4. /\ RepositoriesSound' /\ HoldsLocks(c)'
      /\ \A d \in Client \ {c} : Undisturbed(d)
      /\ View(c, at[c])' = View(c, at[c])
      /\ View(c, from[c])' = View(c, from[c])
  BY <1>2, <1>3, RegistersOnly
<1>5. Consistent(c)'
  BY <1>3, <1>4
     DEF Inductive, TypeOK, Consistent, RegistersKnown, ViewSound, VisitedStored, DonorVerified,
         RemovalsUnreferred, ConversionExact, WithGoal, WithReplica, Loose, Addresses
<1> QED BY <1>1, <1>4, <1>5 DEF StepOK

LEMMA EndSweepOK ==
  ASSUME Inductive, NEW c \in Client, EndSweep(c)
  PROVE  StepOK(c)
<1> USE DEF EndSweep, Goto, Visited, disk, registers, ghosts
<1>1. TypeOK'
  BY DEF Inductive, TypeOK, Steps, Object
<1>2. \A d \in Client \ {c} : SameClient(d)
  BY DEF SameClient, Inductive, TypeOK
<1>3. pc[c] = "sweeping" /\ pc'[c] = "leaving"
  BY DEF Inductive, TypeOK
<1>4. /\ RepositoriesSound' /\ HoldsLocks(c)'
      /\ \A d \in Client \ {c} : Undisturbed(d)
      /\ View(c, at[c])' = View(c, at[c])
      /\ View(c, from[c])' = View(c, from[c])
  BY <1>2, <1>3, RegistersOnly
<1>5. Consistent(c)'
  BY <1>3, <1>4
     DEF Inductive, TypeOK, Consistent, RegistersKnown, ViewSound, VisitedStored, DonorVerified,
         RemovalsUnreferred, ConversionExact, WithGoal, WithReplica, Loose
<1> QED BY <1>1, <1>4, <1>5 DEF StepOK

LEMMA EndClearOK ==
  ASSUME Inductive, NEW c \in Client, EndClear(c)
  PROVE  StepOK(c)
<1> USE DEF EndClear, Goto, Visited, disk, registers, ghosts
<1>1. TypeOK'
  BY DEF Inductive, TypeOK, Steps, Object
<1>2. \A d \in Client \ {c} : SameClient(d)
  BY DEF SameClient, Inductive, TypeOK
<1>3. pc[c] = "clearing" /\ pc'[c] = "leaving"
  BY DEF Inductive, TypeOK
<1>4. /\ RepositoriesSound' /\ HoldsLocks(c)'
      /\ \A d \in Client \ {c} : Undisturbed(d)
      /\ View(c, at[c])' = View(c, at[c])
      /\ View(c, from[c])' = View(c, from[c])
  BY <1>2, <1>3, RegistersOnly
<1>5. Consistent(c)'
  BY <1>3, <1>4
     DEF Inductive, TypeOK, Consistent, RegistersKnown, ViewSound, VisitedStored, DonorVerified,
         RemovalsUnreferred, ConversionExact, WithGoal, WithReplica, Loose
<1> QED BY <1>1, <1>4, <1>5 DEF StepOK

LEMMA RecompactOK ==
  ASSUME Inductive, NEW c \in Client, Recompact(c)
  PROVE  StepOK(c)
<1> USE DEF Recompact, BeginClear, Goto, Leftovers, disk, registers, ghosts
<1>1. TypeOK'
  BY DEF Inductive, TypeOK, Steps, Object
<1>2. \A d \in Client \ {c} : SameClient(d)
  BY DEF SameClient, Inductive, TypeOK
<1>3. pc[c] = "packing" /\ pc'[c] = "clearing"
  BY DEF Inductive, TypeOK
<1>4. /\ RepositoriesSound' /\ HoldsLocks(c)'
      /\ \A d \in Client \ {c} : Undisturbed(d)
      /\ View(c, at[c])' = View(c, at[c])
      /\ View(c, from[c])' = View(c, from[c])
  BY <1>2, <1>3, RegistersOnly
<1>5. Consistent(c)'
  BY <1>3, <1>4
     DEF Inductive, TypeOK, Consistent, RegistersKnown, ViewSound, VisitedStored, DonorVerified,
         RemovalsUnreferred, ConversionExact, WithGoal, WithReplica, Loose
<1> QED BY <1>1, <1>4, <1>5 DEF StepOK

LEMMA SelectOK ==
  ASSUME Inductive, NEW c \in Client, NEW S \in SUBSET Snap, Select(c, S)
  PROVE  StepOK(c)
<1> USE DEF Select, Goto, Visited, disk, registers, ghosts
<1>1. TypeOK'
  BY DEF Inductive, TypeOK, Steps, Object
<1>2. \A d \in Client \ {c} : SameClient(d)
  BY DEF SameClient, Inductive, TypeOK
<1>3. pc[c] = "comparing" /\ pc'[c] = "choosing" /\ plan'[c] = S
  BY DEF Inductive, TypeOK
<1>4. /\ RepositoriesSound' /\ HoldsLocks(c)'
      /\ \A d \in Client \ {c} : Undisturbed(d)
      /\ View(c, at[c])' = View(c, at[c])
      /\ View(c, from[c])' = View(c, from[c])
  BY <1>2, <1>3, RegistersOnly
<1>5. Consistent(c)'
  BY <1>3, <1>4
     DEF Inductive, TypeOK, Consistent, RegistersKnown, ViewSound, VisitedStored, DonorVerified,
         RemovalsUnreferred, ConversionExact, WithGoal, WithReplica, Loose
<1> QED BY <1>1, <1>4, <1>5 DEF StepOK

LEMMA ChooseOK ==
  ASSUME Inductive, NEW c \in Client, NEW s \in Snap, Choose(c, s)
  PROVE  StepOK(c)
<1> USE DEF Choose, Goto, Visited, disk, registers, ghosts
<1>1. TypeOK'
  BY RefsType DEF Inductive, TypeOK, Steps, Object
<1>2. \A d \in Client \ {c} : SameClient(d)
  BY DEF SameClient, Inductive, TypeOK
<1>3. /\ pc[c] = "choosing" /\ pc'[c] = "copying"
      /\ goal'[c] = s /\ plan'[c] = plan[c] \ {s} /\ todo'[c] = Refs[s]
  BY DEF Inductive, TypeOK
<1>4. /\ RepositoriesSound' /\ HoldsLocks(c)'
      /\ \A d \in Client \ {c} : Undisturbed(d)
      /\ View(c, at[c])' = View(c, at[c])
      /\ View(c, from[c])' = View(c, from[c])
  BY <1>2, <1>3, RegistersOnly
<1>5. Consistent(c)'
  BY <1>3, <1>4, RefsType
     DEF Inductive, TypeOK, Consistent, RegistersKnown, ViewSound, VisitedStored, DonorVerified,
         RemovalsUnreferred, ConversionExact, WithGoal, WithReplica, Loose
<1> QED BY <1>1, <1>4, <1>5 DEF StepOK

LEMMA CheckRepairedOK ==
  ASSUME Inductive, NEW c \in Client, CheckRepaired(c)
  PROVE  StepOK(c)
<1> USE DEF CheckRepaired, Goto, Visited, disk, registers, ghosts
<1>1. TypeOK'
  BY DEF Inductive, TypeOK, Steps, Object
<1>2. \A d \in Client \ {c} : SameClient(d)
  BY DEF SameClient, Inductive, TypeOK
<1>3. pc[c] = "checking" /\ pc'[c] = "choosing"
  BY DEF Inductive, TypeOK
<1>4. /\ RepositoriesSound' /\ HoldsLocks(c)'
      /\ \A d \in Client \ {c} : Undisturbed(d)
      /\ View(c, at[c])' = View(c, at[c])
      /\ View(c, from[c])' = View(c, from[c])
  BY <1>2, <1>3, RegistersOnly
<1>5. Consistent(c)'
  BY <1>3, <1>4
     DEF Inductive, TypeOK, Consistent, RegistersKnown, ViewSound, VisitedStored, DonorVerified,
         RemovalsUnreferred, ConversionExact, WithGoal, WithReplica, Loose
<1> QED BY <1>1, <1>4, <1>5 DEF StepOK

LEMMA EndRepairOK ==
  ASSUME Inductive, NEW c \in Client, EndRepair(c)
  PROVE  StepOK(c)
<1> USE DEF EndRepair, Goto, Visited, disk, registers, ghosts
<1>1. TypeOK'
  BY DEF Inductive, TypeOK, Steps, Object
<1>2. \A d \in Client \ {c} : SameClient(d)
  BY DEF SameClient, Inductive, TypeOK
<1>3. pc[c] = "choosing" /\ pc'[c] = "leaving"
  BY DEF Inductive, TypeOK
<1>4. /\ RepositoriesSound' /\ HoldsLocks(c)'
      /\ \A d \in Client \ {c} : Undisturbed(d)
      /\ View(c, at[c])' = View(c, at[c])
      /\ View(c, from[c])' = View(c, from[c])
  BY <1>2, <1>3, RegistersOnly
<1>5. Consistent(c)'
  BY <1>3, <1>4
     DEF Inductive, TypeOK, Consistent, RegistersKnown, ViewSound, VisitedStored, DonorVerified,
         RemovalsUnreferred, ConversionExact, WithGoal, WithReplica, Loose
<1> QED BY <1>1, <1>4, <1>5 DEF StepOK

LEMMA PackOK ==
  ASSUME Inductive, NEW c \in Client, Pack(c)
  PROVE  StepOK(c)
<1> USE DEF Pack, Goto, disk, ghosts
<1>0. at[c] \in Repo /\ View(c, at[c]) \in Store
  BY InOperation
<1>1. TypeOK'
  BY <1>0 DEF Inductive, TypeOK, Steps
<1>2. \A d \in Client \ {c} : SameClient(d)
  BY DEF SameClient, Inductive, TypeOK
<1>3. /\ pc[c] = "packing" /\ pc'[c] = "replacing"
      /\ txn'[c] = loose[at[c]]
      /\ View(c, at[c])' = View(c, at[c])
  BY DEF Inductive, TypeOK, View
<1>4. /\ RepositoriesSound' /\ HoldsLocks(c)'
      /\ \A d \in Client \ {c} : Undisturbed(d)
  BY <1>2, <1>3, RegistersOnly
<1>5. Consistent(c)'
  BY <1>3, <1>4
     DEF Inductive, TypeOK, Consistent, RegistersKnown, ViewSound, VisitedStored, DonorVerified,
         RemovalsUnreferred, ConversionExact, WithGoal, WithReplica, Loose
<1> QED BY <1>1, <1>4, <1>5 DEF StepOK

LEMMA FailOK ==
  ASSUME Inductive, NEW c \in Client, Fail(c)
  PROVE  StepOK(c)
<1> USE DEF Fail, disk, ghosts
<1>1. TypeOK'
  BY EmptyIsStore DEF Inductive, TypeOK, Steps
<1>2. \A d \in Client \ {c} : SameClient(d)
  BY DEF SameClient, Inductive, TypeOK
<1>3. pc[c] # "idle" /\ pc'[c] = "unlocking"
  BY DEF Inductive, TypeOK
<1>4. /\ RepositoriesSound' /\ HoldsLocks(c)'
      /\ \A d \in Client \ {c} : Undisturbed(d)
  BY <1>2, <1>3, RegistersOnly
<1>5. Consistent(c)'
  BY <1>3, <1>4
     DEF Inductive, TypeOK, Consistent, RegistersKnown, ViewSound, VisitedStored, DonorVerified,
         RemovalsUnreferred, ConversionExact, WithGoal, WithReplica, Loose
<1> QED BY <1>1, <1>4, <1>5 DEF StepOK

-----------------------------------------------------------------------------
(***************************************************************************)
(* Stores that stay sound.                                                 *)
(***************************************************************************)

\* Publishing a good object keeps a store sound: a manifest only once its
\* chunks are there.
LEMMA SoundWrite ==
  ASSUME NEW store \in Store, NEW bad, NEW S \in SUBSET Snap,
         Sound(store, bad, S),
         NEW o \in Object,
         o \in Snap => \A h \in Refs[o] : store[h] = "good"
  PROVE  Sound([store EXCEPT ![o] = "good"], bad, S)
<1> DEFINE new == [store EXCEPT ![o] = "good"]
<1>1. \A p \in Object : new[p] = IF p = o THEN "good" ELSE store[p]
  BY DEF Store
<1>2. \A s \in Snap : s \in Object /\ \A h \in Refs[s] : h \in Object
  BY RefsType DEF Object
<1>3. ASSUME NEW s \in Addresses(new), NEW h \in Refs[s]
      PROVE  new[h] = "good" \/ h \in bad
  <2>1. s \in Snap /\ h \in Object
    BY <1>2 DEF Addresses
  <2>2. CASE s = o
    BY <1>1, <2>1, <2>2
  <2>3. CASE s # o
    BY <1>1, <1>2, <2>1, <2>3 DEF Addresses, Sound
  <2> QED BY <2>2, <2>3
<1>4. \A s \in S \ bad : new[s] = "good"
  BY <1>1, <1>2 DEF Sound
<1>5. \A p \in Object : new[p] = "bad" => p \in bad
  BY <1>1 DEF Sound
<1> QED BY <1>3, <1>4, <1>5 DEF Sound

\* So does bringing the observers up to date: what is good is not lost, and a
\* good manifest is one to keep.
LEMMA SoundObserved ==
  ASSUME NEW store \in Store, NEW bad, NEW S \in SUBSET Snap,
         Sound(store, bad, S)
  PROVE  Sound(store, {o \in bad : store[o] # "good"},
               S \cup {s \in Snap : store[s] = "good"})
  BY DEF Sound

\* Removing manifests, and chunks no remaining manifest refers to.
LEMMA SoundRemove ==
  ASSUME NEW store \in Store, NEW new \in Store, NEW bad, NEW S \in SUBSET Snap,
         NEW R \in SUBSET Snap, NEW removed \in SUBSET Object,
         Sound(store, bad, S),
         R \subseteq S,
         R \cap removed = {},
         \A o \in Object : new[o] = IF o \in removed THEN "absent" ELSE store[o],
         \A s \in Addresses(store) \ removed : Refs[s] \cap removed = {}
  PROVE  Sound(new, bad, R)
<1>1. \A s \in Snap : s \in Object /\ \A h \in Refs[s] : h \in Object
  BY RefsType DEF Object
<1>2. ASSUME NEW s \in Addresses(new), NEW h \in Refs[s]
      PROVE  new[h] = "good" \/ h \in bad
  <2>1. s \in Addresses(store) \ removed
    BY <1>1 DEF Addresses
  <2>2. h \notin removed
    BY <2>1
  <2> QED BY <1>1, <2>1, <2>2 DEF Sound, Addresses
<1>3. \A s \in R \ bad : new[s] = "good"
  BY <1>1 DEF Sound
<1>4. \A o \in Object : new[o] = "bad" => o \in bad
  BY DEF Sound
<1> QED BY <1>2, <1>3, <1>4 DEF Sound

\* The medium taking a good object it records.
LEMMA SoundDamage ==
  ASSUME NEW store \in Store, NEW bad, NEW S \in SUBSET Snap,
         Sound(store, bad, S),
         NEW o \in Object, NEW health \in {"absent", "bad"},
         store[o] = "good"
  PROVE  Sound([store EXCEPT ![o] = health], bad \cup {o}, S)
<1> DEFINE new == [store EXCEPT ![o] = health]
<1>1. \A p \in Object : new[p] = IF p = o THEN health ELSE store[p]
  BY DEF Store
<1>2. \A s \in Snap : s \in Object /\ \A h \in Refs[s] : h \in Object
  BY RefsType DEF Object
<1>3. ASSUME NEW s \in Addresses(new), NEW h \in Refs[s]
      PROVE  new[h] = "good" \/ h \in bad \cup {o}
  <2>1. s \in Snap /\ h \in Object /\ s \in Addresses(store)
    BY <1>1, <1>2 DEF Addresses
  <2> QED BY <1>1, <2>1 DEF Sound
<1>4. \A s \in S \ (bad \cup {o}) : new[s] = "good"
  BY <1>1, <1>2 DEF Sound
<1>5. \A p \in Object : new[p] = "bad" => p \in bad \cup {o}
  BY <1>1 DEF Sound
<1> QED BY <1>3, <1>4, <1>5 DEF Sound

-----------------------------------------------------------------------------
(***************************************************************************)
(* Steps that publish an object.                                           *)
(***************************************************************************)

LEMMA WriteOK ==
  ASSUME Inductive, NEW c \in Client, NEW o \in Object, Write(c, o, "good"),
         pc[c] \notin {"idle", "unlocking"},
         UNCHANGED <<at, from>>,
         o \in Snap => \A h \in Refs[o] : View(c, at[c])[h] = "good"
  PROVE  /\ UNCHANGED <<lock, format, packed>>
         /\ loose' \in [Repo -> Store] /\ txn' \in [Client -> Store]
         /\ damaged' \in [Repo -> SUBSET Object] /\ kept' \in [Repo -> SUBSET Snap]
         /\ RepositoriesSound'
         /\ View(c, at[c])' = [View(c, at[c]) EXCEPT ![o] = "good"]
         /\ Sound(View(c, at[c]), damaged[at[c]], kept[at[c]])'
         /\ from[c] # Nil => View(c, from[c])' = View(c, from[c])
         /\ \A d \in Client \ {c} :
                txn'[d] = txn[d] /\ \A r \in Repo : lock[r] = d => SameRepo(r)
<1>0. PICK r \in Repo : r = at[c]
  BY InOperation
<1> DEFINE old == View(c, r)
           new == [old EXCEPT ![o] = "good"]
<1>1. /\ r = at'[c] /\ lock[r] = c /\ old \in Store
      /\ from[c] # Nil => from[c] \in Repo /\ from[c] # r
  BY <1>0, InOperation
<1>2. new \in Store
  BY <1>1, StoreExcept DEF Health
<1>3. Sound(old, damaged[r], kept[r])
  BY <1>0 DEF Inductive, Consistent, ViewSound
<1>4. kept[r] \in SUBSET Snap
  BY <1>1 DEF Inductive, TypeOK
<1>5. Sound(new, damaged[r], kept[r])
  BY <1>1, <1>3, <1>4, SoundWrite
<1>6. CASE format[r] = "v1"
  <2>1. /\ loose' = [loose EXCEPT ![r] = new]
        /\ damaged' = [damaged EXCEPT ![r] = {p \in @ : new[p] # "good"}]
        /\ kept' = [kept EXCEPT ![r] = @ \cup {s \in Snap : new[s] = "good"}]
        /\ UNCHANGED <<lock, format, packed, txn>>
    BY <1>0, <1>6 DEF Write, Observe
  <2> HIDE DEF new
  <2>2. /\ loose' \in [Repo -> Store] /\ txn' \in [Client -> Store]
        /\ damaged' \in [Repo -> SUBSET Object] /\ kept' \in [Repo -> SUBSET Snap]
    BY <1>2, <2>1 DEF Inductive, TypeOK
  <2>3. Disk(r)' = new /\ View(c, r)' = new
    BY <1>1, <1>6, <2>1 DEF Disk, View, Inductive, TypeOK
  <2>4. /\ damaged'[r] = {p \in damaged[r] : new[p] # "good"}
        /\ kept'[r] = kept[r] \cup {s \in Snap : new[s] = "good"}
    BY <1>1, <2>1 DEF Inductive, TypeOK
  <2>5. Sound(new, damaged'[r], kept'[r])
    BY <1>2, <1>4, <1>5, <2>4, SoundObserved
  <2>6. \A q \in Repo \ {r} : SameRepo(q) /\ Disk(q)' = Disk(q)
    BY <2>1 DEF SameRepo, Disk, Inductive, TypeOK
  <2>7. RepositoriesSound'
    <3> SUFFICES ASSUME NEW q \in Repo PROVE Sound(Disk(q), damaged[q], kept[q])'
      BY DEF RepositoriesSound
    <3>1. CASE q = r
      BY <2>3, <2>5, <3>1
    <3>2. CASE q # r
      BY <2>6, <3>2 DEF Inductive, RepositoriesSound, SameRepo
    <3> QED BY <3>1, <3>2
  <2>8. from[c] # Nil => View(c, from[c])' = View(c, from[c])
    BY <1>1, <2>6, <2>1 DEF View, SameRepo
  <2>9. \A d \in Client \ {c} :
            txn'[d] = txn[d] /\ \A q \in Repo : lock[q] = d => SameRepo(q)
    BY <1>1, <2>1, <2>6
  <2>10. Sound(View(c, at[c]), damaged[at[c]], kept[at[c]])'
    BY <1>0, <1>1, <2>3, <2>5
  <2>11. View(c, at[c])' = new
    BY <1>1, <2>3
  <2> QED BY <1>0, <2>1, <2>2, <2>7, <2>8, <2>9, <2>10, <2>11 DEF new
<1>7. CASE format[r] # "v1"
  <2>1. /\ txn' = [txn EXCEPT ![c] = new]
        /\ UNCHANGED <<disk, ghosts>>
    BY <1>0, <1>7 DEF Write
  <2> HIDE DEF new
  <2>2. txn' \in [Client -> Store]
    BY <1>2, <2>1 DEF Inductive, TypeOK
  <2>3. View(c, at[c])' = new
    BY <1>1, <1>7, <2>1 DEF View, Inductive, TypeOK, disk
  <2>4. Sound(View(c, at[c]), damaged[at[c]], kept[at[c]])'
    BY <1>1, <2>1, <2>3, <1>5 DEF ghosts
  <2>5. RepositoriesSound'
    BY <2>1 DEF Inductive, RepositoriesSound, Disk, disk, ghosts
  <2>6. from[c] # Nil => View(c, from[c])' = View(c, from[c])
    BY <1>1, <2>1 DEF View, disk
  <2>7. \A d \in Client \ {c} :
            txn'[d] = txn[d] /\ \A q \in Repo : lock[q] = d => SameRepo(q)
    BY <2>1 DEF SameRepo, disk, ghosts, Inductive, TypeOK
  <2> QED BY <1>0, <2>1, <2>2, <2>3, <2>4, <2>5, <2>6, <2>7 DEF new, disk, ghosts, Inductive, TypeOK
<1> QED BY <1>6, <1>7

LEMMA StoreChunkOK ==
  ASSUME Inductive, NEW c \in Client, NEW h \in Chunk, StoreChunk(c, h)
  PROVE  StepOK(c)
<1> USE DEF StoreChunk, Visited
<1>1. h \in Object /\ h \notin Snap
  BY ObjectsAreDistinct DEF Object
<1>2. /\ UNCHANGED <<lock, format, packed>>
      /\ loose' \in [Repo -> Store] /\ txn' \in [Client -> Store]
      /\ damaged' \in [Repo -> SUBSET Object] /\ kept' \in [Repo -> SUBSET Snap]
      /\ RepositoriesSound'
      /\ View(c, at[c])' = [View(c, at[c]) EXCEPT ![h] = "good"]
      /\ Sound(View(c, at[c]), damaged[at[c]], kept[at[c]])'
      /\ \A d \in Client \ {c} :
             txn'[d] = txn[d] /\ \A r \in Repo : lock[r] = d => SameRepo(r)
  BY <1>1, WriteOK
<1>3. TypeOK'
  BY <1>2 DEF Inductive, TypeOK
<1>4. \A d \in Client \ {c} : Undisturbed(d)
  BY <1>2 DEF Undisturbed, SameClient, Inductive, TypeOK
<1>5. View(c, at[c]) \in Store /\ todo'[c] = todo[c] \ {h}
  BY InOperation DEF Inductive, TypeOK
<1>6. VisitedStored(c)'
  <2>1. goal[c] \in Snap
    BY DEF Inductive, Consistent, RegistersKnown, WithGoal
  <2>2. \A g \in Refs[goal[c]] : g \in Object
    BY <2>1, RefsType DEF Object
  <2> QED BY <1>2, <1>5, <2>2 DEF VisitedStored, Inductive, Consistent, Store
<1>7. Consistent(c)'
  BY <1>2, <1>6 DEF Inductive, Consistent, HoldsLocks, RegistersKnown, ViewSound, DonorVerified,
        RemovalsUnreferred, ConversionExact, WithGoal, WithReplica, Loose
<1> QED BY <1>2, <1>3, <1>4, <1>7 DEF StepOK

LEMMA PublishManifestOK ==
  ASSUME Inductive, NEW c \in Client, PublishManifest(c)
  PROVE  StepOK(c)
<1> USE DEF PublishManifest, Goto
<1>1. goal[c] \in Snap /\ goal[c] \in Object
  BY DEF Inductive, Consistent, RegistersKnown, WithGoal, Object
<1>2. \A h \in Refs[goal[c]] : View(c, at[c])[h] = "good"
  BY DEF Inductive, Consistent, VisitedStored
<1>3. pc[c] = "storing" /\ pc'[c] = "leaving"
  BY DEF Inductive, TypeOK
<1>4. CASE Write(c, goal[c], "good")
  <2>1. /\ UNCHANGED <<lock, format, packed>>
        /\ loose' \in [Repo -> Store] /\ txn' \in [Client -> Store]
        /\ damaged' \in [Repo -> SUBSET Object] /\ kept' \in [Repo -> SUBSET Snap]
        /\ RepositoriesSound'
        /\ Sound(View(c, at[c]), damaged[at[c]], kept[at[c]])'
        /\ \A d \in Client \ {c} :
               txn'[d] = txn[d] /\ \A r \in Repo : lock[r] = d => SameRepo(r)
    BY <1>1, <1>2, <1>4, WriteOK
  <2>2. TypeOK'
    BY <2>1 DEF Inductive, TypeOK, Steps
  <2>3. \A d \in Client \ {c} : Undisturbed(d)
    BY <2>1 DEF Undisturbed, SameClient, Inductive, TypeOK
  <2>4. Consistent(c)'
    BY <1>3, <2>1
       DEF Inductive, Consistent, HoldsLocks, RegistersKnown, ViewSound, VisitedStored,
           DonorVerified, RemovalsUnreferred, ConversionExact, WithGoal, WithReplica, Loose
  <2> QED BY <2>1, <2>2, <2>3, <2>4 DEF StepOK
<1>5. CASE UNCHANGED <<disk, txn, ghosts>>
  <2> USE DEF disk, ghosts
  <2>1. TypeOK'
    BY <1>5 DEF Inductive, TypeOK, Steps
  <2>2. \A d \in Client \ {c} : SameClient(d)
    BY <1>5 DEF SameClient, Inductive, TypeOK
  <2>3. /\ RepositoriesSound' /\ HoldsLocks(c)'
        /\ \A d \in Client \ {c} : Undisturbed(d)
        /\ View(c, at[c])' = View(c, at[c])
    BY <1>3, <1>5, <2>2, RegistersOnly
  <2>4. Consistent(c)'
    BY <1>3, <1>5, <2>3
       DEF Inductive, Consistent, HoldsLocks, RegistersKnown, ViewSound, VisitedStored,
           DonorVerified, RemovalsUnreferred, ConversionExact, WithGoal, WithReplica, Loose
  <2> QED BY <2>1, <2>3, <2>4 DEF StepOK
<1> QED BY <1>4, <1>5

\* Mending writes a good object or nothing, because the replica was verified.
LEMMA MendOK ==
  ASSUME Inductive, NEW c \in Client, NEW o \in Object, Mend(c, o), pc[c] = "copying",
         UNCHANGED <<at, from>>,
         \A d \in Client \ {c} :
             /\ pc'[d] = pc[d] /\ at'[d] = at[d] /\ from'[d] = from[d]
             /\ goal'[d] = goal[d] /\ plan'[d] = plan[d] /\ todo'[d] = todo[d],
         o \in Refs[goal[c]] \cup {goal[c]},
         o \in Snap => \A h \in Refs[o] : View(c, at[c])[h] = "good"
  PROVE  /\ UNCHANGED <<lock, format, packed>>
         /\ loose' \in [Repo -> Store] /\ txn' \in [Client -> Store]
         /\ damaged' \in [Repo -> SUBSET Object] /\ kept' \in [Repo -> SUBSET Snap]
         /\ RepositoriesSound'
         /\ View(c, at[c])' = [View(c, at[c]) EXCEPT ![o] = "good"]
         /\ ViewSound(c)'
         /\ View(c, from[c])' = View(c, from[c])
         /\ \A d \in Client \ {c} : Undisturbed(d)
<1>1. /\ at[c] \in Repo /\ from[c] \in Repo /\ from[c] # Nil
      /\ View(c, at[c]) \in Store
      /\ Sound(View(c, at[c]), damaged[at[c]], kept[at[c]])
  BY InOperation, NilIsNoValue
     DEF Inductive, Consistent, RegistersKnown, ViewSound, WithReplica
<1>2. View(c, from[c])[o] = "good"
  BY DEF Inductive, Consistent, DonorVerified, Verified
<1>3. CASE View(c, at[c])[o] = "good"
  <2>1. UNCHANGED <<disk, txn, ghosts>>
    BY <1>3 DEF Mend
  <2>2. View(c, at[c])' = View(c, at[c]) /\ View(c, from[c])' = View(c, from[c])
    BY <2>1 DEF View, disk
  <2>3. View(c, at[c]) = [View(c, at[c]) EXCEPT ![o] = "good"]
    BY <1>1, <1>3 DEF Store
  <2>4. ViewSound(c)'
    BY <1>1, <2>1, <2>2 DEF ViewSound, ghosts
  <2>5. RepositoriesSound'
    BY <2>1 DEF Inductive, RepositoriesSound, Disk, disk, ghosts
  <2>6. \A d \in Client \ {c} : Undisturbed(d)
    BY <2>1 DEF Undisturbed, SameClient, SameRepo, disk, ghosts
  <2> QED BY <2>1, <2>2, <2>3, <2>4, <2>5, <2>6 DEF disk, ghosts, Inductive, TypeOK
<1>4. CASE View(c, at[c])[o] # "good"
  <2>1. Write(c, o, "good")
    BY <1>2, <1>4 DEF Mend
  <2>2. /\ UNCHANGED <<lock, format, packed>>
        /\ loose' \in [Repo -> Store] /\ txn' \in [Client -> Store]
        /\ damaged' \in [Repo -> SUBSET Object] /\ kept' \in [Repo -> SUBSET Snap]
        /\ RepositoriesSound'
        /\ View(c, at[c])' = [View(c, at[c]) EXCEPT ![o] = "good"]
        /\ Sound(View(c, at[c]), damaged[at[c]], kept[at[c]])'
        /\ View(c, from[c])' = View(c, from[c])
        /\ \A d \in Client \ {c} :
               txn'[d] = txn[d] /\ \A r \in Repo : lock[r] = d => SameRepo(r)
    BY <1>1, <2>1, WriteOK
  <2>3. \A d \in Client \ {c} : Undisturbed(d)
    BY <2>2 DEF Undisturbed, SameClient
  <2> QED BY <2>2, <2>3 DEF ViewSound
<1> QED BY <1>3, <1>4

LEMMA CopyChunkOK ==
  ASSUME Inductive, NEW c \in Client, NEW h \in Chunk, CopyChunk(c, h)
  PROVE  StepOK(c)
<1> USE DEF CopyChunk, Visited
<1>1. h \in Object /\ h \notin Snap /\ h \in Refs[goal[c]] /\ goal[c] \in Snap
  BY ObjectsAreDistinct DEF Object, Inductive, Consistent, DonorVerified, RegistersKnown, WithGoal
<1>2. \A d \in Client \ {c} :
          /\ pc'[d] = pc[d] /\ at'[d] = at[d] /\ from'[d] = from[d]
          /\ goal'[d] = goal[d] /\ plan'[d] = plan[d] /\ todo'[d] = todo[d]
  BY DEF Inductive, TypeOK
<1>3. /\ UNCHANGED <<lock, format, packed>>
      /\ loose' \in [Repo -> Store] /\ txn' \in [Client -> Store]
      /\ damaged' \in [Repo -> SUBSET Object] /\ kept' \in [Repo -> SUBSET Snap]
      /\ RepositoriesSound'
      /\ View(c, at[c])' = [View(c, at[c]) EXCEPT ![h] = "good"]
      /\ ViewSound(c)'
      /\ View(c, from[c])' = View(c, from[c])
      /\ \A d \in Client \ {c} : Undisturbed(d)
  BY <1>1, <1>2, MendOK
<1>4. TypeOK'
  BY <1>3 DEF Inductive, TypeOK
<1>5. View(c, at[c]) \in Store /\ todo'[c] = todo[c] \ {h}
  BY InOperation DEF Inductive, TypeOK
<1>6. VisitedStored(c)'
  <2>1. \A g \in Refs[goal[c]] : g \in Object
    BY <1>1, RefsType DEF Object
  <2> QED BY <1>3, <1>5, <2>1 DEF VisitedStored, Inductive, Consistent, Store
<1>7. DonorVerified(c)'
  BY <1>3, <1>5 DEF DonorVerified, Inductive, Consistent
<1>8. Consistent(c)'
  BY <1>3, <1>6, <1>7 DEF Inductive, Consistent, HoldsLocks, RegistersKnown,
        RemovalsUnreferred, ConversionExact, WithGoal, WithReplica, Loose
<1> QED BY <1>3, <1>4, <1>8 DEF StepOK

LEMMA CopyManifestOK ==
  ASSUME Inductive, NEW c \in Client, CopyManifest(c)
  PROVE  StepOK(c)
<1> USE DEF CopyManifest, Goto
<1>1. /\ goal[c] \in Object
      /\ \A h \in Refs[goal[c]] : View(c, at[c])[h] = "good"
  BY DEF Object, Inductive, Consistent, VisitedStored, RegistersKnown, WithGoal
<1>2. \A d \in Client \ {c} :
          /\ pc'[d] = pc[d] /\ at'[d] = at[d] /\ from'[d] = from[d]
          /\ goal'[d] = goal[d] /\ plan'[d] = plan[d] /\ todo'[d] = todo[d]
  BY DEF Inductive, TypeOK
<1>3. /\ UNCHANGED <<lock, format, packed>>
      /\ loose' \in [Repo -> Store] /\ txn' \in [Client -> Store]
      /\ damaged' \in [Repo -> SUBSET Object] /\ kept' \in [Repo -> SUBSET Snap]
      /\ RepositoriesSound'
      /\ ViewSound(c)'
      /\ View(c, from[c])' = View(c, from[c])
      /\ \A d \in Client \ {c} : Undisturbed(d)
  BY <1>1, <1>2, MendOK
<1>4. TypeOK' /\ pc'[c] = "checking"
  BY <1>3 DEF Inductive, TypeOK, Steps
<1>5. DonorVerified(c)'
  BY <1>3, <1>4 DEF DonorVerified, Inductive, Consistent
<1>6. Consistent(c)'
  BY <1>3, <1>4, <1>5 DEF Inductive, Consistent, HoldsLocks, RegistersKnown, VisitedStored,
        RemovalsUnreferred, ConversionExact, WithGoal, WithReplica, Loose
<1> QED BY <1>3, <1>4, <1>6 DEF StepOK

-----------------------------------------------------------------------------
(***************************************************************************)
(* Steps that remove objects.                                              *)
(***************************************************************************)

\* Unlinking a loose object that is out of use: the repository is packed, or
\* nothing that must survive needs the object.
LEMMA UnlinkOK ==
  ASSUME Inductive, NEW c \in Client, NEW o \in Object, Unlink(c, o), o \in todo[c],
         pc[c] \in {"unlinking", "sweeping", "clearing"},
         format[at[c]] = "v1" =>
             /\ o \notin kept[at[c]]
             /\ \A s \in Addresses(loose[at[c]]) \ {o} : o \notin Refs[s],
         pc[c] = "unlinking" => o \in Snap
  PROVE  StepOK(c)
<1> USE DEF Unlink, Visited, ghosts
<1>0. PICK r \in Repo : r = at[c]
  BY InOperation
<1>1. /\ r = at'[c] /\ lock[r] = c /\ loose[r] \in Store
      /\ damaged[r] \in SUBSET Object /\ kept[r] \in SUBSET Snap
      /\ from[c] = Nil
  BY <1>0, InOperation DEF Inductive, TypeOK, Consistent, RegistersKnown, WithReplica
<1> DEFINE new == [loose[r] EXCEPT ![o] = "absent"]
<1>2. /\ loose' = [loose EXCEPT ![r] = new] /\ new \in Store /\ loose'[r] = new
      /\ \A p \in Object : new[p] = IF p = o THEN "absent" ELSE loose[r][p]
      /\ todo'[c] = todo[c] \ {o} /\ pc'[c] = pc[c]
  BY <1>0, <1>1, StoreExcept DEF Health, Store, Inductive, TypeOK
<1> HIDE DEF new
<1>3. TypeOK'
  BY <1>2 DEF Inductive, TypeOK
<1>4. \A q \in Repo \ {r} : SameRepo(q) /\ Disk(q)' = Disk(q)
  BY <1>2 DEF SameRepo, Disk, Inductive, TypeOK
<1>5. Sound(Disk(r), damaged[r], kept[r])'
  <2>0. Sound(Disk(r), damaged[r], kept[r])
    BY DEF Inductive, RepositoriesSound
  <2>1. CASE format[r] = "v1"
    <3>1. Disk(r) = loose[r] /\ Disk(r)' = new
      BY <1>2, <2>1 DEF Disk
    <3>2. /\ kept[r] \cap {o} = {}
          /\ \A s \in Addresses(loose[r]) \ {o} : Refs[s] \cap {o} = {}
      BY <1>0, <2>1
    <3>3. Sound(loose[r], damaged[r], kept[r])
      BY <2>0, <3>1
    <3>4. /\ {o} \in SUBSET Object
          /\ \A p \in Object : new[p] = IF p \in {o} THEN "absent" ELSE loose[r][p]
      BY <1>2
    <3> DEFINE S == kept[r]
               bad == damaged[r]
               old == loose[r]
    <3>5. /\ new \in Store /\ old \in Store /\ S \in SUBSET Snap /\ S \cap {o} = {}
          /\ Sound(old, bad, S)
          /\ \A p \in Object : new[p] = IF p \in {o} THEN "absent" ELSE old[p]
          /\ \A s \in Addresses(old) \ {o} : Refs[s] \cap {o} = {}
      BY <1>1, <1>2, <3>2, <3>3, <3>4
    <3> HIDE DEF S, bad, old
    <3>6. Sound(new, bad, S)
      BY <3>4, <3>5, SoundRemove
    <3> QED BY <3>1, <3>6 DEF S, bad
  <2>2. CASE format[r] # "v1"
    BY <2>0, <2>2 DEF Disk
  <2> QED BY <2>1, <2>2
<1>6. RepositoriesSound'
  <2> SUFFICES ASSUME NEW q \in Repo PROVE Sound(Disk(q), damaged[q], kept[q])'
    BY DEF RepositoriesSound
  <2>1. CASE q = r
    BY <1>5, <2>1
  <2>2. CASE q # r
    BY <1>4, <2>2 DEF Inductive, RepositoriesSound, SameRepo
  <2> QED BY <2>1, <2>2
<1>7. \A d \in Client \ {c} : Undisturbed(d)
  BY <1>1, <1>2, <1>4 DEF Undisturbed, SameClient, Inductive, TypeOK
<1>8. ViewSound(c)'
  <2>1. CASE format[r] = "v1"
    <3>1. View(c, r)' = Disk(r)'
      BY <2>1 DEF View, Disk
    <3> QED BY <1>1, <1>5, <3>1 DEF ViewSound
  <2>2. CASE format[r] # "v1"
    BY <1>0, <1>1, <2>2 DEF Inductive, Consistent, ViewSound, View
  <2> QED BY <2>1, <2>2
<1>9. RemovalsUnreferred(c)'
  <2>1. RemovalsUnreferred(c)
    BY DEF Inductive, Consistent
  <2>2. Addresses(new) = Addresses(loose[r]) \ {o}
    BY <1>2 DEF Addresses, Object
  <2>3. CASE pc[c] = "unlinking"
    <3>1. /\ todo[c] \cap kept[r] = {}
          /\ \A s \in Addresses(loose[r]) \ todo[c] : Refs[s] \cap todo[c] = {}
      BY <1>0, <2>1, <2>3 DEF RemovalsUnreferred
    <3>2. \A s \in Addresses(new) \ todo'[c] : Refs[s] \cap todo'[c] = {}
      BY <1>2, <2>2, <3>1
    <3> QED BY <1>1, <1>2, <2>3, <3>1, <3>2 DEF RemovalsUnreferred
  <2>4. CASE pc[c] = "sweeping"
    <3>1. \A s \in Addresses(loose[r]) : Refs[s] \cap todo[c] = {}
      BY <1>0, <2>1, <2>4 DEF RemovalsUnreferred
    <3>2. \A s \in Addresses(new) : Refs[s] \cap todo'[c] = {}
      BY <1>2, <2>2, <3>1
    <3> QED BY <1>1, <1>2, <2>4, <3>2 DEF RemovalsUnreferred
  <2>5. CASE pc[c] = "clearing"
    BY <1>2, <2>5 DEF RemovalsUnreferred
  <2> QED BY <2>3, <2>4, <2>5
<1>10. Consistent(c)'
  BY <1>0, <1>1, <1>2, <1>8, <1>9 DEF Inductive, Consistent, HoldsLocks, RegistersKnown,
        VisitedStored, DonorVerified, ConversionExact, WithGoal, WithReplica, Loose
<1> QED BY <1>3, <1>6, <1>7, <1>10 DEF StepOK

LEMMA UnlinkManifestOK ==
  ASSUME Inductive, NEW c \in Client, NEW s \in Snap, UnlinkManifest(c, s)
  PROVE  StepOK(c)
<1>1. s \in Object /\ s \notin Chunk
  BY ObjectsAreDistinct DEF Object
<1>2. s \notin kept[at[c]]
  BY DEF UnlinkManifest, Inductive, Consistent, RemovalsUnreferred
<1>3. \A t \in Addresses(loose[at[c]]) : s \notin Refs[t]
  BY <1>1, RefsType DEF Addresses
<1> QED BY <1>1, <1>2, <1>3, UnlinkOK DEF UnlinkManifest

LEMMA UnlinkChunkOK ==
  ASSUME Inductive, NEW c \in Client, NEW h \in Chunk, UnlinkChunk(c, h)
  PROVE  StepOK(c)
<1>1. h \in Object /\ h \notin Snap
  BY ObjectsAreDistinct DEF Object
<1>2. at[c] \in Repo
  BY InOperation DEF UnlinkChunk
<1>3. h \notin kept[at[c]]
  BY <1>1, <1>2 DEF Inductive, TypeOK
<1>4. \A s \in Addresses(loose[at[c]]) : h \notin Refs[s]
  BY DEF UnlinkChunk, Inductive, Consistent, RemovalsUnreferred
<1> QED BY <1>1, <1>3, <1>4, UnlinkOK DEF UnlinkChunk

LEMMA ClearObjectOK ==
  ASSUME Inductive, NEW c \in Client, NEW o \in Object, ClearObject(c, o)
  PROVE  StepOK(c)
<1>1. format[at[c]] = "v2"
  BY DEF ClearObject, Inductive, Consistent, RegistersKnown
<1> QED BY <1>1, UnlinkOK DEF ClearObject

\* Retaining: a packed repository deletes in its transaction, a loose one only
\* makes its list.
LEMMA RetainOK ==
  ASSUME Inductive, NEW c \in Client, NEW keep \in SUBSET Snap,
         NEW keepLast \in 0..Cardinality(Snap), NEW apply \in BOOLEAN,
         Retain(c, keep, keepLast, apply)
  PROVE  StepOK(c)
<1>0. PICK r \in Repo : r = at[c]
  BY InOperation DEF Retain
<1> DEFINE store == View(c, r)
           retained == keep \cup Newest(Addresses(store), keepLast)
           removed == Obsolete(store, retained) \cup Unreachable(store, retained)
<1>1. /\ lock[r] = c /\ store \in Store /\ from[c] = Nil
      /\ Sound(store, damaged[r], kept[r])
      /\ kept[r] \in SUBSET Snap /\ damaged[r] \in SUBSET Object
      /\ pc[c] = "retaining"
  BY <1>0, InOperation
     DEF Retain, Inductive, TypeOK, Consistent, RegistersKnown, ViewSound, WithReplica
<1>2. /\ UNCHANGED <<disk, at, from, goal, plan, damaged>>
      /\ keep \subseteq Addresses(store)
  BY <1>0 DEF Retain
<1>3. /\ removed \in SUBSET Object
      /\ removed \cap Snap = Addresses(store) \ retained
      /\ removed \cap Chunk = Inventory(store) \ Live(retained)
  BY ObjectsAreDistinct DEF Obsolete, Unreachable, Addresses, Inventory, Object
<1>4. \A s \in Addresses(store) \ removed : Refs[s] \cap removed = {}
  <2> SUFFICES ASSUME NEW s \in Addresses(store) \ removed, NEW h \in Refs[s] PROVE h \notin removed
    OBVIOUS
  <2>1. s \in Snap /\ s \in retained
    BY <1>3 DEF Addresses
  <2>2. h \in Live(retained) /\ h \in Chunk
    BY <2>1, RefsType DEF Live
  <2> QED BY <1>3, <2>2
<1> HIDE DEF removed
<1>5. CASE ~apply
  <2>1. /\ pc' = [pc EXCEPT ![c] = "leaving"]
        /\ UNCHANGED <<todo, txn, kept>>
    BY <1>5 DEF Retain, Goto
  <2>2. TypeOK' /\ pc'[c] = "leaving"
    BY <1>2, <2>1 DEF Inductive, TypeOK, Steps, disk
  <2>3. \A d \in Client \ {c} : SameClient(d)
    BY <1>2, <2>1 DEF SameClient, Inductive, TypeOK
  <2>4. /\ RepositoriesSound' /\ HoldsLocks(c)'
        /\ \A d \in Client \ {c} : Undisturbed(d)
        /\ View(c, at[c])' = View(c, at[c])
    BY <1>1, <1>2, <2>1, <2>2, <2>3, RegistersOnly DEF ghosts
  <2>5. Consistent(c)'
    BY <1>1, <1>2, <2>1, <2>2, <2>4
       DEF Inductive, Consistent, RegistersKnown, ViewSound, VisitedStored, DonorVerified,
           RemovalsUnreferred, ConversionExact, WithGoal, WithReplica, Loose
  <2> QED BY <2>2, <2>4, <2>5 DEF StepOK
<1>6. CASE apply
  <2> DEFINE R == kept[r] \ Obsolete(store, retained)
  <2>1. kept' = [kept EXCEPT ![r] = R]
    BY <1>0, <1>6 DEF Retain
  <2>2. R \subseteq kept[r] /\ R \in SUBSET Snap /\ kept'[r] = R
    BY <1>1, <2>1 DEF Inductive, TypeOK
  <2>3. R \cap removed = {}
    BY <1>3, <2>2 DEF Obsolete, removed
  <2> HIDE DEF R
  <2>4. \A q \in Repo \ {r} : SameRepo(q)
    BY <1>2, <2>1 DEF SameRepo, disk, Inductive, TypeOK
  <2>5. RepositoriesSound'
    <3> SUFFICES ASSUME NEW q \in Repo PROVE Sound(Disk(q), damaged[q], kept[q])'
      BY DEF RepositoriesSound
    <3>1. Disk(q)' = Disk(q) /\ damaged' = damaged /\ kept'[q] \subseteq kept[q]
      BY <1>2, <2>1, <2>2 DEF Disk, disk, Inductive, TypeOK
    <3> QED BY <3>1 DEF Inductive, RepositoriesSound, Sound
  <2>6. CASE format[r] = "v2"
    <3> DEFINE new == [o \in Object |-> IF o \in removed THEN "absent" ELSE store[o]]
    <3>1. /\ txn' = [txn EXCEPT ![c] = new]
          /\ pc' = [pc EXCEPT ![c] = "leaving"]
          /\ UNCHANGED todo
      BY <1>0, <1>6, <2>6 DEF Retain, Goto, removed
    <3>2. /\ new \in Store
          /\ \A o \in Object : new[o] = IF o \in removed THEN "absent" ELSE store[o]
      BY <1>1 DEF Store, Health
    <3> HIDE DEF new
    <3>3. TypeOK'
      BY <1>2, <2>1, <2>2, <3>1, <3>2 DEF Inductive, TypeOK, Steps, disk
    <3>4. /\ pc'[c] = "leaving" /\ at'[c] = r /\ lock'[r] = c /\ from'[c] = Nil
          /\ View(c, r)' = new
      BY <1>0, <1>1, <1>2, <2>6, <3>1 DEF View, disk, Inductive, TypeOK
    <3>5. Sound(new, damaged[r], R)
      BY <1>1, <1>3, <1>4, <2>2, <2>3, <3>2, SoundRemove
    <3>6. Consistent(c)'
      BY <1>2, <2>2, <3>4, <3>5
         DEF Inductive, Consistent, HoldsLocks, RegistersKnown, ViewSound, VisitedStored,
             DonorVerified, RemovalsUnreferred, ConversionExact, WithGoal, WithReplica, Loose
    <3>7. \A d \in Client \ {c} : Undisturbed(d)
      BY <1>1, <1>2, <2>4, <3>1 DEF Undisturbed, SameClient, Inductive, TypeOK
    <3> QED BY <2>5, <3>3, <3>6, <3>7 DEF StepOK
  <2>7. CASE format[r] # "v2"
    <3>1. /\ todo' = [todo EXCEPT ![c] = removed]
          /\ pc' = [pc EXCEPT ![c] = "unlinking"]
          /\ UNCHANGED txn
      BY <1>0, <1>6, <2>7 DEF Retain, Goto, removed
    <3>2. TypeOK'
      BY <1>2, <1>3, <2>1, <2>2, <3>1 DEF Inductive, TypeOK, Steps, disk
    <3>3. /\ pc'[c] = "unlinking" /\ at'[c] = r /\ lock'[r] = c /\ from'[c] = Nil
          /\ todo'[c] = removed /\ format'[r] = "v1" /\ loose'[r] = store
          /\ View(c, r)' = store
      BY <1>0, <1>1, <1>2, <2>7, <3>1 DEF View, disk, Inductive, TypeOK
    <3>4. Sound(store, damaged[r], R)
      BY <1>1, <2>2 DEF Sound
    <3>5. RemovalsUnreferred(c)'
      BY <1>4, <2>2, <2>3, <3>3 DEF RemovalsUnreferred
    <3>6. Consistent(c)'
      BY <1>2, <2>2, <3>3, <3>4, <3>5
         DEF Inductive, Consistent, HoldsLocks, RegistersKnown, ViewSound, VisitedStored,
             DonorVerified, ConversionExact, WithGoal, WithReplica, Loose
    <3>7. \A d \in Client \ {c} : Undisturbed(d)
      BY <1>1, <1>2, <2>4, <3>1 DEF Undisturbed, SameClient, Inductive, TypeOK
    <3> QED BY <2>5, <3>2, <3>6, <3>7 DEF StepOK
  <2> QED BY <2>6, <2>7
<1> QED BY <1>5, <1>6

-----------------------------------------------------------------------------
(***************************************************************************)
(* Steps on whole databases and locks.                                     *)
(***************************************************************************)

\* Nobody reads the database of a loose repository.
LEMMA ReplaceDatabaseOK ==
  ASSUME Inductive, NEW c \in Client, ReplaceDatabase(c)
  PROVE  StepOK(c)
<1> USE DEF ReplaceDatabase, Goto, registers, ghosts
<1>0. PICK r \in Repo : r = at[c]
  BY InOperation
<1>1. /\ lock[r] = c /\ format[r] = "v1" /\ from[c] = Nil /\ txn[c] \in Store
      /\ txn[c] = loose[r]
  BY <1>0, InOperation
     DEF Inductive, TypeOK, Consistent, RegistersKnown, ConversionExact, WithReplica, Loose
<1>2. packed' = [packed EXCEPT ![r] = txn[c]] /\ packed'[r] = txn[c] /\ pc'[c] = "switching"
  BY <1>0 DEF Inductive, TypeOK
<1>3. TypeOK'
  BY <1>1, <1>2 DEF Inductive, TypeOK, Steps
<1>4. \A q \in Repo \ {r} : SameRepo(q)
  BY <1>2 DEF SameRepo, Inductive, TypeOK
<1>5. \A q \in Repo : Disk(q)' = Disk(q)
  BY <1>1, <1>2 DEF Disk, Inductive, TypeOK
<1>6. RepositoriesSound'
  BY <1>5 DEF Inductive, RepositoriesSound
<1>7. View(c, r)' = View(c, r)
  BY <1>1 DEF View
<1>8. Consistent(c)'
  BY <1>0, <1>1, <1>2, <1>7
     DEF Inductive, Consistent, HoldsLocks, RegistersKnown, ViewSound, VisitedStored,
         DonorVerified, RemovalsUnreferred, ConversionExact, WithGoal, WithReplica, Loose
<1>9. \A d \in Client \ {c} : Undisturbed(d)
  BY <1>1, <1>4 DEF Undisturbed, SameClient, Inductive, TypeOK
<1> QED BY <1>3, <1>6, <1>8, <1>9 DEF StepOK

LEMMA SwitchFormatOK ==
  ASSUME Inductive, NEW c \in Client, SwitchFormat(c)
  PROVE  /\ StepOK(c)
         /\ \A r \in Repo : Disk(r)' = Disk(r)
<1> USE DEF SwitchFormat, BeginClear, Goto
<1>0. PICK r \in Repo : r = at[c]
  BY InOperation
<1>1. /\ lock[r] = c /\ format[r] = "v1" /\ from[c] = Nil
      /\ txn[c] = loose[r] /\ packed[r] = loose[r]
  BY <1>0, InOperation
     DEF Inductive, TypeOK, Consistent, RegistersKnown, ConversionExact, WithReplica, Loose
<1>2. /\ format' = [format EXCEPT ![r] = "v2"] /\ format'[r] = "v2" /\ pc'[c] = "clearing"
      /\ at'[c] = r
  BY <1>0 DEF Inductive, TypeOK
<1>3. TypeOK'
  BY <1>2 DEF Inductive, TypeOK, Steps, Leftovers, ghosts
<1>4. \A q \in Repo \ {r} : SameRepo(q)
  BY <1>2 DEF SameRepo, Inductive, TypeOK, ghosts
<1>5. \A q \in Repo : Disk(q)' = Disk(q)
  BY <1>1, <1>2 DEF Disk, Inductive, TypeOK
<1>6. RepositoriesSound'
  BY <1>5 DEF Inductive, RepositoriesSound, ghosts
<1>7. View(c, r)' = Disk(r)'
  BY <1>1, <1>2 DEF View, Disk
<1>8. ViewSound(c)'
  BY <1>2, <1>6, <1>7 DEF RepositoriesSound, ViewSound
<1>9. Consistent(c)'
  BY <1>0, <1>1, <1>2, <1>8
     DEF Inductive, Consistent, HoldsLocks, RegistersKnown, VisitedStored,
         DonorVerified, RemovalsUnreferred, ConversionExact, WithGoal, WithReplica, Loose
<1>10. \A d \in Client \ {c} : Undisturbed(d)
  BY <1>1, <1>4 DEF Undisturbed, SameClient, Inductive, TypeOK
<1> QED BY <1>3, <1>5, <1>6, <1>9, <1>10 DEF StepOK

LEMMA CommitOK ==
  ASSUME Inductive, NEW c \in Client, Commit(c)
  PROVE  StepOK(c)
<1> USE DEF Commit, registers
<1>0. PICK r \in Repo : r = at[c]
  BY InOperation
<1>1. /\ lock[r] = c /\ from[c] = Nil /\ txn[c] \in Store /\ pc'[c] = "unlocking"
      /\ at'[c] = r /\ kept[r] \in SUBSET Snap
  BY <1>0, InOperation DEF Inductive, TypeOK
<1>2. CASE format[r] = "v2"
  <2> DEFINE new == txn[c]
             bad == damaged[r]
             S == kept[r]
  <2>1. /\ packed' = [packed EXCEPT ![r] = new]
        /\ damaged' = [damaged EXCEPT ![r] = {o \in bad : new[o] # "good"}]
        /\ kept' = [kept EXCEPT ![r] = S \cup {s \in Snap : new[s] = "good"}]
    BY <1>0, <1>2 DEF Observe
  <2>2. Sound(new, bad, S)
    BY <1>0, <1>2 DEF Inductive, Consistent, ViewSound, View
  <2>3. new \in Store /\ S \in SUBSET Snap
    BY <1>1
  <2> HIDE DEF new, bad, S
  <2>4. Sound(new, {o \in bad : new[o] # "good"}, S \cup {s \in Snap : new[s] = "good"})
    BY <2>2, <2>3, SoundObserved
  <2>5. TypeOK'
    BY <2>1, <2>3 DEF Inductive, TypeOK, Steps, bad
  <2>6. /\ Disk(r)' = new
        /\ damaged'[r] = {o \in bad : new[o] # "good"}
        /\ kept'[r] = S \cup {s \in Snap : new[s] = "good"}
    BY <1>2, <2>1 DEF Disk, Inductive, TypeOK
  <2>7. \A q \in Repo \ {r} : SameRepo(q) /\ Disk(q)' = Disk(q)
    BY <2>1 DEF SameRepo, Disk, Inductive, TypeOK
  <2>8. RepositoriesSound'
    <3> SUFFICES ASSUME NEW q \in Repo PROVE Sound(Disk(q), damaged[q], kept[q])'
      BY DEF RepositoriesSound
    <3>1. CASE q = r
      BY <2>4, <2>6, <3>1
    <3>2. CASE q # r
      BY <2>7, <3>2 DEF Inductive, RepositoriesSound, SameRepo
    <3> QED BY <3>1, <3>2
  <2>9. Consistent(c)'
    BY <1>0, <1>1 DEF Inductive, Consistent, HoldsLocks, RegistersKnown, ViewSound,
          VisitedStored, DonorVerified, RemovalsUnreferred, ConversionExact,
          WithGoal, WithReplica, Loose
  <2>10. \A d \in Client \ {c} : Undisturbed(d)
    BY <1>1, <2>7 DEF Undisturbed, SameClient, Inductive, TypeOK
  <2> QED BY <2>5, <2>8, <2>9, <2>10 DEF StepOK
<1>3. CASE format[r] # "v2"
  <2>1. UNCHANGED <<disk, ghosts>>
    BY <1>0, <1>3 DEF disk, ghosts
  <2>2. TypeOK'
    BY <2>1 DEF Inductive, TypeOK, Steps, disk, ghosts
  <2>3. \A d \in Client \ {c} : SameClient(d)
    BY DEF SameClient, Inductive, TypeOK
  <2>4. /\ RepositoriesSound' /\ HoldsLocks(c)'
        /\ \A d \in Client \ {c} : Undisturbed(d)
    BY <1>1, <2>1, <2>3, RegistersOnly
  <2>5. Consistent(c)'
    BY <1>0, <1>1, <2>4 DEF Inductive, Consistent, RegistersKnown, ViewSound,
          VisitedStored, DonorVerified, RemovalsUnreferred, ConversionExact,
          WithGoal, WithReplica, Loose
  <2> QED BY <2>2, <2>4, <2>5 DEF StepOK
<1> QED BY <1>2, <1>3

LEMMA PairOK ==
  ASSUME Inductive, NEW c \in Client, NEW r \in Repo, Pair(c, r)
  PROVE  StepOK(c)
<1> USE DEF Pair, Goto, ghosts
<1>1. /\ at[c] \in Repo /\ lock[at[c]] = c /\ from[c] = Nil /\ c \notin {Free, Stale}
  BY InOperation, LockValues DEF Inductive, Consistent, RegistersKnown, WithReplica
<1>2. TypeOK'
  BY DEF Inductive, TypeOK, Steps
<1>3. /\ pc'[c] = "comparing" /\ from'[c] = r /\ lock'[r] = c /\ lock'[at[c]] = c
      /\ View(c, at[c])' = View(c, at[c])
  BY <1>1 DEF Inductive, TypeOK, View
<1>4. RepositoriesSound'
  BY DEF Inductive, RepositoriesSound, Disk
<1>5. \A d \in Client \ {c} : Undisturbed(d)
  BY LockValues DEF Undisturbed, SameClient, SameRepo, Inductive, TypeOK
<1>6. Consistent(c)'
  BY <1>1, <1>3
     DEF Inductive, Consistent, HoldsLocks, RegistersKnown, ViewSound, VisitedStored,
         DonorVerified, RemovalsUnreferred, ConversionExact, WithGoal, WithReplica, Loose
<1> QED BY <1>2, <1>4, <1>5, <1>6 DEF StepOK

\* The environment touches only what no client holds.
LEMMA ClearStaleOK ==
  ASSUME Inductive, NEW r \in Repo, ClearStale(r)
  PROVE  Inductive'
<1> USE DEF ClearStale, registers, ghosts
<1>1. TypeOK'
  BY DEF Inductive, TypeOK
<1>2. RepositoriesSound'
  BY DEF Inductive, RepositoriesSound, Disk
<1>3. \A d \in Client : Undisturbed(d)
  BY LockValues DEF Undisturbed, SameClient, SameRepo, Inductive, TypeOK
<1>4. \A d \in Client : Consistent(d)'
  BY <1>3, UndisturbedConsistent
<1> QED BY <1>1, <1>2, <1>4 DEF Inductive

LEMMA DamageOK ==
  ASSUME Inductive, NEW r \in Repo, NEW o \in Object, NEW health \in {"absent", "bad"},
         Damage(r, o, health)
  PROVE  Inductive'
<1> USE DEF Damage, registers, ghosts
<1> DEFINE store == Disk(r)
           new == [store EXCEPT ![o] = health]
           bad == damaged[r]
           S == kept[r]
<1>1. /\ store \in Store /\ store[o] = "good" /\ S \in SUBSET Snap
      /\ loose[r] \in Store /\ packed[r] \in Store
      /\ Sound(store, bad, S)
  BY DEF Inductive, TypeOK, RepositoriesSound, Disk
<1>2. new \in Store
  BY <1>1, StoreExcept DEF Health
<1>3. /\ Disk(r)' = new
      /\ damaged'[r] = bad \cup {o} /\ kept'[r] = S
  BY DEF Disk, Inductive, TypeOK
<1>4. /\ loose' \in [Repo -> Store] /\ packed' \in [Repo -> Store]
      /\ \A q \in Repo \ {r} : SameRepo(q) /\ Disk(q)' = Disk(q)
  <2>1. /\ [loose[r] EXCEPT ![o] = health] \in Store
        /\ [packed[r] EXCEPT ![o] = health] \in Store
    BY <1>1, StoreExcept DEF Health
  <2>2. \/ /\ loose' = [loose EXCEPT ![r] = [loose[r] EXCEPT ![o] = health]]
           /\ packed' = packed
        \/ /\ packed' = [packed EXCEPT ![r] = [packed[r] EXCEPT ![o] = health]]
           /\ loose' = loose
    OBVIOUS
  <2>3. loose' \in [Repo -> Store] /\ packed' \in [Repo -> Store]
    BY <2>1, <2>2 DEF Inductive, TypeOK
  <2>4. \A q \in Repo \ {r} : SameRepo(q) /\ Disk(q)' = Disk(q)
    BY <2>2 DEF SameRepo, Disk, Inductive, TypeOK
  <2> QED BY <2>3, <2>4
<1>5. TypeOK'
  BY <1>4 DEF Inductive, TypeOK
<1> HIDE DEF store, new, bad, S
<1>6. Sound(new, bad \cup {o}, S)
  BY <1>1, SoundDamage DEF new
<1>7. RepositoriesSound'
  <2> SUFFICES ASSUME NEW q \in Repo PROVE Sound(Disk(q), damaged[q], kept[q])'
    BY DEF RepositoriesSound
  <2>1. CASE q = r
    BY <1>3, <1>6, <2>1
  <2>2. CASE q # r
    BY <1>4, <2>2 DEF Inductive, RepositoriesSound, SameRepo
  <2> QED BY <2>1, <2>2
<1>8. ASSUME NEW d \in Client PROVE Undisturbed(d)
  <2>1. SameClient(d)
    BY DEF SameClient
  <2>2. lock[r] # d
    OBVIOUS
  <2> QED BY <1>4, <2>1, <2>2 DEF Undisturbed
<1>9. \A d \in Client : Consistent(d)'
  BY <1>8, UndisturbedConsistent
<1> QED BY <1>5, <1>7, <1>9 DEF Inductive

-----------------------------------------------------------------------------
(***************************************************************************)
(* The inductive invariant.                                                *)
(***************************************************************************)

LEMMA InductiveInit == Init => Inductive
<1> SUFFICES ASSUME Init PROVE Inductive
  OBVIOUS
<1>1. TypeOK
  BY EmptyIsStore DEF Init, TypeOK, Steps
<1>2. RepositoriesSound
  BY RefsType DEF Init, RepositoriesSound, Sound, Disk, Empty, Addresses, Object
<1>3. \A c \in Client : Consistent(c)
  BY DEF Init, Consistent, HoldsLocks, RegistersKnown, ViewSound, VisitedStored,
      DonorVerified, RemovalsUnreferred, ConversionExact, WithGoal, WithReplica, Loose
<1> QED BY <1>1, <1>2, <1>3 DEF Inductive

\* Each step of an operation, one action at a time.
LEMMA ClientStep ==
  ASSUME Inductive, NEW c \in Client, Begin(c) \/ Continue(c) \/ Crash(c)
  PROVE  StepOK(c)
<1>1. CASE Begin(c)
  <2>1. PICK r \in Repo :
            \/ \E s \in Snap : BeginCreate(c, r, s) \/ BeginRead(c, r, s)
            \/ BeginList(c, r) \/ BeginPrune(c, r) \/ BeginCompact(c, r) \/ BeginRepair(c, r)
    BY <1>1 DEF Begin
  <2> QED BY <2>1, BeginCreateOK, BeginReadOK, BeginListOK, BeginPruneOK, BeginCompactOK,
             BeginRepairOK
<1>2. CASE Create(c)
  BY <1>2, ReuseChunkOK, StoreChunkOK, PublishManifestOK DEF Create
<1>3. CASE Read(c)
  BY <1>3, ReadObjectOK, EndReadOK DEF Read
<1>4. CASE Prune(c)
  BY <1>4, RetainOK, UnlinkManifestOK, BeginSweepOK, UnlinkChunkOK, EndSweepOK DEF Prune
<1>5. CASE Compact(c)
  BY <1>5, PackOK, ReplaceDatabaseOK, SwitchFormatOK, RecompactOK, ClearObjectOK, EndClearOK
     DEF Compact
<1>6. CASE Repair(c)
  BY <1>6, PairOK, SelectOK, ChooseOK, CopyChunkOK, CopyManifestOK, CheckRepairedOK, EndRepairOK
     DEF Repair
<1>7. CASE Leave(c)
  BY <1>7, ReleaseReplicaOK, CommitOK, UnlockOK DEF Leave
<1>8. CASE Fail(c)
  BY <1>8, FailOK
<1>9. CASE Crash(c)
  BY <1>9, CrashOK
<1> QED BY <1>1, <1>2, <1>3, <1>4, <1>5, <1>6, <1>7, <1>8, <1>9 DEF Continue

LEMMA InductiveStep == Inductive /\ [Next]_vars => Inductive'
<1> SUFFICES ASSUME Inductive, [Next]_vars PROVE Inductive'
  OBVIOUS
<1>1. CASE \E c \in Client : Begin(c) \/ Continue(c) \/ Crash(c)
  BY <1>1, ClientStep, StepSuffices
<1>2. CASE \E r \in Repo : Environment(r)
  BY <1>2, ClearStaleOK, DamageOK DEF Environment
<1>3. CASE UNCHANGED vars
  <2>1. /\ UNCHANGED <<lock, format, loose, packed, pc, at, from, goal, plan, todo, txn>>
        /\ UNCHANGED <<damaged, kept>>
    BY <1>3 DEF vars
  <2>2. TypeOK'
    BY <2>1 DEF Inductive, TypeOK
  <2>3. RepositoriesSound'
    BY <2>1 DEF Inductive, RepositoriesSound, Disk
  <2>4. \A c \in Client : Undisturbed(c)
    BY <2>1 DEF Undisturbed, SameClient, SameRepo
  <2>5. \A c \in Client : Consistent(c)'
    BY <2>4, UndisturbedConsistent
  <2> QED BY <2>2, <2>3, <2>5 DEF Inductive
<1> QED BY <1>1, <1>2, <1>3 DEF Next

LEMMA AlwaysInductive == Spec => []Inductive
  BY InductiveInit, InductiveStep, PTL DEF Spec

-----------------------------------------------------------------------------
(***************************************************************************)
(* The theorems.                                                           *)
(***************************************************************************)

\* Every variable keeps its type, whatever the clients do and whenever they
\* are killed.
THEOREM TypeCorrect == Spec => []TypeOK
<1>1. Inductive => TypeOK
  BY DEF Inductive
<1> QED BY <1>1, AlwaysInductive, PTL

\* The sentinel file excludes: of any number of processes, at most one is
\* inside a repository, as its user or as the reader of a replica.
THEOREM Exclusion == Spec => []LocksExclude
<1>1. Inductive => LocksExclude
  BY DEF Inductive, LocksExclude, Consistent
<1> QED BY <1>1, AlwaysInductive, PTL

\* In every reachable state of any number of repositories, a manifest on disk
\* has all of its chunks, except those the medium lost.
THEOREM Completeness == Spec => []SnapshotsComplete
<1>1. Inductive => SnapshotsComplete
  BY DEF Inductive, RepositoriesSound, Sound, SnapshotsComplete
<1> QED BY <1>1, AlwaysInductive, PTL

\* A committed snapshot survives every operation but a prune that gives it up,
\* and every interruption of one.
THEOREM Survival == Spec => []KeptSnapshotsSurvive
<1>1. Inductive => KeptSnapshotsSurvive
  BY DEF Inductive, RepositoriesSound, Sound, KeptSnapshotsSurvive
<1> QED BY <1>1, AlwaysInductive, PTL

\* No repair copies a damaged object.
THEOREM NoSpread == Spec => []DamageDoesNotSpread
<1>1. Inductive => DamageDoesNotSpread
  BY DEF Inductive, RepositoriesSound, Sound, DamageDoesNotSpread
<1> QED BY <1>1, AlwaysInductive, PTL

\* Only the last step of a conversion changes a format.
LEMMA FormatChanges ==
  ASSUME [Next]_vars, NEW r \in Repo, format'[r] # format[r]
  PROVE  \E c \in Client : SwitchFormat(c)
<1> USE DEF disk, registers, ghosts
<1>1. CASE UNCHANGED vars
  BY <1>1 DEF vars
<1>2. CASE \E q \in Repo : Environment(q)
  BY <1>2 DEF Environment, ClearStale, Damage
<1>3. CASE \E c \in Client : Begin(c) \/ Continue(c) \/ Crash(c)
  <2> PICK c \in Client : Begin(c) \/ Continue(c) \/ Crash(c)
    BY <1>3
  <2>1. ~Begin(c)
    BY DEF Begin, BeginCreate, BeginRead, BeginList, BeginPrune, BeginCompact, BeginRepair, Acquire
  <2>2. ~Create(c)
    BY DEF Create, ReuseChunk, StoreChunk, PublishManifest, Write
  <2>3. ~Read(c)
    BY DEF Read, ReadObject, EndRead
  <2>4. ~Prune(c)
    BY DEF Prune, Retain, UnlinkManifest, BeginSweep, UnlinkChunk, EndSweep, Unlink
  <2>5. Compact(c) => SwitchFormat(c)
    BY DEF Compact, Pack, ReplaceDatabase, Recompact, BeginClear,
                     ClearObject, EndClear, Unlink
  <2>6. ~Repair(c)
    BY DEF Repair, Pair, Select, Choose, CopyChunk, CopyManifest, CheckRepaired, EndRepair,
           Mend, Write
  <2>7. ~Leave(c) /\ ~Fail(c) /\ ~Crash(c)
    BY DEF Leave, ReleaseReplica, Commit, Unlock, Fail, Crash
  <2> QED BY <2>1, <2>2, <2>3, <2>4, <2>5, <2>6, <2>7 DEF Continue
<1> QED BY <1>1, <1>2, <1>3 DEF Next

\* No conversion changes what a reader finds, an interrupted one before it or
\* not.
THEOREM Conversion == Spec => ConversionPreserves
<1>1. ASSUME Inductive, [Next]_vars, NEW r \in Repo, format'[r] # format[r]
      PROVE  Disk(r)' = Disk(r)
  BY <1>1, FormatChanges, SwitchFormatOK
<1>2. Inductive /\ [Next]_vars =>
          [\A r \in Repo : format'[r] # format[r] => Disk(r)' = Disk(r)]_vars
  BY <1>1
<1> QED BY <1>2, AlwaysInductive, PTL DEF Spec, ConversionPreserves

\* The environment leaves alone what a client holds.
LEMMA EnvironmentSpares ==
  ASSUME Inductive, NEW r \in Repo, Environment(r), NEW d \in Client
  PROVE  Undisturbed(d)
<1> USE DEF registers, ghosts
<1>1. SameClient(d)
  BY DEF Environment, ClearStale, Damage, SameClient
<1>2. CASE ClearStale(r)
  BY <1>1, <1>2, LockValues DEF ClearStale, Undisturbed, SameRepo, Inductive, TypeOK
<1>3. ASSUME NEW o \in Object, NEW health \in {"absent", "bad"}, Damage(r, o, health)
      PROVE  Undisturbed(d)
  <2>1. lock[r] # d
    BY <1>3 DEF Damage
  <2>2. \A q \in Repo \ {r} : SameRepo(q)
    BY <1>3 DEF Damage, SameRepo, Inductive, TypeOK
  <2> QED BY <1>1, <2>1, <2>2 DEF Undisturbed
<1> QED BY <1>2, <1>3 DEF Environment

\* What a client has locked looks the same to it after a step of anybody else.
LEMMA UndisturbedViews ==
  ASSUME Inductive, NEW d \in Client, pc[d] # "idle", Undisturbed(d)
  PROVE  /\ View(d, at[d])' = View(d, at[d])
         /\ from[d] # Nil => View(d, from[d])' = View(d, from[d])
<1>1. /\ SameClient(d) /\ SameRepo(at[d])
      /\ from[d] # Nil => SameRepo(from[d])
  BY InOperation DEF Undisturbed
<1> QED BY <1>1 DEF SameClient, SameRepo, View

\* A reader that goes on reading has changed nothing itself.
LEMMA ReadersOwnStep ==
  ASSUME Inductive, NEW c \in Client, Begin(c) \/ Continue(c) \/ Crash(c),
         pc[c] = "reading", pc'[c] = "reading"
  PROVE  View(c, at[c])' = View(c, at[c])
<1> USE DEF Goto
<1>1. pc \in [Client -> Steps]
  BY DEF Inductive, TypeOK
<1>2. ~Begin(c)
  BY DEF Begin, BeginCreate, BeginRead, BeginList, BeginPrune, BeginCompact, BeginRepair, Acquire
<1>3. ~Create(c)
  BY DEF Create, ReuseChunk, StoreChunk, PublishManifest
<1>4. ~Prune(c)
  BY DEF Prune, Retain, UnlinkManifest, BeginSweep, UnlinkChunk, EndSweep
<1>5. ~Compact(c)
  BY DEF Compact, Pack, ReplaceDatabase, SwitchFormat, Recompact, ClearObject, EndClear
<1>6. ~Repair(c)
  BY DEF Repair, Pair, Select, Choose, CopyChunk, CopyManifest, CheckRepaired, EndRepair
<1>7. ~Leave(c) /\ ~Fail(c) /\ ~Crash(c) /\ ~EndRead(c)
  BY <1>1 DEF Leave, ReleaseReplica, Commit, Unlock, Fail, Crash, Forget, EndRead
<1>8. PICK o \in Object : ReadObject(c, o)
  BY <1>2, <1>3, <1>4, <1>5, <1>6, <1>7 DEF Continue, Read
<1> QED BY <1>8 DEF ReadObject, View, disk

\* A write of a repair changes the destination only.
LEMMA WriteSparesReplica ==
  ASSUME Inductive, NEW c \in Client, pc[c] # "idle", from[c] # Nil,
         NEW o \in Object, NEW health \in Health, Write(c, o, health), UNCHANGED <<at, from>>
  PROVE  View(c, from[c])' = View(c, from[c])
<1>1. from[c] \in Repo /\ from[c] # at[c]
  BY InOperation
<1> QED BY <1>1 DEF Write, View, Inductive, TypeOK, disk

\* A repair that still has its replica has not changed it.
LEMMA RepairsOwnStep ==
  ASSUME Inductive, NEW c \in Client, Begin(c) \/ Continue(c) \/ Crash(c),
         from[c] # Nil, from'[c] # Nil
  PROVE  View(c, from[c])' = View(c, from[c])
<1> USE DEF Goto, disk, registers, ghosts
<1>1. /\ pc[c] \in WithReplica \cup {"leaving", "unlocking"}
      /\ from[c] \in Repo /\ from[c] # at[c]
  BY InOperation DEF Inductive, Consistent, RegistersKnown, WithReplica
<1>2. /\ pc \in [Client -> Steps] /\ from \in [Client -> Repo \cup {Nil}]
      /\ packed \in [Repo -> Store] /\ loose \in [Repo -> Store]
      /\ format \in [Repo -> {"v1", "v2"}]
  BY DEF Inductive, TypeOK
<1>3. ~Begin(c) /\ ~Create(c) /\ ~Read(c) /\ ~Prune(c) /\ ~Compact(c)
  <2>1. ~Begin(c)
    BY <1>1 DEF Begin, BeginCreate, BeginRead, BeginList, BeginPrune, BeginCompact, BeginRepair,
                Acquire, WithReplica
  <2>2. ~Create(c) /\ ~Read(c)
    BY <1>1 DEF Create, ReuseChunk, StoreChunk, PublishManifest, Read, ReadObject, EndRead,
                WithReplica
  <2>3. ~Prune(c)
    BY <1>1 DEF Prune, Retain, UnlinkManifest, BeginSweep, UnlinkChunk, EndSweep, WithReplica
  <2>4. ~Compact(c)
    BY <1>1 DEF Compact, Pack, ReplaceDatabase, SwitchFormat, Recompact, ClearObject, EndClear,
                WithReplica
  <2> QED BY <2>1, <2>2, <2>3, <2>4
<1>4. CASE Repair(c)
  <2>1. ASSUME NEW r \in Repo PROVE ~Pair(c, r)
    BY <1>1 DEF Pair, WithReplica
  <2>2. ASSUME NEW S \in SUBSET Snap, Select(c, S) PROVE View(c, from[c])' = View(c, from[c])
    BY <2>2 DEF Select, View
  <2>3. ASSUME NEW s \in Snap, Choose(c, s) PROVE View(c, from[c])' = View(c, from[c])
    BY <2>3 DEF Choose, View
  <2>4. ASSUME NEW o \in Object, Mend(c, o), UNCHANGED <<at, from>>
        PROVE  View(c, from[c])' = View(c, from[c])
    <3>1. View(c, from[c])[o] \in Health /\ pc[c] # "idle"
      BY <1>1, InOperation DEF Store, WithReplica
    <3>2. CASE View(c, at[c])[o] = "good"
      BY <2>4, <3>2 DEF Mend, View
    <3>3. CASE View(c, at[c])[o] # "good"
      BY <2>4, <3>1, <3>3, WriteSparesReplica DEF Mend
    <3> QED BY <3>2, <3>3
  <2>5. ASSUME NEW h \in Chunk, CopyChunk(c, h) PROVE View(c, from[c])' = View(c, from[c])
    BY <2>4, <2>5 DEF CopyChunk, Object
  <2>6. ASSUME CopyManifest(c) PROVE View(c, from[c])' = View(c, from[c])
    <3>1. goal[c] \in Object
      BY <2>6 DEF CopyManifest, Inductive, Consistent, RegistersKnown, WithGoal, Object
    <3> QED BY <2>4, <2>6, <3>1 DEF CopyManifest
  <2>7. ASSUME CheckRepaired(c) \/ EndRepair(c) PROVE View(c, from[c])' = View(c, from[c])
    BY <2>7 DEF CheckRepaired, EndRepair, View
  <2> QED BY <1>4, <2>1, <2>2, <2>3, <2>5, <2>6, <2>7 DEF Repair
<1>5. ~Leave(c) /\ ~Crash(c)
  BY <1>2 DEF Leave, ReleaseReplica, Commit, Unlock, Crash, Forget
<1>6. CASE Fail(c)
  BY <1>1, <1>6 DEF Fail, View
<1> QED BY <1>3, <1>4, <1>5, <1>6 DEF Continue

\* Nothing that an operation still has to read changes under it.
LEMMA StableStep ==
  ASSUME Inductive, [Next]_vars, NEW c \in Client
  PROVE  /\ pc[c] = "reading" /\ pc'[c] = "reading"
                => View(c, at[c])' = View(c, at[c])
         /\ from[c] # Nil /\ from'[c] # Nil
                => View(c, from[c])' = View(c, from[c])
<1>1. from[c] # Nil => pc[c] # "idle"
  BY DEF Inductive, Consistent, RegistersKnown, WithReplica
<1>2. ASSUME Undisturbed(c)
      PROVE  /\ pc[c] = "reading" => View(c, at[c])' = View(c, at[c])
             /\ from[c] # Nil => View(c, from[c])' = View(c, from[c])
  BY <1>1, <1>2, UndisturbedViews
<1>3. CASE UNCHANGED vars
  BY <1>2, <1>3 DEF vars, Undisturbed, SameClient, SameRepo
<1>4. CASE \E r \in Repo : Environment(r)
  BY <1>2, <1>4, EnvironmentSpares DEF Environment
<1>5. ASSUME NEW d \in Client, Begin(d) \/ Continue(d) \/ Crash(d), d # c
      PROVE  Undisturbed(c)
  BY <1>5, ClientStep DEF StepOK
<1>6. CASE Begin(c) \/ Continue(c) \/ Crash(c)
  BY <1>6, ReadersOwnStep, RepairsOwnStep
<1> QED BY <1>2, <1>3, <1>4, <1>5, <1>6 DEF Next

\* What a verification, a restore or a listing has still to read does not change
\* under it, whatever other processes create, prune or compact meanwhile.
THEOREM Stability == Spec => StableWhileRead
<1>1. Inductive /\ [Next]_vars =>
          [\A c \in Client : pc[c] = "reading" /\ pc'[c] = "reading"
              => View(c, at[c])' = View(c, at[c])]_vars
  BY StableStep
<1> QED BY <1>1, AlwaysInductive, PTL DEF Spec, StableWhileRead

\* The replica a repair has locked does not change while it copies from it.
THEOREM DonorStable == Spec => ReplicaStable
<1>1. Inductive /\ [Next]_vars =>
          [\A c \in Client : from[c] # Nil /\ from'[c] # Nil
              => View(c, from[c])' = View(c, from[c])]_vars
  BY StableStep
<1> QED BY <1>1, AlwaysInductive, PTL DEF Spec, ReplicaStable

-----------------------------------------------------------------------------
(***************************************************************************)
(* What a prune leaves.                                                    *)
(***************************************************************************)

\* A prune that unlinks objects of a loose repository still has on its list
\* every chunk that no manifest it retains refers to.
OrphansListed(c) ==
    pc[c] \in {"unlinking", "sweeping"} =>
        /\ format[at[c]] = "v1"
        /\ Inventory(loose[at[c]])
               \subseteq Live(Addresses(loose[at[c]]) \ todo[c]) \cup todo[c]

LEMMA RetainLists ==
  ASSUME Inductive, NEW c \in Client, NEW keep \in SUBSET Snap,
         NEW keepLast \in 0..Cardinality(Snap), NEW apply \in BOOLEAN,
         Retain(c, keep, keepLast, apply)
  PROVE  OrphansListed(c)'
<1> DEFINE store == View(c, at[c])
           retained == keep \cup Newest(Addresses(store), keepLast)
<1>1. pc \in [Client -> Steps] /\ todo \in [Client -> SUBSET Object]
      /\ format \in [Repo -> {"v1", "v2"}]
  BY DEF Inductive, TypeOK
<1>2. UNCHANGED <<disk, at>> /\ pc[c] = "retaining" /\ keep \subseteq Addresses(store)
  BY DEF Retain
<1>3. at[c] \in Repo
  BY <1>2, InOperation
<1>4. CASE pc'[c] # "unlinking"
  <2>1. pc'[c] = "leaving"
    BY <1>1, <1>2, <1>4 DEF Retain, Goto
  <2> QED BY <2>1 DEF OrphansListed
<1>5. CASE pc'[c] = "unlinking"
  <2>1. /\ format[at[c]] = "v1"
        /\ todo'[c] = Obsolete(store, retained) \cup Unreachable(store, retained)
    BY <1>1, <1>2, <1>3, <1>5 DEF Retain, Goto
  <2>2. store = loose[at[c]]
    BY <2>1 DEF View
  <2> HIDE DEF store, retained
  <2>3. retained \subseteq Addresses(store)
    BY <1>2 DEF retained, Newest
  <2>4. retained \subseteq Addresses(store) \ todo'[c]
    BY <2>1, <2>3, ObjectsAreDistinct DEF Obsolete, Unreachable, Addresses, Inventory
  <2>5. Live(retained) \subseteq Live(Addresses(store) \ todo'[c])
    BY <2>4 DEF Live
  <2>6. Inventory(store) \subseteq Live(Addresses(store) \ todo'[c]) \cup todo'[c]
    BY <2>1, <2>5 DEF Unreachable
  <2> QED BY <1>2, <2>1, <2>2, <2>6 DEF OrphansListed, disk
<1> QED BY <1>4, <1>5

LEMMA UnlinkKeepsList ==
  ASSUME Inductive, NEW c \in Client, OrphansListed(c), pc[c] \in {"unlinking", "sweeping"},
         NEW o \in Object, o \in todo[c], Unlink(c, o)
  PROVE  OrphansListed(c)'
<1> DEFINE r == at[c]
           old == loose[r]
           new == [old EXCEPT ![o] = "absent"]
<1>1. r \in Repo /\ old \in Store
  BY InOperation DEF Inductive, TypeOK
<1>2. /\ UNCHANGED <<format, at>>
      /\ loose'[r] = new
      /\ todo'[c] = todo[c] \ {o}
  BY <1>1 DEF Unlink, Visited, Inductive, TypeOK
<1>3. format[r] = "v1" /\ Inventory(old) \subseteq Live(Addresses(old) \ todo[c]) \cup todo[c]
  BY DEF OrphansListed
<1> HIDE DEF r, old
<1>4. Addresses(new) \ todo'[c] = Addresses(old) \ todo[c]
  BY <1>1, <1>2 DEF Addresses, Store, Object
<1>5. Inventory(new) = Inventory(old) \ {o}
  BY <1>1 DEF Inventory, Store, Object
<1> HIDE DEF new
<1>6. Inventory(new) \subseteq Live(Addresses(new) \ todo'[c]) \cup todo'[c]
  BY <1>2, <1>3, <1>4, <1>5
<1>7. at'[c] = r
  BY <1>2 DEF r
<1> QED BY <1>2, <1>3, <1>6, <1>7 DEF OrphansListed

LEMMA PruneLists ==
  ASSUME Inductive, NEW c \in Client, OrphansListed(c), Prune(c)
  PROVE  OrphansListed(c)'
<1> USE DEF disk, registers, Goto
<1>1. pc \in [Client -> Steps]
  BY DEF Inductive, TypeOK
<1>2. ASSUME NEW s \in Snap, UnlinkManifest(c, s) PROVE OrphansListed(c)'
  BY <1>2, UnlinkKeepsList DEF UnlinkManifest, Object
<1>3. ASSUME NEW h \in Chunk, UnlinkChunk(c, h) PROVE OrphansListed(c)'
  BY <1>3, UnlinkKeepsList DEF UnlinkChunk, Object
<1>4. CASE BeginSweep(c)
  BY <1>1, <1>4 DEF BeginSweep, OrphansListed
<1>5. CASE EndSweep(c)
  BY <1>1, <1>5 DEF EndSweep, OrphansListed
<1> QED BY <1>2, <1>3, <1>4, <1>5, RetainLists DEF Prune

\* No other step of a client brings it to the unlinking of objects.
LEMMA OthersUnlinkNothing ==
  ASSUME Inductive, NEW c \in Client, Begin(c) \/ Continue(c) \/ Crash(c), ~Prune(c)
  PROVE  pc'[c] \notin {"unlinking", "sweeping"}
<1> USE DEF Goto
<1>0. pc \in [Client -> Steps]
  BY DEF Inductive, TypeOK
<1>1. CASE Begin(c)
  BY <1>0, <1>1 DEF Begin, BeginCreate, BeginRead, BeginList, BeginPrune, BeginCompact, BeginRepair
<1>2. CASE Create(c)
  BY <1>0, <1>2 DEF Create, ReuseChunk, StoreChunk, PublishManifest
<1>3. CASE Read(c)
  BY <1>0, <1>3 DEF Read, ReadObject, EndRead
<1>4. CASE Compact(c)
  BY <1>0, <1>4 DEF Compact, Pack, ReplaceDatabase, SwitchFormat, Recompact, BeginClear,
                     ClearObject, EndClear, Unlink
<1>5. CASE Repair(c)
  BY <1>0, <1>5 DEF Repair, Pair, Select, Choose, CopyChunk, CopyManifest, CheckRepaired, EndRepair
<1>6. CASE Leave(c) \/ Fail(c) \/ Crash(c)
  BY <1>0, <1>6 DEF Leave, ReleaseReplica, Commit, Unlock, Forget, Fail, Crash
<1> QED BY <1>1, <1>2, <1>3, <1>4, <1>5, <1>6 DEF Continue

LEMMA UndisturbedLists ==
  ASSUME Inductive, NEW d \in Client, OrphansListed(d), Undisturbed(d)
  PROVE  OrphansListed(d)'
<1>1. CASE pc[d] = "idle"
  BY <1>1 DEF Undisturbed, SameClient, OrphansListed
<1>2. CASE pc[d] # "idle"
  <2>1. SameClient(d) /\ SameRepo(at[d])
    BY <1>2, InOperation DEF Undisturbed
  <2> QED BY <2>1 DEF SameClient, SameRepo, OrphansListed
<1> QED BY <1>1, <1>2

LEMMA ListsStep ==
  ASSUME Inductive, \A d \in Client : OrphansListed(d), [Next]_vars, NEW c \in Client
  PROVE  OrphansListed(c)'
<1>1. CASE UNCHANGED vars
  BY <1>1 DEF vars, OrphansListed
<1>2. CASE \E r \in Repo : Environment(r)
  BY <1>2, EnvironmentSpares, UndisturbedLists
<1>3. ASSUME NEW d \in Client, Begin(d) \/ Continue(d) \/ Crash(d), d # c
      PROVE  OrphansListed(c)'
  BY <1>3, ClientStep, UndisturbedLists DEF StepOK
<1>4. CASE Begin(c) \/ Continue(c) \/ Crash(c)
  BY <1>4, PruneLists, OthersUnlinkNothing DEF OrphansListed
<1> QED BY <1>1, <1>2, <1>3, <1>4 DEF Next

\* Of all steps only the last of a sweep goes from "sweeping" to "leaving".
LEMMA SweepEnds ==
  ASSUME Inductive, [Next]_vars, NEW c \in Client, pc[c] = "sweeping", pc'[c] = "leaving"
  PROVE  todo[c] = {}
<1> USE DEF Goto
<1>1. pc \in [Client -> Steps]
  BY DEF Inductive, TypeOK
<1>2. ~UNCHANGED vars
  BY DEF vars
<1>3. ASSUME NEW r \in Repo, Environment(r) PROVE FALSE
  BY <1>3, EnvironmentSpares DEF Undisturbed, SameClient
<1>4. ASSUME NEW d \in Client, Begin(d) \/ Continue(d) \/ Crash(d) PROVE d = c
  BY <1>4, ClientStep DEF StepOK, Undisturbed, SameClient
<1>5. Begin(c) \/ Continue(c) \/ Crash(c)
  BY <1>2, <1>3, <1>4 DEF Next
<1>6. ~Begin(c) /\ ~Create(c) /\ ~Read(c)
  BY DEF Begin, BeginCreate, BeginRead, BeginList, BeginPrune, BeginCompact, BeginRepair, Acquire,
         Create, ReuseChunk, StoreChunk, PublishManifest, Read, ReadObject, EndRead
<1>7. ~Compact(c)
  BY DEF Compact, Pack, ReplaceDatabase, SwitchFormat, Recompact, ClearObject, EndClear
<1>8. ~Repair(c)
  BY DEF Repair, Pair, Select, Choose, CopyChunk, CopyManifest, CheckRepaired, EndRepair
<1>9. ~Leave(c) /\ ~Fail(c) /\ ~Crash(c)
  BY <1>1 DEF Leave, ReleaseReplica, Commit, Unlock, Forget, Fail, Crash
<1>10. Prune(c)
  BY <1>5, <1>6, <1>7, <1>8, <1>9 DEF Continue
<1> QED BY <1>1, <1>10 DEF Prune, Retain, UnlinkManifest, UnlinkChunk, Unlink, BeginSweep, EndSweep

\* A prune of a loose repository that reaches its end has removed every orphan,
\* those of interrupted runs before it included.
THEOREM NoOrphans == Spec => PruneLeavesNoOrphans
<1>1. Init => \A c \in Client : OrphansListed(c)
  BY DEF Init, OrphansListed
<1>2. Inductive /\ (\A c \in Client : OrphansListed(c)) /\ [Next]_vars
          => (\A c \in Client : OrphansListed(c))'
  BY ListsStep
<1>3. Inductive /\ (\A c \in Client : OrphansListed(c)) /\ [Next]_vars =>
          [\A c \in Client : pc[c] = "sweeping" /\ pc'[c] = "leaving"
               => Inventory(Disk(at[c])) \subseteq Live(Addresses(Disk(at[c])))]_vars
  <2> SUFFICES ASSUME Inductive, \A d \in Client : OrphansListed(d), [Next]_vars,
                      NEW c \in Client, pc[c] = "sweeping", pc'[c] = "leaving"
               PROVE  Inventory(Disk(at[c])) \subseteq Live(Addresses(Disk(at[c])))
    OBVIOUS
  <2>1. todo[c] = {}
    BY SweepEnds
  <2>2. Disk(at[c]) = loose[at[c]]
        /\ Inventory(loose[at[c]]) \subseteq Live(Addresses(loose[at[c]]) \ {}) \cup {}
    BY <2>1 DEF OrphansListed, Disk
  <2>3. Addresses(loose[at[c]]) \ {} = Addresses(loose[at[c]])
    OBVIOUS
  <2> QED BY <2>2, <2>3
<1> QED BY <1>1, <1>2, <1>3, AlwaysInductive, PTL DEF Spec, PruneLeavesNoOrphans

-----------------------------------------------------------------------------
(***************************************************************************)
(* The repositories implement SnapshotHistory: every step of an operation, *)
(* a kill and a loss on the medium is one step of the abstract histories   *)
(* or none.  Locks map to owners step by step; what has to be proved is    *)
(* that the steps that change what is on disk add to a history, or are a   *)
(* prune that leaves a snapshot behind.                                    *)
(***************************************************************************)

-----------------------------------------------------------------------------
(***************************************************************************)
(* What is known beyond Inductive.                                         *)
(***************************************************************************)

\* The snapshots that can be restored from a store.
Restorable(store) == {s \in Snap : Verified(store, s)}

DamagedNotGood == \A r \in Repo : \A o \in damaged[r] : Disk(r)[o] # "good"

\* A prune that unlinks manifests has found every snapshot in order, and
\* retains one if there are any.
PruneSpares(c) ==
    pc[c] = "unlinking" =>
        /\ Validated(loose[at[c]])
        /\ Addresses(loose[at[c]]) # {} => Addresses(loose[at[c]]) \ todo[c] # {}

\* The uncommitted rows restore what the committed ones do, or are those of a
\* prune, which are fewer but restore a snapshot.
RowsGrow(c) == Restorable(packed[at[c]]) \subseteq Restorable(txn[c])

RowsShrink(c) ==
    /\ \A o \in Object : txn[c][o] = "good" => packed[at[c]][o] = "good"
    /\ Restorable(packed[at[c]]) # {} => Restorable(txn[c]) # {}

RowsTrue(c) ==
    /\ pc[c] \notin {"idle", "unlocking"} /\ format[at[c]] = "v2" =>
           RowsGrow(c) \/ (pc[c] = "leaving" /\ RowsShrink(c))
    /\ pc[c] = "retaining" /\ format[at[c]] = "v2" => txn[c] = packed[at[c]]

Traced(c) == PruneSpares(c) /\ RowsTrue(c)

Traceable == DamagedNotGood /\ \A c \in Client : Traced(c)

\* What every step of client c has to establish.
TraceOK(c) ==
    /\ DamagedNotGood'
    /\ Traced(c)'
    /\ [History!Next]_(History!vars)

-----------------------------------------------------------------------------
(***************************************************************************)
(* Steps of the abstract histories, by what a step does to the disk.       *)
(***************************************************************************)

SameDisks == \A r \in Repo : Disk(r)' = Disk(r)

LEMMA SameDisksSameHistory ==
  ASSUME SameDisks, DamagedNotGood, damaged' = damaged
  PROVE  /\ DamagedNotGood'
         /\ [r \in Repo |-> {s \in Snap : Verified(Disk(r), s)}]'
              = [r \in Repo |-> {s \in Snap : Verified(Disk(r), s)}]
  BY DEF SameDisks, DamagedNotGood

LEMMA NoStep ==
  ASSUME SameDisks, DamagedNotGood, damaged' = damaged, lock' = lock
  PROVE  DamagedNotGood' /\ [History!Next]_(History!vars)
  BY SameDisksSameHistory DEF History!vars

\* One repository changes, and restores all it did.
LEMMA AddStep ==
  ASSUME Inductive, NEW r \in Repo, lock[r] \in Client, lock' = lock,
         NEW new \in Store, Disk(r)' = new, \A q \in Repo \ {r} : Disk(q)' = Disk(q),
         Restorable(Disk(r)) \subseteq Restorable(new),
         damaged' = [damaged EXCEPT ![r] = {o \in @ : new[o] # "good"}],
         DamagedNotGood
  PROVE  DamagedNotGood' /\ [History!Next]_(History!vars)
<1>1. DamagedNotGood'
  BY DEF DamagedNotGood, Inductive, TypeOK
<1> DEFINE restored == {o \in Object : new[o] = "good"}
           S == Restorable(new)
<1>2. History!Add(r, S, restored)
  <2>1. lock[r] \notin {Free, Stale}
    BY LockValues
  <2>2. damaged' = [damaged EXCEPT ![r] = @ \ restored]
    BY DEF Inductive, TypeOK
  <2>3. [q \in Repo |-> {s \in Snap : Verified(Disk(q), s)}]'
          = [[q \in Repo |-> {s \in Snap : Verified(Disk(q), s)}] EXCEPT ![r] = @ \cup S]
    <3>1. {s \in Snap : Verified(new, s)} = {s \in Snap : Verified(Disk(r), s)} \cup S
      BY DEF Restorable
    <3> QED BY <3>1
  <2> QED BY <2>1, <2>2, <2>3 DEF History!Add
<1>3. S \in SUBSET Snap /\ restored \in SUBSET Object
  BY DEF Restorable
<1> QED BY <1>1, <1>2, <1>3 DEF History!Next

\* One repository changes, restores nothing new, and something if it did before.
LEMMA DiscardStep ==
  ASSUME Inductive, NEW r \in Repo, lock[r] \in Client, lock' = lock,
         NEW new \in Store, Disk(r)' = new, \A q \in Repo \ {r} : Disk(q)' = Disk(q),
         \A o \in Object : new[o] = "good" => Disk(r)[o] = "good",
         Restorable(Disk(r)) # {} => Restorable(new) # {},
         damaged' = damaged, DamagedNotGood
  PROVE  DamagedNotGood' /\ [History!Next]_(History!vars)
<1>1. DamagedNotGood'
  BY DEF DamagedNotGood, Inductive, TypeOK
<1>2. Restorable(new) \subseteq Restorable(Disk(r))
  BY RefsType DEF Restorable, Verified, Object
<1> DEFINE S == Restorable(Disk(r)) \ Restorable(new)
<1>3. CASE Restorable(Disk(r)) = {}
  <2>1. [q \in Repo |-> {s \in Snap : Verified(Disk(q), s)}]'
          = [q \in Repo |-> {s \in Snap : Verified(Disk(q), s)}]
    BY <1>2, <1>3 DEF Restorable
  <2> QED BY <1>1, <2>1 DEF History!vars
<1>4. CASE Restorable(Disk(r)) # {}
  <2>1. lock[r] \notin {Free, Stale}
    BY LockValues
  <2>2. [q \in Repo |-> {s \in Snap : Verified(Disk(q), s)}]'
          = [[q \in Repo |-> {s \in Snap : Verified(Disk(q), s)}] EXCEPT ![r] = @ \ S]
    BY <1>2 DEF Restorable
  <2>3. [q \in Repo |-> {s \in Snap : Verified(Disk(q), s)}][r] \ S # {}
    BY <1>2, <1>4 DEF Restorable
  <2>4. History!Discard(r, S)
    BY <2>1, <2>2, <2>3 DEF History!Discard
  <2>5. S \in SUBSET Snap
    BY DEF Restorable
  <2> QED BY <1>1, <2>4, <2>5 DEF History!Next
<1> QED BY <1>3, <1>4

-----------------------------------------------------------------------------
(***************************************************************************)
(* The steps of the operations.                                            *)
(***************************************************************************)

\* What a client knows outlasts the steps of the others.
LEMMA UndisturbedTraced ==
  ASSUME Inductive, NEW d \in Client, Traced(d), Undisturbed(d)
  PROVE  Traced(d)'
<1>1. CASE pc[d] = "idle"
  BY <1>1 DEF Undisturbed, SameClient, Traced, PruneSpares, RowsTrue
<1>2. CASE pc[d] # "idle"
  <2>1. SameClient(d) /\ SameRepo(at[d])
    BY <1>2, InOperation DEF Undisturbed
  <2> QED BY <2>1 DEF SameClient, SameRepo, Traced, PruneSpares, RowsTrue, RowsGrow, RowsShrink
<1> QED BY <1>1, <1>2

\* Steps that change the registers of their client but not its rows.
LEMMA RegistersTraced ==
  ASSUME Inductive, Traceable, NEW c \in Client,
         UNCHANGED <<lock, format, loose, packed, at, txn, damaged>>,
         pc[c] \notin {"idle", "leaving", "unlocking"},
         pc'[c] \notin {"unlinking", "retaining"}
  PROVE  TraceOK(c)
<1>1. SameDisks
  BY DEF SameDisks, Disk
<1>2. Traced(c)'
  BY DEF Traceable, Traced, PruneSpares, RowsTrue, RowsGrow
<1> QED BY <1>1, <1>2, NoStep DEF TraceOK, Traceable

\* The beginning of any operation.
LEMMA AcquireTraced ==
  ASSUME Inductive, Traceable, NEW c \in Client, NEW r \in Repo, Acquire(c, r),
         pc'[c] # "unlinking"
  PROVE  TraceOK(c)
<1> USE DEF Acquire
<1>1. SameDisks
  BY DEF SameDisks, Disk
<1>2. Traced(c)'
  <2>1. at'[c] = r /\ (format[r] = "v2" => txn'[c] = packed[r])
    BY DEF Inductive, TypeOK
  <2> QED BY <2>1 DEF Traced, PruneSpares, RowsTrue, RowsGrow
<1>3. History!Take(c, r)
  BY <1>1, SameDisksSameHistory DEF History!Take, Traceable
<1> QED BY <1>1, <1>2, <1>3, SameDisksSameHistory DEF TraceOK, Traceable, History!Next

LEMMA PairTraced ==
  ASSUME Inductive, Traceable, NEW c \in Client, NEW r \in Repo, Pair(c, r)
  PROVE  TraceOK(c)
<1> USE DEF Pair, Goto, ghosts
<1>1. SameDisks
  BY DEF SameDisks, Disk
<1>2. pc'[c] = "comparing"
  BY DEF Inductive, TypeOK
<1>3. Traced(c)'
  BY <1>2 DEF Traceable, Traced, PruneSpares, RowsTrue, RowsGrow
<1>4. History!Take(c, r)
  BY <1>1, SameDisksSameHistory DEF History!Take, Traceable
<1> QED BY <1>1, <1>3, <1>4, SameDisksSameHistory DEF TraceOK, Traceable, History!Next

LEMMA ReleaseReplicaTraced ==
  ASSUME Inductive, Traceable, NEW c \in Client, ReleaseReplica(c)
  PROVE  TraceOK(c)
<1> USE DEF ReleaseReplica, ghosts
<1>1. SameDisks
  BY DEF SameDisks, Disk
<1>2. Traced(c)'
  BY DEF Traceable, Traced, PruneSpares, RowsTrue, RowsGrow, RowsShrink
<1>3. from[c] \in Repo /\ lock[from[c]] = c
  BY InOperation
<1>4. History!Return(c, from[c])
  BY <1>1, <1>3, SameDisksSameHistory DEF History!Return, Traceable
<1> QED BY <1>1, <1>2, <1>3, <1>4, SameDisksSameHistory DEF TraceOK, Traceable, History!Next

LEMMA UnlockTraced ==
  ASSUME Inductive, Traceable, NEW c \in Client, Unlock(c)
  PROVE  TraceOK(c)
<1> USE DEF Unlock, Forget, ghosts
<1>1. SameDisks
  BY DEF SameDisks, Disk
<1>2. pc'[c] = "idle"
  BY DEF Inductive, TypeOK
<1>3. Traced(c)'
  BY <1>2 DEF Traced, PruneSpares, RowsTrue
<1>4. at[c] \in Repo /\ lock[at[c]] = c
  BY InOperation
<1>5. History!Return(c, at[c])
  BY <1>1, <1>4, SameDisksSameHistory DEF History!Return, Traceable
<1> QED BY <1>1, <1>3, <1>4, <1>5, SameDisksSameHistory DEF TraceOK, Traceable, History!Next

LEMMA CrashTraced ==
  ASSUME Inductive, Traceable, NEW c \in Client, Crash(c)
  PROVE  TraceOK(c)
<1> USE DEF Crash, Forget, ghosts
<1>1. SameDisks
  BY DEF SameDisks, Disk
<1>2. pc'[c] = "idle"
  BY DEF Inductive, TypeOK
<1>3. Traced(c)'
  BY <1>2 DEF Traced, PruneSpares, RowsTrue
<1>4. at[c] \in Repo /\ lock[at[c]] = c
  BY InOperation
<1>5. History!Abandon(c)
  BY <1>1, <1>4, SameDisksSameHistory DEF History!Abandon, Traceable
<1> QED BY <1>1, <1>3, <1>5, SameDisksSameHistory DEF TraceOK, Traceable, History!Next

LEMMA FailTraced ==
  ASSUME Inductive, Traceable, NEW c \in Client, Fail(c)
  PROVE  TraceOK(c)
<1> USE DEF Fail, disk, ghosts
<1>1. SameDisks
  BY DEF SameDisks, Disk
<1>2. pc'[c] = "unlocking"
  BY DEF Inductive, TypeOK
<1>3. Traced(c)'
  BY <1>2 DEF Traced, PruneSpares, RowsTrue
<1> QED BY <1>1, <1>3, NoStep DEF TraceOK, Traceable

\* A good object in place of any other restores no less.
LEMMA WriteRestores ==
  ASSUME NEW store \in Store, NEW o \in Object
  PROVE  Restorable(store) \subseteq Restorable([store EXCEPT ![o] = "good"])
<1>1. \A p \in Object : store[p] = "good" => [store EXCEPT ![o] = "good"][p] = "good"
  BY DEF Store
<1>2. \A s \in Snap : s \in Object /\ \A h \in Refs[s] : h \in Object
  BY RefsType DEF Object
<1> QED BY <1>1, <1>2 DEF Restorable, Verified

LEMMA WriteTraced ==
  ASSUME Inductive, Traceable, NEW c \in Client, NEW o \in Object, Write(c, o, "good"),
         at' = at, pc[c] \in {"storing", "copying"}, pc'[c] \notin {"unlinking", "retaining"}
  PROVE  TraceOK(c)
<1>0. PICK r \in Repo : r = at[c]
  BY InOperation
<1> DEFINE old == View(c, r)
           new == [old EXCEPT ![o] = "good"]
<1>1. old \in Store /\ lock[r] = c
  BY <1>0, InOperation
<1>2. new \in Store /\ Restorable(old) \subseteq Restorable(new)
  BY <1>1, StoreExcept, WriteRestores DEF Health
<1>3. CASE format[r] = "v1"
  <2>1. /\ loose' = [loose EXCEPT ![r] = new]
        /\ damaged' = [damaged EXCEPT ![r] = {p \in @ : new[p] # "good"}]
        /\ UNCHANGED <<lock, format, packed, txn>>
    BY <1>0, <1>3 DEF Write, Observe
  <2>2. Disk(r) = old
    BY <1>3 DEF Disk, View
  <2> HIDE DEF new
  <2>3. Disk(r)' = new /\ \A q \in Repo \ {r} : Disk(q)' = Disk(q)
    BY <1>3, <2>1 DEF Disk, Inductive, TypeOK
  <2>4. DamagedNotGood' /\ [History!Next]_(History!vars)
    BY <1>1, <1>2, <2>1, <2>2, <2>3, AddStep DEF Traceable
  <2>5. Traced(c)'
    BY <1>0, <1>3, <2>1 DEF Traced, PruneSpares, RowsTrue
  <2> QED BY <2>4, <2>5 DEF TraceOK
<1>4. CASE format[r] # "v1"
  <2>1. /\ txn' = [txn EXCEPT ![c] = new]
        /\ UNCHANGED <<lock, format, loose, packed, damaged>>
    BY <1>0, <1>4 DEF Write, disk, ghosts
  <2>2. old = txn[c] /\ format[r] = "v2"
    BY <1>0, <1>4 DEF View, Inductive, TypeOK
  <2> HIDE DEF new, old
  <2>3. txn'[c] = new
    BY <2>1 DEF Inductive, TypeOK
  <2>4. Restorable(packed[r]) \subseteq Restorable(old)
    BY <1>0, <2>2 DEF Traceable, Traced, RowsTrue, RowsGrow
  <2>5. Traced(c)'
    BY <1>0, <1>2, <2>1, <2>3, <2>4 DEF Traced, PruneSpares, RowsTrue, RowsGrow
  <2>6. SameDisks
    BY <2>1 DEF SameDisks, Disk
  <2> QED BY <2>1, <2>5, <2>6, NoStep DEF TraceOK, Traceable
<1> QED BY <1>3, <1>4

LEMMA CreateTraced ==
  ASSUME Inductive, Traceable, NEW c \in Client, Create(c)
  PROVE  TraceOK(c)
<1> USE DEF disk, ghosts, Goto, Visited
<1>1. ASSUME NEW h \in Chunk, ReuseChunk(c, h) PROVE TraceOK(c)
  BY <1>1, RegistersTraced DEF ReuseChunk
<1>2. ASSUME NEW h \in Chunk, StoreChunk(c, h) PROVE TraceOK(c)
  BY <1>2, WriteTraced DEF StoreChunk, Object
<1>3. ASSUME PublishManifest(c) PROVE TraceOK(c)
  <2>1. goal[c] \in Object /\ pc[c] = "storing" /\ pc'[c] = "leaving" /\ at' = at
    BY <1>3 DEF PublishManifest, Inductive, TypeOK, Consistent, RegistersKnown, WithGoal, Object
  <2>2. CASE Write(c, goal[c], "good")
    BY <2>1, <2>2, WriteTraced
  <2>3. CASE UNCHANGED <<disk, txn, ghosts>>
    BY <2>1, <2>3, RegistersTraced
  <2> QED BY <1>3, <2>2, <2>3 DEF PublishManifest
<1> QED BY <1>1, <1>2, <1>3 DEF Create

LEMMA ReadTraced ==
  ASSUME Inductive, Traceable, NEW c \in Client, Read(c)
  PROVE  TraceOK(c)
<1> USE DEF disk, registers, ghosts, Goto, Visited
<1>1. ASSUME EndRead(c) PROVE TraceOK(c)
  <2>1. pc'[c] = "leaving"
    BY <1>1 DEF EndRead, Inductive, TypeOK
  <2> QED BY <1>1, <2>1, RegistersTraced DEF EndRead
<1>2. ASSUME NEW o \in Object, ReadObject(c, o) PROVE TraceOK(c)
  BY <1>2, RegistersTraced DEF ReadObject
<1> QED BY <1>1, <1>2 DEF Read

LEMMA MendTraced ==
  ASSUME Inductive, Traceable, NEW c \in Client, NEW o \in Object, Mend(c, o),
         at' = at, pc[c] = "copying", pc'[c] \notin {"unlinking", "retaining"},
         o \in Refs[goal[c]] \cup {goal[c]}
  PROVE  TraceOK(c)
<1>1. View(c, from[c])[o] = "good"
  BY DEF Inductive, Consistent, DonorVerified, Verified
<1>2. CASE View(c, at[c])[o] = "good"
  BY <1>2, RegistersTraced DEF Mend, disk, ghosts
<1>3. CASE View(c, at[c])[o] # "good"
  BY <1>1, <1>3, WriteTraced DEF Mend
<1> QED BY <1>2, <1>3

LEMMA RepairTraced ==
  ASSUME Inductive, Traceable, NEW c \in Client, Repair(c)
  PROVE  TraceOK(c)
<1> USE DEF disk, registers, ghosts, Goto, Visited
<1>0. pc \in [Client -> Steps]
  BY DEF Inductive, TypeOK
<1>1. ASSUME NEW r \in Repo, Pair(c, r) PROVE TraceOK(c)
  BY <1>1, PairTraced
<1>2. ASSUME NEW S \in SUBSET Snap, Select(c, S) PROVE TraceOK(c)
  BY <1>0, <1>2, RegistersTraced DEF Select
<1>3. ASSUME NEW s \in Snap, Choose(c, s) PROVE TraceOK(c)
  BY <1>0, <1>3, RegistersTraced DEF Choose
<1>4. ASSUME NEW h \in Chunk, CopyChunk(c, h) PROVE TraceOK(c)
  <2>1. h \in Object /\ h \in Refs[goal[c]]
    BY <1>4 DEF CopyChunk, Object, Inductive, Consistent, DonorVerified
  <2> QED BY <1>4, <2>1, MendTraced DEF CopyChunk
<1>5. ASSUME CopyManifest(c) PROVE TraceOK(c)
  <2>1. goal[c] \in Object
    BY <1>5 DEF CopyManifest, Inductive, Consistent, RegistersKnown, WithGoal, Object
  <2> QED BY <1>0, <1>5, <2>1, MendTraced DEF CopyManifest
<1>6. ASSUME CheckRepaired(c) PROVE TraceOK(c)
  BY <1>0, <1>6, RegistersTraced DEF CheckRepaired
<1>7. ASSUME EndRepair(c) PROVE TraceOK(c)
  BY <1>0, <1>7, RegistersTraced DEF EndRepair
<1> QED BY <1>1, <1>2, <1>3, <1>4, <1>5, <1>6, <1>7 DEF Repair

\* A prune retains a snapshot, unless there is none.
LEMMA RetainTraced ==
  ASSUME Inductive, Traceable, NEW c \in Client, NEW keep \in SUBSET Snap,
         NEW keepLast \in 0..Cardinality(Snap), NEW apply \in BOOLEAN,
         Retain(c, keep, keepLast, apply)
  PROVE  TraceOK(c)
<1>0. PICK r \in Repo : r = at[c]
  BY InOperation DEF Retain
<1> DEFINE store == View(c, r)
           retained == keep \cup Newest(Addresses(store), keepLast)
           removed == Obsolete(store, retained) \cup Unreachable(store, retained)
<1>1. /\ store \in Store /\ pc[c] = "retaining" /\ Validated(store)
      /\ UNCHANGED <<lock, format, loose, packed, at, damaged>>
      /\ Addresses(store) # {} => retained # {}
      /\ keep \subseteq Addresses(store)
  BY <1>0, InOperation DEF Retain, disk
<1>2. SameDisks
  BY <1>1 DEF SameDisks, Disk
<1>3. retained \subseteq Addresses(store)
  BY <1>1 DEF Newest
<1>4. /\ removed \in SUBSET Object
      /\ removed \cap Snap = Addresses(store) \ retained
      /\ removed \cap Chunk = Inventory(store) \ Live(retained)
  BY ObjectsAreDistinct DEF Obsolete, Unreachable, Addresses, Inventory, Object
<1> HIDE DEF removed, retained
<1>5. CASE ~apply
  <2>1. pc'[c] = "leaving" /\ txn' = txn
    BY <1>5 DEF Retain, Goto, Inductive, TypeOK
  <2> QED BY <1>1, <2>1, RegistersTraced
<1>6. CASE apply /\ format[r] = "v2"
  <2> DEFINE new == [o \in Object |-> IF o \in removed THEN "absent" ELSE store[o]]
  <2>1. txn' = [txn EXCEPT ![c] = new] /\ pc' = [pc EXCEPT ![c] = "leaving"]
    BY <1>0, <1>6 DEF Retain, Goto, removed, retained
  <2>2. \A o \in Object : new[o] = IF o \in removed THEN "absent" ELSE store[o]
    OBVIOUS
  <2> HIDE DEF new
  <2>3. txn'[c] = new /\ pc'[c] = "leaving"
    BY <2>1 DEF Inductive, TypeOK
  <2>4. store = packed[r]
    BY <1>0, <1>1, <1>6 DEF View, Traceable, Traced, RowsTrue
  <2>5. ASSUME NEW s \in retained PROVE Verified(new, s)
    <3>1. s \in Snap /\ s \in Object /\ Verified(store, s) /\ s \notin removed
      BY <1>1, <1>3, <1>4 DEF Validated, Addresses, Object
    <3>2. \A h \in Refs[s] : h \in Object /\ h \notin removed
      BY <1>4, <3>1, RefsType DEF Live, Object
    <3> QED BY <2>2, <3>1, <3>2 DEF Verified
  <2>6. Restorable(store) # {} => Restorable(new) # {}
    <3>1. Restorable(store) # {} => Addresses(store) # {}
      BY DEF Restorable, Verified, Addresses
    <3>2. retained \subseteq Snap
      BY <1>3 DEF Addresses
    <3> QED BY <1>1, <2>5, <3>1, <3>2 DEF Restorable
  <2>7. RowsShrink(c)'
    BY <1>0, <1>1, <2>2, <2>3, <2>4, <2>6 DEF RowsShrink
  <2>8. Traced(c)'
    BY <2>3, <2>7 DEF Traced, PruneSpares, RowsTrue
  <2> QED BY <1>1, <1>2, <2>8, NoStep DEF TraceOK, Traceable
<1>7. CASE apply /\ format[r] # "v2"
  <2>1. todo' = [todo EXCEPT ![c] = removed] /\ pc' = [pc EXCEPT ![c] = "unlinking"]
    BY <1>0, <1>7 DEF Retain, Goto, removed, retained
  <2>2. todo'[c] = removed /\ pc'[c] = "unlinking"
    BY <2>1 DEF Inductive, TypeOK
  <2>3. store = loose[r]
    BY <1>7 DEF View, Inductive, TypeOK
  <2>4. Addresses(store) # {} => Addresses(store) \ removed # {}
    BY <1>1, <1>3, <1>4 DEF Addresses
  <2>5. PruneSpares(c)'
    BY <1>0, <1>1, <2>2, <2>3, <2>4 DEF PruneSpares
  <2>6. Traced(c)'
    BY <1>0, <1>1, <1>7, <2>5 DEF Traced, RowsTrue
  <2> QED BY <1>1, <1>2, <2>6, NoStep DEF TraceOK, Traceable
<1> QED BY <1>5, <1>6, <1>7

\* Unlinking object o of a loose repository.
LEMMA UnlinkChanges ==
  ASSUME Inductive, NEW c \in Client, NEW o \in Object, Unlink(c, o), NEW r \in Repo, r = at[c],
         pc[c] # "idle", format[r] = "v1"
  PROVE  /\ Disk(r) = loose[r] /\ Disk(r)' = loose'[r]
         /\ loose[r] \in Store /\ loose'[r] \in Store
         /\ \A p \in Object : loose'[r][p] = IF p = o THEN "absent" ELSE loose[r][p]
         /\ \A q \in Repo \ {r} : Disk(q)' = Disk(q)
         /\ lock[r] \in Client /\ UNCHANGED <<lock, format, pc, at, damaged>>
         /\ todo'[c] = todo[c] \ {o}
<1> USE DEF Unlink, Visited, ghosts
<1>1. loose[r] \in Store /\ lock[r] = c
  BY InOperation DEF Inductive, TypeOK
<1> DEFINE new == [loose[r] EXCEPT ![o] = "absent"]
<1>2. /\ new \in Store
      /\ \A p \in Object : new[p] = IF p = o THEN "absent" ELSE loose[r][p]
  BY <1>1, StoreExcept DEF Health, Store
<1>3. loose' = [loose EXCEPT ![r] = new]
  OBVIOUS
<1> HIDE DEF new
<1>4. loose'[r] = new /\ \A q \in Repo \ {r} : loose'[q] = loose[q]
  BY <1>3 DEF Inductive, TypeOK
<1>5. /\ Disk(r) = loose[r] /\ Disk(r)' = loose'[r]
      /\ \A q \in Repo \ {r} : Disk(q)' = Disk(q)
  BY <1>4 DEF Disk
<1>6. todo'[c] = todo[c] \ {o}
  BY DEF Inductive, TypeOK
<1> QED BY <1>1, <1>2, <1>4, <1>5, <1>6

LEMMA UnlinkManifestTraced ==
  ASSUME Inductive, Traceable, NEW c \in Client, NEW s \in Snap, UnlinkManifest(c, s)
  PROVE  TraceOK(c)
<1>0. PICK r \in Repo : r = at[c]
  BY InOperation DEF UnlinkManifest
<1> DEFINE old == loose[r]
           new == loose'[r]
<1>1. /\ s \in Object /\ pc[c] = "unlinking" /\ s \in todo[c] /\ format[r] = "v1"
      /\ Unlink(c, s)
  BY <1>0 DEF UnlinkManifest, Object, Inductive, Consistent, RegistersKnown, Loose
<1>2. /\ Disk(r) = old /\ Disk(r)' = new
      /\ old \in Store /\ new \in Store
      /\ \A p \in Object : new[p] = IF p = s THEN "absent" ELSE old[p]
      /\ \A q \in Repo \ {r} : Disk(q)' = Disk(q)
      /\ lock[r] \in Client /\ UNCHANGED <<lock, format, pc, at, damaged>>
      /\ todo'[c] = todo[c] \ {s}
  BY <1>0, <1>1, UnlinkChanges
<1>3. /\ Validated(old)
      /\ Addresses(old) # {} => Addresses(old) \ todo[c] # {}
  BY <1>0, <1>1 DEF Traceable, Traced, PruneSpares
<1>4. \A t \in Snap : t \in Object /\ \A h \in Refs[t] : h \in Object /\ h # s
  BY RefsType, ObjectsAreDistinct DEF Object
<1> HIDE DEF old, new
<1>5. \A t \in Snap \ {s} : Verified(old, t) => Verified(new, t)
  BY <1>2, <1>4 DEF Verified
<1>6. Addresses(new) = Addresses(old) \ {s}
  BY <1>1, <1>2, <1>4 DEF Addresses
<1>7. PruneSpares(c)'
  <2>1. Validated(new)
    BY <1>3, <1>5, <1>6 DEF Validated, Addresses
  <2>2. Addresses(new) # {} => Addresses(new) \ todo'[c] # {}
    BY <1>1, <1>2, <1>3, <1>6
  <2> QED BY <1>0, <1>2, <2>1, <2>2 DEF PruneSpares, new
<1>8. Traced(c)'
  BY <1>0, <1>1, <1>2, <1>7 DEF Traced, RowsTrue
<1>9. Restorable(old) # {} => Restorable(new) # {}
  <2> SUFFICES ASSUME Restorable(old) # {} PROVE Restorable(new) # {}
    OBVIOUS
  <2>1. Addresses(old) # {}
    BY DEF Restorable, Verified, Addresses
  <2>2. PICK t \in Addresses(old) : t \notin todo[c]
    BY <1>3, <2>1
  <2>3. t \in Snap \ {s} /\ Verified(old, t)
    BY <1>1, <1>3, <2>2 DEF Validated, Addresses
  <2> QED BY <1>5, <2>3 DEF Restorable
<1>10. \A p \in Object : new[p] = "good" => Disk(r)[p] = "good"
  BY <1>2
<1>11. DamagedNotGood' /\ [History!Next]_(History!vars)
  BY <1>2, <1>9, <1>10, DiscardStep DEF Traceable
<1> QED BY <1>8, <1>11 DEF TraceOK

LEMMA UnlinkChunkTraced ==
  ASSUME Inductive, Traceable, NEW c \in Client, NEW h \in Chunk, UnlinkChunk(c, h)
  PROVE  TraceOK(c)
<1>0. PICK r \in Repo : r = at[c]
  BY InOperation DEF UnlinkChunk
<1> DEFINE old == loose[r]
           new == loose'[r]
<1>1. /\ h \in Object /\ h \notin Snap /\ pc[c] = "sweeping" /\ h \in todo[c]
      /\ format[r] = "v1" /\ Unlink(c, h)
  BY <1>0, ObjectsAreDistinct
     DEF UnlinkChunk, Object, Inductive, Consistent, RegistersKnown, Loose
<1>2. /\ Disk(r) = old /\ Disk(r)' = new
      /\ old \in Store /\ new \in Store
      /\ \A p \in Object : new[p] = IF p = h THEN "absent" ELSE old[p]
      /\ \A q \in Repo \ {r} : Disk(q)' = Disk(q)
      /\ lock[r] \in Client /\ UNCHANGED <<lock, format, pc, at, damaged>>
  BY <1>0, <1>1, UnlinkChanges
<1>3. \A s \in Addresses(old) : h \notin Refs[s]
  BY <1>0, <1>1 DEF Inductive, Consistent, RemovalsUnreferred
<1>4. \A t \in Snap : t \in Object /\ t # h /\ \A g \in Refs[t] : g \in Object
  BY <1>1, RefsType DEF Object
<1> HIDE DEF old, new
<1>5. \A t \in Snap : Verified(old, t) => Verified(new, t)
  BY <1>2, <1>3, <1>4 DEF Verified, Addresses
<1>6. Traced(c)'
  BY <1>0, <1>1, <1>2 DEF Traced, PruneSpares, RowsTrue
<1>7. Restorable(old) # {} => Restorable(new) # {}
  BY <1>5 DEF Restorable
<1>8. \A p \in Object : new[p] = "good" => Disk(r)[p] = "good"
  BY <1>2
<1>9. DamagedNotGood' /\ [History!Next]_(History!vars)
  BY <1>2, <1>7, <1>8, DiscardStep DEF Traceable
<1> QED BY <1>6, <1>9 DEF TraceOK

LEMMA PruneTraced ==
  ASSUME Inductive, Traceable, NEW c \in Client, Prune(c)
  PROVE  TraceOK(c)
<1> USE DEF disk, registers, ghosts, Goto
<1>1. ASSUME BeginSweep(c) \/ EndSweep(c) PROVE TraceOK(c)
  <2>1. pc'[c] \in {"sweeping", "leaving"}
    BY <1>1 DEF BeginSweep, EndSweep, Inductive, TypeOK
  <2> QED BY <1>1, <2>1, RegistersTraced DEF BeginSweep, EndSweep
<1> QED BY <1>1, RetainTraced, UnlinkManifestTraced, UnlinkChunkTraced DEF Prune

\* What compact does to the files changes nothing a reader finds.
LEMMA CompactTraced ==
  ASSUME Inductive, Traceable, NEW c \in Client, Compact(c)
  PROVE  TraceOK(c)
<1> USE DEF disk, registers, ghosts, Goto
<1>1. ASSUME Pack(c) PROVE TraceOK(c)
  <2>1. pc'[c] = "replacing" /\ format'[at'[c]] = "v1" /\ SameDisks
    BY <1>1 DEF Pack, SameDisks, Disk, Inductive, TypeOK
  <2>2. Traced(c)'
    BY <2>1 DEF Traced, PruneSpares, RowsTrue
  <2> QED BY <1>1, <2>1, <2>2, NoStep DEF Pack, TraceOK, Traceable
<1>2. ASSUME ReplaceDatabase(c) PROVE TraceOK(c)
  <2>1. pc'[c] = "switching" /\ format[at[c]] = "v1"
    BY <1>2 DEF ReplaceDatabase, Inductive, TypeOK, Consistent, RegistersKnown, Loose
  <2>2. SameDisks
    BY <1>2, <2>1 DEF ReplaceDatabase, SameDisks, Disk, Inductive, TypeOK
  <2>3. Traced(c)'
    BY <1>2, <2>1 DEF ReplaceDatabase, Traced, PruneSpares, RowsTrue
  <2> QED BY <1>2, <2>2, <2>3, NoStep DEF ReplaceDatabase, TraceOK, Traceable
<1>3. ASSUME SwitchFormat(c) PROVE TraceOK(c)
  <2>1. SameDisks
    BY <1>3, SwitchFormatOK DEF SameDisks
  <2>2. /\ pc'[c] = "clearing" /\ packed'[at'[c]] = txn'[c]
    BY <1>3 DEF SwitchFormat, BeginClear, Inductive, TypeOK, Consistent, ConversionExact
  <2>3. Traced(c)'
    BY <2>2 DEF Traced, PruneSpares, RowsTrue, RowsGrow
  <2> QED BY <1>3, <2>1, <2>3, NoStep DEF SwitchFormat, BeginClear, TraceOK, Traceable
<1>4. ASSUME Recompact(c) PROVE TraceOK(c)
  <2>1. pc'[c] = "clearing"
    BY <1>4 DEF Recompact, BeginClear, Inductive, TypeOK
  <2> QED BY <1>4, <2>1, RegistersTraced DEF Recompact, BeginClear
<1>5. ASSUME NEW o \in Object, ClearObject(c, o) PROVE TraceOK(c)
  <2>1. pc[c] = "clearing" /\ format[at[c]] = "v2" /\ Unlink(c, o)
    BY <1>5 DEF ClearObject, Inductive, Consistent, RegistersKnown
  <2>2. SameDisks
    BY <2>1 DEF Unlink, SameDisks, Disk, Inductive, TypeOK
  <2>3. Traced(c)'
    BY <2>1 DEF Unlink, Traceable, Traced, PruneSpares, RowsTrue, RowsGrow
  <2> QED BY <2>1, <2>2, <2>3, NoStep DEF Unlink, TraceOK, Traceable
<1>6. ASSUME EndClear(c) PROVE TraceOK(c)
  <2>1. pc'[c] = "leaving"
    BY <1>6 DEF EndClear, Inductive, TypeOK
  <2> QED BY <1>6, <2>1, RegistersTraced DEF EndClear
<1> QED BY <1>1, <1>2, <1>3, <1>4, <1>5, <1>6 DEF Compact

\* A commit adds to a history, or finishes a prune.
LEMMA CommitTraced ==
  ASSUME Inductive, Traceable, NEW c \in Client, Commit(c)
  PROVE  TraceOK(c)
<1> USE DEF Commit, registers
<1>0. PICK r \in Repo : r = at[c]
  BY InOperation
<1>1. lock[r] = c /\ txn[c] \in Store /\ pc'[c] = "unlocking" /\ lock' = lock
  BY <1>0, InOperation DEF Inductive, TypeOK
<1>2. Traced(c)'
  BY <1>1 DEF Traced, PruneSpares, RowsTrue
<1>3. CASE format[r] = "v2"
  <2> DEFINE new == txn[c]
  <2>1. /\ packed' = [packed EXCEPT ![r] = new]
        /\ damaged' = [damaged EXCEPT ![r] = {o \in @ : new[o] # "good"}]
    BY <1>0, <1>3 DEF Observe
  <2> HIDE DEF new
  <2>2. /\ Disk(r) = packed[r] /\ Disk(r)' = new
        /\ \A q \in Repo \ {r} : Disk(q)' = Disk(q)
    BY <1>3, <2>1 DEF Disk, Inductive, TypeOK
  <2>3. new \in Store /\ lock[r] \in Client
    BY <1>1 DEF new
  <2>4. CASE RowsGrow(c)
    <3>1. Restorable(Disk(r)) \subseteq Restorable(new)
      BY <1>0, <2>2, <2>4 DEF RowsGrow, new
    <3> QED BY <1>1, <1>2, <2>1, <2>2, <2>3, <3>1, AddStep DEF TraceOK, Traceable
  <2>5. CASE RowsShrink(c)
    <3>1. /\ \A o \in Object : new[o] = "good" => Disk(r)[o] = "good"
          /\ Restorable(Disk(r)) # {} => Restorable(new) # {}
      BY <1>0, <2>2, <2>5 DEF RowsShrink, new
    <3>2. damaged' = damaged
      BY <2>1, <3>1 DEF Traceable, DamagedNotGood, Inductive, TypeOK
    <3> QED BY <1>1, <1>2, <2>2, <2>3, <3>1, <3>2, DiscardStep DEF TraceOK, Traceable
  <2>6. RowsGrow(c) \/ RowsShrink(c)
    BY <1>0, <1>3 DEF Traceable, Traced, RowsTrue
  <2> QED BY <2>4, <2>5, <2>6
<1>4. CASE format[r] # "v2"
  <2>1. UNCHANGED <<packed, damaged>>
    BY <1>0, <1>4 DEF ghosts
  <2>2. SameDisks
    BY <2>1 DEF SameDisks, Disk
  <2> QED BY <1>1, <1>2, <2>1, <2>2, NoStep DEF TraceOK, Traceable
<1> QED BY <1>3, <1>4

-----------------------------------------------------------------------------
(***************************************************************************)
(* The environment.                                                        *)
(***************************************************************************)

LEMMA ClearStaleTraced ==
  ASSUME Inductive, Traceable, NEW r \in Repo, ClearStale(r)
  PROVE  DamagedNotGood' /\ [History!Next]_(History!vars)
<1>1. SameDisks /\ damaged' = damaged
  BY DEF ClearStale, SameDisks, Disk, ghosts
<1>2. History!Recover(r)
  BY <1>1, SameDisksSameHistory DEF ClearStale, History!Recover, Traceable
<1> QED BY <1>1, <1>2, SameDisksSameHistory DEF Traceable, History!Next

LEMMA DamageTraced ==
  ASSUME Inductive, Traceable, NEW r \in Repo, NEW o \in Object,
         NEW health \in {"absent", "bad"}, Damage(r, o, health)
  PROVE  DamagedNotGood' /\ [History!Next]_(History!vars)
<1> DEFINE old == Disk(r)
           new == [old EXCEPT ![o] = health]
<1>1. /\ old \in Store /\ old[o] = "good" /\ lock' = lock
      /\ lock[r] \in {Free, Stale}
      /\ damaged' = [damaged EXCEPT ![r] = @ \cup {o}]
  BY DEF Damage, Disk, Inductive, TypeOK
<1>2. \A p \in Object : new[p] = IF p = o THEN health ELSE old[p]
  BY <1>1 DEF Store
<1>3. Disk(r)' = new /\ \A q \in Repo \ {r} : Disk(q)' = Disk(q)
  BY DEF Damage, Disk, Inductive, TypeOK
<1> HIDE DEF new, old
<1>4. o \notin damaged[r]
  BY <1>1 DEF Traceable, DamagedNotGood, old
<1>5. DamagedNotGood'
  BY <1>1, <1>2, <1>3 DEF Traceable, DamagedNotGood, Inductive, TypeOK, old
<1> DEFINE S == Restorable(old) \ Restorable(new)
<1>6. Restorable(new) \subseteq Restorable(old)
  BY <1>2, RefsType DEF Restorable, Verified, Object
<1>7. [q \in Repo |-> {s \in Snap : Verified(Disk(q), s)}]'
        = [[q \in Repo |-> {s \in Snap : Verified(Disk(q), s)}] EXCEPT ![r] = @ \ S]
  BY <1>3, <1>6 DEF Restorable, old
<1>8. History!Lose(r, o, S)
  BY <1>1, <1>4, <1>7 DEF History!Lose
<1>9. S \in SUBSET Snap
  BY DEF Restorable
<1> QED BY <1>5, <1>8, <1>9 DEF History!Next

-----------------------------------------------------------------------------
(***************************************************************************)
(* The refinement.                                                         *)
(***************************************************************************)

LEMMA TraceableInit == Init => Traceable /\ History!Init
<1> SUFFICES ASSUME Init PROVE Traceable /\ History!Init
  OBVIOUS
<1>1. Traceable
  BY DEF Init, Traceable, DamagedNotGood, Traced, PruneSpares, RowsTrue
<1>2. \A r \in Repo : {s \in Snap : Verified(Disk(r), s)} = {}
  BY DEF Init, Disk, Empty, Verified, Object
<1> QED BY <1>1, <1>2 DEF Init, History!Init

\* Each step of an operation, one action at a time.
LEMMA ClientTraced ==
  ASSUME Inductive, Traceable, NEW c \in Client, Begin(c) \/ Continue(c) \/ Crash(c)
  PROVE  TraceOK(c)
<1>1. CASE Begin(c)
  <2>1. PICK r \in Repo : Acquire(c, r)
    BY <1>1 DEF Begin, BeginCreate, BeginRead, BeginList, BeginPrune, BeginCompact, BeginRepair
  <2>2. pc'[c] # "unlinking"
    BY <1>1 DEF Begin, BeginCreate, BeginRead, BeginList, BeginPrune, BeginCompact, BeginRepair,
                Goto, Inductive, TypeOK
  <2> QED BY <2>1, <2>2, AcquireTraced
<1>2. CASE Continue(c)
  BY <1>2, CreateTraced, ReadTraced, PruneTraced, CompactTraced, RepairTraced,
     ReleaseReplicaTraced, CommitTraced, UnlockTraced, FailTraced DEF Continue, Leave
<1>3. CASE Crash(c)
  BY <1>3, CrashTraced
<1> QED BY <1>1, <1>2, <1>3

LEMMA TraceableStep ==
  ASSUME Inductive, Traceable, [Next]_vars
  PROVE  Traceable' /\ [History!Next]_(History!vars)
<1>1. ASSUME NEW c \in Client, Begin(c) \/ Continue(c) \/ Crash(c)
      PROVE  Traceable' /\ [History!Next]_(History!vars)
  <2>1. StepOK(c) /\ TraceOK(c)
    BY <1>1, ClientStep, ClientTraced
  <2>2. ASSUME NEW d \in Client \ {c} PROVE Traced(d)'
    BY <2>1, UndisturbedTraced DEF StepOK, Traceable
  <2> QED BY <2>1, <2>2 DEF TraceOK, Traceable
<1>2. ASSUME NEW r \in Repo, Environment(r)
      PROVE  Traceable' /\ [History!Next]_(History!vars)
  <2>1. DamagedNotGood' /\ [History!Next]_(History!vars)
    BY <1>2, ClearStaleTraced, DamageTraced DEF Environment
  <2>2. ASSUME NEW d \in Client PROVE Traced(d)'
    BY <1>2, EnvironmentSpares, UndisturbedTraced DEF Traceable
  <2> QED BY <2>1, <2>2 DEF Traceable
<1>3. CASE UNCHANGED vars
  <2>1. SameDisks /\ damaged' = damaged /\ lock' = lock
    BY <1>3 DEF vars, SameDisks, Disk
  <2>2. ASSUME NEW d \in Client PROVE Traced(d)'
    <3>1. Undisturbed(d)
      BY <1>3 DEF vars, Undisturbed, SameClient, SameRepo
    <3> QED BY <3>1, UndisturbedTraced DEF Traceable
  <2> QED BY <2>1, <2>2, NoStep DEF Traceable
<1> QED BY <1>1, <1>2, <1>3 DEF Next

\* The repositories implement the abstract histories: only the owner of a
\* repository changes its history, adds to it or prunes a part of it, never all
\* of it, and a history shrinks otherwise by what the medium loses.
THEOREM Refinement == Spec => ImplementsHistory
<1>1. Init => Inductive /\ Traceable /\ History!Init
  BY InductiveInit, TraceableInit
<1>2. Inductive /\ Traceable /\ [Next]_vars
        => (Inductive /\ Traceable)' /\ [History!Next]_(History!vars)
  BY InductiveStep, TraceableStep
<1> QED BY <1>1, <1>2, PTL DEF Spec, ImplementsHistory, History!Spec

=============================================================================
