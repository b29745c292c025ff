---------------------------- MODULE MCMountCache ----------------------------
(***************************************************************************)
(* An instance of MountCache for TLC.  Four members: two that fit together *)
(* with nothing else, one that fills the cache, one that is corrupt and    *)
(* one too large; a is reached by two paths.                               *)
(***************************************************************************)
EXTENDS MountCache, TLC

CONSTANTS t1, t2, a, b, c, bad, huge

Sizes == a :> 1 @@ b :> 2 @@ c :> 3 @@ bad :> 1 @@ huge :> 4
Faults == [m \in Member |-> IF m = bad THEN "EIO" ELSE "none"]
Nodes == "/files/a" :> a @@ "/versions/0/a" :> a @@ "/files/b" :> b
         @@ "/files/c" :> c @@ "/files/bad" :> bad @@ "/files/huge" :> huge
         @@ "/files" :> Folder @@ "/nothing" :> Missing
Paths == DOMAIN Nodes
Symmetric == Permutations(Thread)

=============================================================================
