-------------------------- MODULE OfflineShellProofs --------------------------
(***************************************************************************)
(* A page that a service worker serves is of one build, and a complete     *)
(* shell in use stays complete, for any number of builds, workers, tabs    *)
(* and assets.                                                             *)
(*                                                                         *)
(* The difficulty is a rollback: while one build is in use and another     *)
(* waits, a third worker may install the first build again, and if it      *)
(* fails it deletes the cache by the name that both use.                   *)
(***************************************************************************)
EXTENDS OfflineShell, TLAPS

-----------------------------------------------------------------------------
(***************************************************************************)
(* The inductive invariant.                                                *)
(***************************************************************************)

\* The browser's registration has each worker in one place, and a new worker is
\* of another build than the newest there was.
Registered ==
    /\ \A w \in 1..started : version[w] \in Version
    /\ crossed \subseteq 1..started
    /\ active # Nothing => version[active] \notin doomed
    /\ installing # Nothing => installing \notin {waiting, active}
    /\ waiting # Nothing => waiting # active
    /\ installing # Nothing =>
        IF waiting # Nothing THEN version[installing] # version[waiting]
        ELSE active # Nothing => version[installing] # version[active]

\* A cache has one name at most, and is empty until it is created.
Stored ==
    /\ \A u, v \in Version : named[u] = named[v] /\ named[u] # Nothing => u = v
    /\ \A c \in Cache : c > created => holds[c] = {}

\* Nothing has taken the cache of w away.
Kept(w) == w # Nothing /\ w \notin crossed /\ ~evicted

\* An installation has put into its cache what it has looked at, and a worker
\* that has been installed has all.
Filled ==
    /\ installing # Nothing => Asset \ todo[installing] \subseteq holds[using[installing]]
    /\ Kept(installing) => named[version[installing]] = using[installing]
    /\ Kept(waiting) => Complete(version[waiting])
    /\ Kept(active) => Complete(version[active])

\* An installation of the build in use fills the cache in use, unless there is
\* none any more, or an empty one that nobody fills.
SameBuild ==
    installing # Nothing /\ active # Nothing /\ version[installing] = version[active] =>
        LET c == named[version[active]] IN
        \/ c \in {Nothing, using[installing]}
        \/ holds[c] = {} /\ \A w \in Worker : using[w] # c

\* Whoever is served is served by the active worker, with its build.
Matching ==
    \A t \in Tab : controller[t] # Nothing =>
        /\ controller[t] = active
        /\ \A a \in Asset : loaded[t][a] = version[active]

ShellInv ==
    /\ TypeOK
    /\ Registered
    /\ Stored
    /\ Filled
    /\ SameBuild
    /\ Matching

\* What WorkingCacheKept says of one step.
KeptInUse ==
    active # Nothing /\ Complete(version[active]) /\ evicted' = evicted
        => active' # active \/ Complete(version[active])'

-----------------------------------------------------------------------------
(***************************************************************************)
(* Caches.                                                                 *)
(***************************************************************************)

LEMMA Bounds == /\ MaxVersion \in Nat /\ MaxWorkers \in Nat /\ MaxCaches \in Nat
                /\ Version \subseteq Nat /\ 0 \notin Version
BY BoundsType DEF Version

\* The worker in each place is one that has been started, and has a build.
LEMMA Places ==
  ASSUME ShellInv, NEW w \in {installing, waiting, active}, w # Nothing
  PROVE  /\ w \in Worker /\ w \in 1..started /\ version[w] \in Version
         /\ w # started + 1 /\ started \in Nat
<1>1. w \in 0..started /\ started \in 0..MaxWorkers
  BY DEF ShellInv, TypeOK
<1>2. w \in 1..started /\ w \in 1..MaxWorkers /\ started \in Nat /\ w # started + 1
  BY <1>1, Bounds DEF Nothing
<1> QED BY <1>2 DEF ShellInv, Registered, Worker

\* A new cache is empty and takes a name that was free.
LEMMA OpeningKeeps ==
  ASSUME ShellInv, NEW v \in Version, OpenCache(v), holds' = holds
  PROVE  /\ created' \in 0..MaxCaches /\ created \in Nat /\ created' \in Nat /\ created <= created'
         /\ named' \in [Version -> 0..created'] /\ named'[v] # Nothing
         /\ Stored'
         /\ \A u \in Version : u # v => named'[u] = named[u]
         /\ \/ named[v] # Nothing /\ named'[v] = named[v]
            \/ named[v] = Nothing /\ named'[v] = created + 1 /\ holds[created + 1] = {}
         /\ \A u \in Version : Complete(u) => Complete(u)'
<1>1. /\ created \in 0..MaxCaches /\ created \in Nat /\ named \in [Version -> 0..created]
      /\ MaxCaches \in Nat /\ holds \in [Cache -> SUBSET Asset]
  BY Bounds DEF ShellInv, TypeOK
<1>2. CASE named[v] # Nothing
  <2>1. created' = created /\ named' = named
    BY <1>2 DEF OpenCache
  <2>2. Stored'
    BY <2>1 DEF ShellInv, Stored
  <2>3. \A u \in Version : Complete(u)' <=> Complete(u)
    BY <2>1 DEF Complete, Held
  <2> QED BY <1>1, <1>2, <2>1, <2>2, <2>3
<1>3. CASE named[v] = Nothing
  <2>1. /\ created < MaxCaches /\ created' = created + 1
        /\ named' = [named EXCEPT ![v] = created + 1]
    BY <1>3 DEF OpenCache
  <2>2. created + 1 \in Cache /\ created' \in 0..MaxCaches /\ created' \in Nat /\ created <= created'
    BY <1>1, <2>1 DEF Cache
  <2>3. holds[created + 1] = {}
    BY <1>1, <2>2 DEF ShellInv, Stored
  <2>4. named'[v] = created + 1 /\ \A u \in Version : u # v => named'[u] = named[u]
    BY <1>1, <2>1
  <2>5. named' \in [Version -> 0..created']
    BY <1>1, <2>1
  <2>6. \A u \in Version : named[u] \in 0..created
    BY <1>1
  <2>7. Stored'
    <3>1. ASSUME NEW u \in Version, NEW x \in Version, named'[u] = named'[x], named'[u] # Nothing
          PROVE  u = x
      <4>1. \A y \in Version : y # v => named'[y] # created + 1
        BY <1>1, <2>4, <2>6
      <4>2. CASE u = v \/ x = v
        BY <2>4, <3>1, <4>1, <4>2
      <4>3. CASE u # v /\ x # v
        BY <2>4, <3>1, <4>3 DEF ShellInv, Stored
      <4> QED BY <4>2, <4>3
    <3>2. \A c \in Cache : c > created' => holds'[c] = {}
      BY <1>1, <2>1 DEF ShellInv, Stored, Cache
    <3> QED BY <3>1, <3>2 DEF Stored
  <2>8. ASSUME NEW u \in Version, Complete(u) PROVE Complete(u)'
    <3>1. CASE u = v
      BY <1>3, <2>3, <2>4, <2>8, <3>1 DEF Complete, Held
    <3>2. CASE u # v
      BY <2>4, <2>8, <3>2 DEF Complete, Held
    <3> QED BY <3>1, <3>2
  <2>9. named'[v] # Nothing
    BY <1>1, <2>4 DEF Nothing
  <2> QED BY <1>1, <1>3, <2>1, <2>2, <2>3, <2>4, <2>5, <2>7, <2>8, <2>9
<1> QED BY <1>2, <1>3

\* Deleting caches leaves the others as they are.
LEMMA DroppingKeeps ==
  ASSUME ShellInv, NEW V \in SUBSET Version, DeleteCaches(V), created' = created, holds' = holds
  PROVE  /\ named' \in [Version -> 0..created'] /\ Stored'
         /\ \A u \in Version : named'[u] = IF u \in V THEN Nothing ELSE named[u]
         /\ \A u \in Version \ V : Complete(u)' <=> Complete(u)
<1>1. named' = [v \in Version |-> IF v \in V THEN Nothing ELSE named[v]]
  BY DEF DeleteCaches
<1>2. created \in Nat /\ named \in [Version -> 0..created]
  BY Bounds DEF ShellInv, TypeOK
<1>3. \A u \in Version : named'[u] = IF u \in V THEN Nothing ELSE named[u]
  BY <1>1
<1>4. named' \in [Version -> 0..created']
  <2>1. \A u \in Version : named[u] \in 0..created /\ 0 \in 0..created
    BY <1>2
  <2> QED BY <1>1, <2>1 DEF Nothing
<1>5. Stored'
  BY <1>3 DEF ShellInv, Stored
<1>6. \A u \in Version \ V : Complete(u)' <=> Complete(u)
  BY <1>3 DEF Complete, Held
<1> QED BY <1>3, <1>4, <1>5, <1>6

-----------------------------------------------------------------------------
(***************************************************************************)
(* Steps that leave the registration alone.                                *)
(***************************************************************************)

\* A step of the pages, or of the server.
LEMMA PageStep ==
  ASSUME ShellInv, UNCHANGED <<registration, storage, preparations, evicted, crossed>>,
         site' \in [Asset -> Version], script' \in Version,
         loaded' \in [Tab -> [Asset -> 0..MaxVersion]],
         controller' \in [Tab -> 0..started],
         Matching'
  PROVE  ShellInv' /\ KeptInUse
<1> USE DEF registration, storage, preparations
<1>1. TypeOK'
  BY DEF ShellInv, TypeOK
<1>2. Registered' /\ Stored'
  BY DEF ShellInv, Registered, Stored
<1>3. Filled' /\ SameBuild'
  BY DEF ShellInv, Filled, SameBuild, Kept, Complete, Held
<1>4. KeptInUse
  BY DEF KeptInUse, Complete, Held
<1> QED BY <1>1, <1>2, <1>3, <1>4 DEF ShellInv

LEMMA DeployKeeps ==
  ASSUME ShellInv, NEW v \in Version,
         DeployScript(v) \/ \E a \in Asset : DeployAsset(a, v)
  PROVE  ShellInv' /\ KeptInUse
<1>1. /\ UNCHANGED <<registration, storage, preparations, evicted, crossed>>
      /\ UNCHANGED tabs
      /\ site' \in [Asset -> Version] /\ script' \in Version
  BY DEF ShellInv, TypeOK, DeployScript, DeployAsset
<1>2. /\ loaded' \in [Tab -> [Asset -> 0..MaxVersion]] /\ controller' \in [Tab -> 0..started]
      /\ Matching'
  BY <1>1 DEF ShellInv, TypeOK, Matching, tabs, registration
<1> QED BY <1>1, <1>2, PageStep

LEMMA CloseTabKeeps ==
  ASSUME ShellInv, NEW t \in Tab, CloseTab(t)
  PROVE  ShellInv' /\ KeptInUse
<1>1. /\ UNCHANGED <<registration, storage, preparations, evicted, crossed>>
      /\ UNCHANGED server
      /\ loaded' = [loaded EXCEPT ![t] = Closed]
      /\ controller' = [controller EXCEPT ![t] = Nothing]
  BY DEF CloseTab
<1>2. site' \in [Asset -> Version] /\ script' \in Version
  BY <1>1 DEF ShellInv, TypeOK, server
<1>3. 0 \in 0..started /\ 0 \in 0..MaxVersion
  BY Bounds DEF ShellInv, TypeOK
<1>4. Closed \in [Asset -> 0..MaxVersion]
  BY <1>3 DEF Closed, Nothing
<1>5. loaded' \in [Tab -> [Asset -> 0..MaxVersion]] /\ controller' \in [Tab -> 0..started]
  BY <1>1, <1>3, <1>4 DEF ShellInv, TypeOK, Nothing
<1>6. Matching'
  <2> SUFFICES ASSUME NEW u \in Tab, controller'[u] # Nothing
               PROVE  controller'[u] = active /\ \A a \in Asset : loaded'[u][a] = version[active]
    BY <1>1 DEF Matching, registration
  <2>1. u # t
    BY <1>1 DEF ShellInv, TypeOK
  <2> QED BY <1>1, <2>1 DEF ShellInv, TypeOK, Matching
<1> QED BY <1>1, <1>2, <1>5, <1>6, PageStep

\* A page that no worker serves takes what the server has.
LEMMA OpenDirectlyKeeps ==
  ASSUME ShellInv, NEW t \in Tab, OpenDirectly(t)
  PROVE  ShellInv' /\ KeptInUse
<1>1. /\ UNCHANGED <<registration, storage, preparations, evicted, crossed>>
      /\ UNCHANGED <<server, controller>> /\ active = Nothing
      /\ loaded' = [loaded EXCEPT ![t] = site]
  BY DEF OpenDirectly
<1>2. /\ site' \in [Asset -> Version] /\ script' \in Version /\ site \in [Asset -> Version]
      /\ controller' \in [Tab -> 0..started] /\ loaded \in [Tab -> [Asset -> 0..MaxVersion]]
  BY <1>1 DEF ShellInv, TypeOK, server
<1>3. site \in [Asset -> 0..MaxVersion]
  <2>1. Version \subseteq 0..MaxVersion
    BY Bounds DEF Version
  <2> QED BY <1>2, <2>1
<1>4. loaded' \in [Tab -> [Asset -> 0..MaxVersion]]
  BY <1>1, <1>2, <1>3
<1>5. Matching'
  BY <1>1 DEF ShellInv, Matching, registration
<1> QED BY <1>1, <1>2, <1>4, <1>5, PageStep

LEMMA RefetchDirectlyKeeps ==
  ASSUME ShellInv, NEW t \in Tab, NEW a \in Asset, RefetchDirectly(t, a)
  PROVE  ShellInv' /\ KeptInUse
<1>1. /\ UNCHANGED <<registration, storage, preparations, evicted, crossed>>
      /\ UNCHANGED <<server, controller>> /\ controller[t] = Nothing
      /\ loaded' = [loaded EXCEPT ![t][a] = site[a]]
  BY DEF RefetchDirectly
<1>2. /\ site' \in [Asset -> Version] /\ script' \in Version /\ site[a] \in Version
      /\ controller' \in [Tab -> 0..started] /\ loaded \in [Tab -> [Asset -> 0..MaxVersion]]
  BY <1>1 DEF ShellInv, TypeOK, server
<1>3. site[a] \in 0..MaxVersion
  BY <1>2, Bounds DEF Version
<1>4. loaded' \in [Tab -> [Asset -> 0..MaxVersion]] /\ \A u \in Tab \ {t} : loaded'[u] = loaded[u]
  BY <1>1, <1>2, <1>3
<1>5. Matching'
  <2> SUFFICES ASSUME NEW u \in Tab, controller[u] # Nothing
               PROVE  controller[u] = active /\ \A b \in Asset : loaded'[u][b] = version[active]
    BY <1>1 DEF Matching, registration
  <2>1. u # t
    BY <1>1
  <2> QED BY <1>4, <2>1 DEF ShellInv, Matching
<1> QED BY <1>1, <1>2, <1>4, <1>5, PageStep

\* A step that only adds to the caches.
LEMMA CacheStep ==
  ASSUME ShellInv, UNCHANGED <<server, registration, evicted, crossed>>,
         created' \in 0..MaxCaches,
         named' \in [Version -> 0..created'],
         holds' \in [Cache -> SUBSET Asset],
         using' \in [Worker -> 0..created'],
         todo' \in [Worker -> SUBSET Asset],
         Stored',
         \A u \in Version : Complete(u) => Complete(u)',
         installing # Nothing =>
             /\ using'[installing] # Nothing
             /\ Asset \ todo'[installing] \subseteq holds'[using'[installing]]
             /\ named[version[installing]] = using[installing] =>
                    named'[version[installing]] = using'[installing],
         SameBuild',
         loaded' \in [Tab -> [Asset -> 0..MaxVersion]],
         controller' \in [Tab -> 0..started],
         Matching'
  PROVE  ShellInv' /\ KeptInUse
<1> USE DEF registration, server
<1>1. TypeOK'
  BY DEF ShellInv, TypeOK
<1>2. Registered'
  BY DEF ShellInv, Registered
<1>3. (waiting # Nothing => version[waiting] \in Version) /\ (active # Nothing => version[active] \in Version)
  BY Places
<1>4. Filled'
  <2>1. /\ Kept(installing)' <=> Kept(installing)
        /\ Kept(waiting)' <=> Kept(waiting)
        /\ Kept(active)' <=> Kept(active)
    BY DEF Kept
  <2>2. Kept(waiting) => Complete(version[waiting])'
    BY <1>3 DEF Kept, ShellInv, Filled, Complete, Held
  <2>3. Kept(active) => Complete(version[active])'
    BY <1>3 DEF Kept, ShellInv, Filled, Complete, Held
  <2>4. Kept(installing) => named'[version'[installing']] = using'[installing']
    BY DEF Kept, ShellInv, Filled
  <2> QED BY <2>1, <2>2, <2>3, <2>4 DEF Filled
<1>5. KeptInUse
  BY <1>3 DEF KeptInUse, Complete, Held
<1> QED BY <1>1, <1>2, <1>4, <1>5 DEF ShellInv

LEMMA PrepareAssetKeeps ==
  ASSUME ShellInv, NEW w \in Worker, NEW a \in Asset, PrepareAsset(w, a)
  PROVE  ShellInv' /\ KeptInUse
<1> DEFINE c == using[w]
<1>1. /\ UNCHANGED <<server, registration, evicted, crossed>>
      /\ UNCHANGED <<created, named, using, tabs>>
      /\ c # Nothing
      /\ holds' = [holds EXCEPT ![c] = @ \cup {a}]
      /\ todo' = [todo EXCEPT ![w] = @ \ {a}]
  BY DEF PrepareAsset
<1>2. /\ created \in 0..MaxCaches /\ named \in [Version -> 0..created]
      /\ holds \in [Cache -> SUBSET Asset] /\ using \in [Worker -> 0..created]
      /\ todo \in [Worker -> SUBSET Asset] /\ MaxCaches \in Nat
      /\ installing # Nothing => using[installing] # Nothing
      /\ loaded \in [Tab -> [Asset -> 0..MaxVersion]] /\ controller \in [Tab -> 0..started]
  BY Bounds DEF ShellInv, TypeOK
<1>3. c \in Cache /\ c <= created
  <2>1. c \in 0..created
    BY <1>2
  <2> QED BY <1>1, <1>2, <2>1 DEF Cache, Nothing
<1>4. /\ holds' \in [Cache -> SUBSET Asset] /\ todo' \in [Worker -> SUBSET Asset]
      /\ holds'[c] = holds[c] \cup {a} /\ \A d \in Cache \ {c} : holds'[d] = holds[d]
      /\ todo'[w] = todo[w] \ {a} /\ \A x \in Worker \ {w} : todo'[x] = todo[x]
  BY <1>1, <1>2, <1>3
<1> HIDE DEF c
<1>5. \A d \in Cache : holds[d] \subseteq holds'[d]
  BY <1>4
<1>6. Stored'
  <2>1. \A d \in Cache : d > created => d # c
    BY <1>2, <1>3 DEF Cache
  <2> QED BY <1>1, <1>4, <2>1 DEF ShellInv, Stored
<1>7. ASSUME NEW u \in Version, Complete(u) PROVE Complete(u)'
  <2>1. CASE named[u] = Nothing
    BY <1>1, <1>7, <2>1 DEF Complete, Held
  <2>2. CASE named[u] # Nothing
    <3>1. named[u] \in Cache
      <4>1. named[u] \in 0..created
        BY <1>2
      <4> QED BY <1>2, <2>2, <4>1 DEF Cache, Nothing
    <3>2. holds[named[u]] = Asset /\ holds'[named[u]] \subseteq Asset
      BY <1>4, <1>7, <2>2, <3>1 DEF Complete, Held
    <3> QED BY <1>1, <1>5, <2>2, <3>1, <3>2 DEF Complete, Held
  <2> QED BY <2>1, <2>2
<1>8. installing # Nothing => Asset \ todo'[installing] \subseteq holds'[using[installing]]
  <2> SUFFICES ASSUME installing # Nothing
               PROVE  Asset \ todo'[installing] \subseteq holds'[using[installing]]
    OBVIOUS
  <2>1. installing \in Worker /\ using[installing] \in Cache
    <3>1. installing \in Worker
      BY Places
    <3>2. using[installing] \in 0..created /\ using[installing] # 0
      BY <1>2, <3>1 DEF Nothing
    <3> QED BY <1>2, <3>1, <3>2 DEF Cache
  <2>2. Asset \ todo[installing] \subseteq holds[using[installing]]
    BY DEF ShellInv, Filled
  <2>3. CASE installing = w
    BY <1>4, <1>5, <2>1, <2>2, <2>3 DEF c
  <2>4. CASE installing # w
    BY <1>4, <1>5, <2>1, <2>2, <2>4
  <2> QED BY <2>3, <2>4
<1>9. SameBuild'
  <2> SUFFICES ASSUME installing # Nothing, active # Nothing, version[installing] = version[active]
               PROVE  \/ named[version[active]] \in {Nothing, using[installing]}
                      \/ /\ holds'[named[version[active]]] = {}
                         /\ \A x \in Worker : using[x] # named[version[active]]
    BY <1>1 DEF SameBuild, registration
  <2>1. CASE named[version[active]] \in {Nothing, using[installing]}
    BY <2>1
  <2>2. CASE /\ named[version[active]] # Nothing
             /\ holds[named[version[active]]] = {}
             /\ \A x \in Worker : using[x] # named[version[active]]
    <3>1. version[active] \in Version
      BY Places
    <3>2. named[version[active]] \in Cache
      <4>1. named[version[active]] \in 0..created
        BY <1>2, <3>1
      <4> QED BY <1>2, <2>2, <4>1 DEF Cache, Nothing
    <3> QED BY <1>4, <2>2, <3>2 DEF c
  <2> QED BY <2>1, <2>2 DEF ShellInv, SameBuild
<1>10. Matching'
  BY <1>1 DEF ShellInv, Matching, tabs, registration
<1>11. /\ created' \in 0..MaxCaches /\ named' \in [Version -> 0..created']
       /\ using' \in [Worker -> 0..created']
       /\ loaded' \in [Tab -> [Asset -> 0..MaxVersion]] /\ controller' \in [Tab -> 0..started]
  BY <1>1, <1>2 DEF tabs
<1>12. installing # Nothing =>
             /\ using'[installing] # Nothing
             /\ Asset \ todo'[installing] \subseteq holds'[using'[installing]]
             /\ named[version[installing]] = using[installing] =>
                    named'[version[installing]] = using'[installing]
  BY <1>1, <1>2, <1>8
<1> QED BY <1>1, <1>4, <1>6, <1>7, <1>9, <1>10, <1>11, <1>12, CacheStep

\* The active worker opens its cache to serve a page.
LEMMA ServingKeeps ==
  ASSUME ShellInv, UNCHANGED <<server, registration, holds, preparations, evicted, crossed>>,
         active # Nothing, OpenCache(version[active]),
         loaded' \in [Tab -> [Asset -> 0..MaxVersion]],
         controller' \in [Tab -> 0..started],
         Matching'
  PROVE  ShellInv' /\ KeptInUse
<1> DEFINE v == version[active]
<1>1. v \in Version
  BY Places
<1> HIDE DEF v
<1>2. /\ created' \in 0..MaxCaches /\ created \in Nat /\ created' \in Nat /\ created <= created'
      /\ named' \in [Version -> 0..created'] /\ named'[v] # Nothing
      /\ Stored'
      /\ \A u \in Version : u # v => named'[u] = named[u]
      /\ \/ named[v] # Nothing /\ named'[v] = named[v]
         \/ named[v] = Nothing /\ named'[v] = created + 1 /\ holds[created + 1] = {}
      /\ \A u \in Version : Complete(u) => Complete(u)'
  <2>1. OpenCache(v) /\ holds' = holds
    BY DEF v
  <2> QED BY <1>1, <2>1, OpeningKeeps
<1>3. /\ holds' = holds /\ using' = using /\ todo' = todo
      /\ holds \in [Cache -> SUBSET Asset] /\ using \in [Worker -> 0..created]
      /\ todo \in [Worker -> SUBSET Asset]
      /\ installing # Nothing => using[installing] # Nothing
  BY DEF ShellInv, TypeOK, preparations
<1>4. using' \in [Worker -> 0..created']
  BY <1>2, <1>3
<1>5. installing # Nothing => installing \in Worker /\ version[installing] \in Version
  BY Places
<1>6. installing # Nothing =>
             /\ using'[installing] # Nothing
             /\ Asset \ todo'[installing] \subseteq holds'[using'[installing]]
             /\ named[version[installing]] = using[installing] =>
                    named'[version[installing]] = using'[installing]
  <2>1. installing # Nothing => Asset \ todo[installing] \subseteq holds[using[installing]]
    BY DEF ShellInv, Filled
  <2> QED BY <1>2, <1>3, <1>5, <2>1
<1>7. SameBuild'
  <2> SUFFICES ASSUME installing # Nothing, version[installing] = v
               PROVE  \/ named'[v] \in {Nothing, using[installing]}
                      \/ holds[named'[v]] = {} /\ \A x \in Worker : using[x] # named'[v]
    BY <1>3 DEF SameBuild, registration, v
  <2>1. \/ named[v] \in {Nothing, using[installing]}
        \/ holds[named[v]] = {} /\ \A x \in Worker : using[x] # named[v]
    BY DEF ShellInv, SameBuild, v
  <2>2. CASE named[v] # Nothing
    BY <1>2, <2>1, <2>2
  <2>3. CASE named[v] = Nothing
    <3>1. \A x \in Worker : using[x] # created + 1
      <4>1. \A x \in Worker : using[x] \in 0..created
        BY <1>3
      <4> QED BY <1>2, <4>1
    <3> QED BY <1>2, <2>3, <3>1
  <2> QED BY <2>2, <2>3
<1>8. UNCHANGED <<server, registration, evicted, crossed>> /\ holds' \in [Cache -> SUBSET Asset]
      /\ todo' \in [Worker -> SUBSET Asset]
  BY <1>3
<1> QED BY <1>2, <1>4, <1>6, <1>7, <1>8, CacheStep

\* The fetch handler serves nothing but its own build.
LEMMA OpenServedKeeps ==
  ASSUME ShellInv, NEW t \in Tab, OpenServed(t)
  PROVE  ShellInv' /\ KeptInUse
<1>1. /\ UNCHANGED <<server, registration, holds, preparations, evicted, crossed>>
      /\ active # Nothing /\ OpenCache(version[active])
      /\ controller' = [controller EXCEPT ![t] = active]
  BY DEF OpenServed
<1>2. PICK parts \in [Asset -> Version] :
          /\ \A a \in Asset : parts[a] \in Served(a, version[active])
          /\ loaded' = [loaded EXCEPT ![t] = parts]
  BY DEF OpenServed
<1>3. \A a \in Asset : parts[a] = version[active]
  BY <1>2 DEF Served
<1>4. /\ loaded \in [Tab -> [Asset -> 0..MaxVersion]] /\ controller \in [Tab -> 0..started]
      /\ active \in 0..started
  BY DEF ShellInv, TypeOK
<1>5. parts \in [Asset -> 0..MaxVersion]
  <2>1. Version \subseteq 0..MaxVersion
    BY Bounds DEF Version
  <2> QED BY <2>1
<1>6. loaded' \in [Tab -> [Asset -> 0..MaxVersion]] /\ controller' \in [Tab -> 0..started]
  BY <1>1, <1>2, <1>4, <1>5
<1>7. Matching'
  <2> SUFFICES ASSUME NEW u \in Tab, controller'[u] # Nothing
               PROVE  controller'[u] = active /\ \A a \in Asset : loaded'[u][a] = version[active]
    BY <1>1 DEF Matching, registration
  <2>1. CASE u = t
    BY <1>1, <1>2, <1>3, <1>4, <2>1
  <2>2. CASE u # t
    BY <1>1, <1>2, <1>4, <2>2 DEF ShellInv, Matching
  <2> QED BY <2>1, <2>2
<1> QED BY <1>1, <1>6, <1>7, ServingKeeps

LEMMA RefetchServedKeeps ==
  ASSUME ShellInv, NEW t \in Tab, NEW a \in Asset, RefetchServed(t, a)
  PROVE  ShellInv' /\ KeptInUse
<1>1. /\ UNCHANGED <<server, registration, holds, preparations, evicted, crossed>>
      /\ controller[t] # Nothing /\ controller' = controller
      /\ OpenCache(version[controller[t]])
  BY DEF RefetchServed
<1>2. controller[t] = active /\ active # Nothing
  BY <1>1 DEF ShellInv, Matching
<1>3. PICK v \in Served(a, version[active]) : loaded' = [loaded EXCEPT ![t][a] = v]
  BY <1>2 DEF RefetchServed
<1>4. v = version[active] /\ v \in 0..MaxVersion
  <2>1. version[active] \in Version
    BY <1>2, Places
  <2> QED BY <1>3, <2>1, Bounds DEF Served, Version
<1>5. loaded \in [Tab -> [Asset -> 0..MaxVersion]] /\ controller \in [Tab -> 0..started]
  BY DEF ShellInv, TypeOK
<1>6. loaded' \in [Tab -> [Asset -> 0..MaxVersion]] /\ controller' \in [Tab -> 0..started]
  BY <1>1, <1>3, <1>4, <1>5
<1>7. Matching'
  <2> SUFFICES ASSUME NEW u \in Tab, controller[u] # Nothing, NEW b \in Asset
               PROVE  loaded'[u][b] = version[active] /\ controller[u] = active
    <3>1. \A u \in Tab : controller[u] # Nothing => controller[u] = active
      BY DEF ShellInv, Matching
    <3> QED BY <1>1, <3>1 DEF Matching, registration
  <2>1. loaded[u][b] = version[active] /\ controller[u] = active
    BY DEF ShellInv, Matching
  <2>2. CASE u = t /\ b = a
    BY <1>3, <1>4, <1>5, <2>1, <2>2
  <2>3. CASE ~(u = t /\ b = a)
    BY <1>3, <1>5, <2>1, <2>3
  <2> QED BY <2>2, <2>3
<1>8. OpenCache(version[active])
  BY <1>1, <1>2
<1> QED BY <1>1, <1>2, <1>6, <1>7, <1>8, ServingKeeps

\* A repair fills the cache of the worker it was asked of, which is of another
\* build than the one being installed if it waits.
LEMMA RepairKeeps ==
  ASSUME ShellInv, NEW w \in Worker, Repair(w)
  PROVE  ShellInv' /\ KeptInUse
<1>1. /\ UNCHANGED <<server, registration, tabs, evicted, crossed>>
      /\ w = (IF waiting # Nothing THEN waiting ELSE active) /\ w # Nothing
      /\ OpenCache(version[w]) /\ holds' = holds
      /\ using' = [using EXCEPT ![w] = named'[version[w]]]
      /\ todo' = [todo EXCEPT ![w] = Asset]
  BY DEF Repair, BeginPrepare
<1> DEFINE v == version[w]
<1>2. v \in Version
  BY <1>1, Places
<1>3. OpenCache(v)
  BY <1>1
<1> HIDE DEF v
<1>4. /\ created' \in 0..MaxCaches /\ created \in Nat /\ created' \in Nat /\ created <= created'
      /\ named' \in [Version -> 0..created'] /\ named'[v] # Nothing
      /\ Stored'
      /\ \A u \in Version : u # v => named'[u] = named[u]
      /\ \/ named[v] # Nothing /\ named'[v] = named[v]
         \/ named[v] = Nothing /\ named'[v] = created + 1 /\ holds[created + 1] = {}
      /\ \A u \in Version : Complete(u) => Complete(u)'
  BY <1>1, <1>2, <1>3, OpeningKeeps
<1>5. /\ holds \in [Cache -> SUBSET Asset] /\ using \in [Worker -> 0..created]
      /\ todo \in [Worker -> SUBSET Asset]
      /\ installing # Nothing => using[installing] # Nothing
      /\ named \in [Version -> 0..created]
  BY DEF ShellInv, TypeOK
<1>6. using' = [using EXCEPT ![w] = named'[v]]
  BY <1>1 DEF v
<1>7. using' \in [Worker -> 0..created'] /\ todo' \in [Worker -> SUBSET Asset]
  <2>1. named'[v] \in 0..created' /\ \A x \in Worker : using[x] \in 0..created'
    <3>1. \A x \in Worker : using[x] \in 0..created
      BY <1>5
    <3> QED BY <1>2, <1>4, <3>1
  <2> QED BY <1>1, <1>5, <1>6, <2>1
<1>8. installing # Nothing => /\ installing \in Worker /\ version[installing] \in Version
                              /\ installing # w /\ version[installing] # v
  <2>1. installing # Nothing => installing \in Worker /\ version[installing] \in Version
    BY Places
  <2> QED BY <1>1, <2>1 DEF ShellInv, Registered, v
<1>9. installing # Nothing =>
             /\ using'[installing] # Nothing
             /\ Asset \ todo'[installing] \subseteq holds'[using'[installing]]
             /\ named[version[installing]] = using[installing] =>
                    named'[version[installing]] = using'[installing]
  <2> SUFFICES ASSUME installing # Nothing
               PROVE  /\ using'[installing] # Nothing
                      /\ Asset \ todo'[installing] \subseteq holds'[using'[installing]]
                      /\ named[version[installing]] = using[installing] =>
                             named'[version[installing]] = using'[installing]
    OBVIOUS
  <2>1. Asset \ todo[installing] \subseteq holds[using[installing]]
    BY DEF ShellInv, Filled
  <2>2. using'[installing] = using[installing] /\ todo'[installing] = todo[installing]
    BY <1>1, <1>5, <1>6, <1>8
  <2> QED BY <1>1, <1>4, <1>5, <1>8, <2>1, <2>2
<1>10. SameBuild'
  <2> SUFFICES ASSUME installing # Nothing, active # Nothing,
                      version[installing] = version[active]
               PROVE  \/ named'[version[active]] \in {Nothing, using'[installing]}
                      \/ /\ holds[named'[version[active]]] = {}
                         /\ \A x \in Worker : using'[x] # named'[version[active]]
    BY <1>1 DEF SameBuild, registration
  <2> DEFINE u == version[active]
  <2>1. u \in Version /\ u # v
    BY <1>8
  <2> HIDE DEF u
  <2>2. named'[u] = named[u] /\ using'[installing] = using[installing]
    BY <1>4, <1>5, <1>6, <1>8, <2>1
  <2>3. named'[v] # named'[u]
    BY <1>2, <1>4, <2>1 DEF Stored
  <2>4. \/ named[u] \in {Nothing, using[installing]}
        \/ holds[named[u]] = {} /\ \A x \in Worker : using[x] # named[u]
    BY DEF ShellInv, SameBuild, u
  <2>5. \A x \in Worker : using'[x] = using[x] \/ using'[x] = named'[v]
    BY <1>5, <1>6
  <2> QED BY <2>2, <2>3, <2>4, <2>5 DEF u
<1>11. /\ loaded' \in [Tab -> [Asset -> 0..MaxVersion]] /\ controller' \in [Tab -> 0..started]
       /\ Matching'
  BY <1>1 DEF ShellInv, TypeOK, Matching, tabs, registration
<1>12. holds' \in [Cache -> SUBSET Asset] /\ UNCHANGED <<server, registration, evicted, crossed>>
  BY <1>1, <1>5
<1> QED BY <1>4, <1>7, <1>9, <1>10, <1>11, <1>12, CacheStep

LEMMA RepairEndsKeeps ==
  ASSUME ShellInv, NEW w \in Worker, RepairEnds(w)
  PROVE  ShellInv' /\ KeptInUse
<1>1. /\ UNCHANGED <<server, registration, storage, tabs, evicted, crossed>>
      /\ w \in {waiting, active} \ {Nothing}
      /\ using' = [using EXCEPT ![w] = Nothing]
      /\ todo' = [todo EXCEPT ![w] = {}]
  BY DEF RepairEnds, EndPrepare
<1>2. created' = created /\ named' = named /\ holds' = holds
  BY <1>1 DEF storage
<1>3. /\ created \in 0..MaxCaches /\ created \in Nat /\ named \in [Version -> 0..created]
      /\ holds \in [Cache -> SUBSET Asset] /\ using \in [Worker -> 0..created]
      /\ todo \in [Worker -> SUBSET Asset]
      /\ installing # Nothing => using[installing] # Nothing
  BY Bounds DEF ShellInv, TypeOK
<1>4. using' \in [Worker -> 0..created'] /\ todo' \in [Worker -> SUBSET Asset]
  <2>1. 0 \in 0..created
    BY <1>3
  <2> QED BY <1>1, <1>2, <1>3, <2>1 DEF Nothing
<1>5. Stored' /\ \A u \in Version : Complete(u) => Complete(u)'
  BY <1>2 DEF ShellInv, Stored, Complete, Held
<1>6. installing # Nothing => installing \in Worker /\ installing # w
  <2>1. installing # Nothing => installing \in Worker
    BY Places
  <2> QED BY <1>1, <2>1 DEF ShellInv, Registered
<1>7. installing # Nothing => using'[installing] = using[installing] /\ todo'[installing] = todo[installing]
  BY <1>1, <1>3, <1>6
<1>8. installing # Nothing =>
             /\ using'[installing] # Nothing
             /\ Asset \ todo'[installing] \subseteq holds'[using'[installing]]
             /\ named[version[installing]] = using[installing] =>
                    named'[version[installing]] = using'[installing]
  <2>1. installing # Nothing => Asset \ todo[installing] \subseteq holds[using[installing]]
    BY DEF ShellInv, Filled
  <2> QED BY <1>2, <1>3, <1>7, <2>1
<1>9. SameBuild'
  <2> SUFFICES ASSUME installing # Nothing, active # Nothing,
                      version[installing] = version[active]
               PROVE  \/ named[version[active]] \in {Nothing, using'[installing]}
                      \/ /\ holds[named[version[active]]] = {}
                         /\ \A x \in Worker : using'[x] # named[version[active]]
    BY <1>1, <1>2 DEF SameBuild, registration
  <2>1. \A x \in Worker : using'[x] = using[x] \/ using'[x] = Nothing
    BY <1>1, <1>3
  <2> QED BY <1>7, <2>1 DEF ShellInv, SameBuild
<1>10. /\ loaded' \in [Tab -> [Asset -> 0..MaxVersion]] /\ controller' \in [Tab -> 0..started]
       /\ Matching'
  BY <1>1 DEF ShellInv, TypeOK, Matching, tabs, registration
<1>11. UNCHANGED <<server, registration, evicted, crossed>> /\ created' \in 0..MaxCaches
       /\ named' \in [Version -> 0..created'] /\ holds' \in [Cache -> SUBSET Asset]
  BY <1>1, <1>2, <1>3
<1> QED BY <1>4, <1>5, <1>8, <1>9, <1>10, <1>11, CacheStep

\* When the browser has cleared the storage, nothing is promised any more.
LEMMA EvictKeeps ==
  ASSUME ShellInv, Evict
  PROVE  ShellInv' /\ KeptInUse
<1>1. /\ UNCHANGED <<server, registration, created, holds, preparations, tabs, crossed>>
      /\ ~evicted /\ evicted' = TRUE /\ DeleteCaches(Version)
  BY DEF Evict
<1>2. /\ named' \in [Version -> 0..created'] /\ Stored'
      /\ \A u \in Version : named'[u] = Nothing
  BY <1>1, DroppingKeeps
<1>3. TypeOK'
  BY <1>1, <1>2 DEF ShellInv, TypeOK, server, registration, preparations, tabs
<1>4. Registered' /\ Matching'
  BY <1>1 DEF ShellInv, Registered, Matching, registration, tabs
<1>5. Filled'
  BY <1>1 DEF ShellInv, Filled, Kept, registration, preparations
<1>6. SameBuild'
  <2>1. active # Nothing => version[active] \in Version
    BY Places
  <2> QED BY <1>1, <1>2, <2>1 DEF SameBuild, registration
<1>7. KeptInUse
  BY <1>1 DEF KeptInUse
<1> QED BY <1>2, <1>3, <1>4, <1>5, <1>6, <1>7 DEF ShellInv

-----------------------------------------------------------------------------
(***************************************************************************)
(* The life of a service worker.                                           *)
(***************************************************************************)

\* A new worker is of another build than the newest one, and opens the cache of
\* its build, which may be the one in use.
LEMMA UpdateKeeps ==
  ASSUME ShellInv, Update
  PROVE  ShellInv' /\ KeptInUse
<1> DEFINE n == started + 1
<1>1. /\ installing = Nothing /\ started < MaxWorkers
      /\ Newest # 0 => version[Newest] # script
      /\ started' = n /\ version' = [version EXCEPT ![n] = script]
      /\ installing' = n /\ OpenCache(script) /\ holds' = holds
      /\ using' = [using EXCEPT ![n] = named'[script]]
      /\ todo' = [todo EXCEPT ![n] = Asset]
      /\ UNCHANGED <<server, waiting, active, activation, doomed, tabs, evicted, crossed>>
  BY DEF Update, BeginPrepare
<1>2. /\ started \in 0..MaxWorkers /\ script \in Version /\ MaxWorkers \in Nat
      /\ version \in [Worker -> 0..MaxVersion] /\ {waiting, active} \subseteq 0..started
      /\ activation \in {"event", "deleting", "done"}
      /\ doomed \subseteq (IF activation = "deleting" THEN Version ELSE {})
      /\ (activation # "done" => active # Nothing)
      /\ using \in [Worker -> 0..created] /\ todo \in [Worker -> SUBSET Asset]
      /\ holds \in [Cache -> SUBSET Asset]
      /\ controller \in [Tab -> 0..started] /\ crossed \subseteq 1..started
  BY Bounds DEF ShellInv, TypeOK, Registered
<1>3. n \in Worker /\ n # 0 /\ n \notin 0..started /\ 0..started \subseteq 0..n
      /\ n \in 0..n /\ n \in 1..n /\ n \in 0..MaxWorkers
  BY <1>1, <1>2 DEF Worker
<1>4. \A w \in 0..started : w # n
  BY <1>3
<1> HIDE DEF n
<1>5. /\ created' \in 0..MaxCaches /\ created \in Nat /\ created' \in Nat /\ created <= created'
      /\ named' \in [Version -> 0..created'] /\ named'[script] # Nothing
      /\ Stored'
      /\ \A u \in Version : Complete(u) => Complete(u)'
  BY <1>1, <1>2, OpeningKeeps
<1>6. /\ version'[n] = script /\ using'[n] = named'[script] /\ todo'[n] = Asset
      /\ \A w \in 1..started : version'[w] = version[w]
  <2>1. 1..started \subseteq Worker
    BY <1>2 DEF Worker
  <2> QED BY <1>1, <1>2, <1>3, <1>4, <2>1
<1>7. \A w \in {waiting, active} : w # Nothing => w \in 1..started /\ version'[w] = version[w]
  <2>1. \A w \in {waiting, active} : w # Nothing => w \in 1..started
    BY Places
  <2> QED BY <1>6, <2>1
<1>8. TypeOK'
  <2>1. version' \in [Worker -> 0..MaxVersion]
    <3>1. script \in 0..MaxVersion
      BY <1>2, Bounds DEF Version
    <3> QED BY <1>1, <1>2, <3>1
  <2>2. using' \in [Worker -> 0..created']
    <3>1. named'[script] \in 0..created' /\ \A w \in Worker : using[w] \in 0..created'
      <4>1. \A w \in Worker : using[w] \in 0..created
        BY <1>2
      <4> QED BY <1>2, <1>5, <4>1
    <3> QED BY <1>1, <1>2, <3>1
  <2>3. todo' \in [Worker -> SUBSET Asset] /\ holds' \in [Cache -> SUBSET Asset]
    BY <1>1, <1>2
  <2>4. {installing', waiting', active'} \subseteq 0..started' /\ started' \in 0..MaxWorkers
    BY <1>1, <1>2, <1>3
  <2>5. controller' \in [Tab -> 0..started']
    BY <1>1, <1>2, <1>3 DEF tabs
  <2>6. crossed' \subseteq Worker
    BY <1>1 DEF ShellInv, TypeOK
  <2>7. using'[installing'] # Nothing
    BY <1>1, <1>5, <1>6
  <2> QED BY <1>1, <1>2, <1>5, <2>1, <2>2, <2>3, <2>4, <2>5, <2>6, <2>7
          DEF ShellInv, TypeOK, server, tabs
<1>9. Registered'
  <2>1. \A w \in 1..started' : version'[w] \in Version
    <3>1. \A w \in 1..started' : w = n \/ w \in 1..started
      BY <1>1, <1>2 DEF n
    <3> QED BY <1>2, <1>6, <3>1 DEF ShellInv, Registered
  <2>2. crossed' \subseteq 1..started'
    BY <1>1, <1>2 DEF n
  <2>3. installing' \notin {waiting', active'}
    BY <1>1, <1>2, <1>4
  <2>4. IF waiting # Nothing THEN version'[installing'] # version'[waiting]
        ELSE active # Nothing => version'[installing'] # version'[active]
    BY <1>1, <1>6, <1>7 DEF Newest, Nothing
  <2>5. active # Nothing => version'[active] \notin doomed
    BY <1>7 DEF ShellInv, Registered
  <2>6. waiting # Nothing => waiting # active
    BY DEF ShellInv, Registered
  <2> QED BY <1>1, <2>1, <2>2, <2>3, <2>4, <2>5, <2>6 DEF Registered
<1>10. Filled'
  <2>1. Asset \ todo'[installing'] \subseteq holds'[using'[installing']]
    BY <1>1, <1>6
  <2>2. named'[version'[installing']] = using'[installing']
    BY <1>1, <1>6
  <2>3. Kept(waiting)' => Complete(version[waiting])' /\ version'[waiting'] = version[waiting]
    <3>1. Kept(waiting)' => Kept(waiting)
      BY <1>1 DEF Kept
    <3>2. Kept(waiting) => Complete(version[waiting]) /\ version[waiting] \in Version
      BY Places DEF Kept, ShellInv, Filled
    <3> QED BY <1>1, <1>5, <1>7, <3>1, <3>2 DEF Kept, Complete, Held
  <2>4. Kept(active)' => Complete(version[active])' /\ version'[active'] = version[active]
    <3>1. Kept(active)' => Kept(active)
      BY <1>1 DEF Kept
    <3>2. Kept(active) => Complete(version[active]) /\ version[active] \in Version
      BY Places DEF Kept, ShellInv, Filled
    <3> QED BY <1>1, <1>5, <1>7, <3>1, <3>2 DEF Kept, Complete, Held
  <2> QED BY <2>1, <2>2, <2>3, <2>4 DEF Filled
<1>11. SameBuild'
  BY <1>1, <1>6 DEF SameBuild
<1>12. Matching'
  <2>1. active # Nothing => version'[active] = version[active]
    BY <1>7
  <2> QED BY <1>1, <2>1 DEF ShellInv, Matching, tabs
<1>13. KeptInUse
  <2>1. active # Nothing => version'[active] = version[active] /\ version[active] \in Version
    BY <1>7, Places
  <2> QED BY <1>1, <1>5, <2>1 DEF KeptInUse, Complete, Held
<1> QED BY <1>5, <1>8, <1>9, <1>10, <1>11, <1>12, <1>13 DEF ShellInv

\* Once the installation is over in any way, what is left of it is its cache.
LEMMA OverKeeps ==
  ASSUME ShellInv, installing # Nothing, installing' = Nothing, EndPrepare(installing),
         UNCHANGED <<server, started, version, active, activation, doomed, created, holds,
                     tabs, evicted, crossed>>,
         waiting' \in {waiting, installing},
         named' \in [Version -> 0..created'],
         Stored',
         \A u \in Version : Kept(waiting)' /\ u = version[waiting'] => Complete(u)',
         \A u \in Version : active # Nothing /\ u = version[active] /\ Complete(u) => Complete(u)'
  PROVE  ShellInv' /\ KeptInUse
<1>1. /\ using' = [using EXCEPT ![installing] = Nothing]
      /\ todo' = [todo EXCEPT ![installing] = {}]
  BY DEF EndPrepare
<1>2. TypeOK'
  <2>1. 0 \in 0..created /\ created' = created
    BY Bounds DEF ShellInv, TypeOK
  <2>2. using' \in [Worker -> 0..created'] /\ todo' \in [Worker -> SUBSET Asset]
    BY <1>1, <2>1 DEF ShellInv, TypeOK, Nothing
  <2>3. {installing', waiting', active'} \subseteq 0..started'
    BY Bounds DEF ShellInv, TypeOK, Nothing
  <2> QED BY <2>1, <2>2, <2>3 DEF ShellInv, TypeOK, server, tabs
<1>3. Registered'
  BY DEF ShellInv, Registered
<1>4. Filled'
  <2>1. Kept(waiting)' => Complete(version[waiting])'
    <3> SUFFICES ASSUME Kept(waiting)' PROVE Complete(version[waiting])'
      OBVIOUS
    <3>1. PICK u \in Version : u = version[waiting']
      BY Places DEF Kept
    <3>2. Complete(u)' /\ version'[waiting'] = u
      BY <3>1
    <3> QED BY <3>2 DEF Complete, Held
  <2>2. Kept(active)' => Complete(version[active])'
    <3> SUFFICES ASSUME Kept(active)' PROVE Complete(version[active])'
      OBVIOUS
    <3>1. Kept(active) /\ Complete(version[active]) /\ active # Nothing
      BY DEF Kept, ShellInv, Filled
    <3>2. PICK u \in Version : u = version[active]
      BY <3>1, Places
    <3>3. Complete(u)' /\ version'[active'] = u
      BY <3>1, <3>2
    <3> QED BY <3>3 DEF Complete, Held
  <2>3. ~Kept(installing)' /\ installing' = Nothing
    BY DEF Kept
  <2> QED BY <2>1, <2>2, <2>3 DEF Filled
<1>5. SameBuild'
  BY DEF SameBuild
<1>6. Matching'
  BY DEF ShellInv, Matching, tabs
<1>7. KeptInUse
  <2> SUFFICES ASSUME active # Nothing, Complete(version[active])
               PROVE  Complete(version[active])'
    BY DEF KeptInUse
  <2>1. PICK u \in Version : u = version[active]
    BY Places
  <2>2. Complete(u)' /\ version'[active'] = u
    BY <2>1
  <2> QED BY <2>2 DEF Complete, Held
<1> QED BY <1>2, <1>3, <1>4, <1>5, <1>6, <1>7 DEF ShellInv

\* An installation that fails deletes the cache of its build.  If that build is
\* in use, its cache is not complete: either it is the one that the installation
\* could not fill, or an empty one.
LEMMA InstallFailsKeeps ==
  ASSUME ShellInv, InstallFails
  PROVE  ShellInv' /\ KeptInUse
<1> DEFINE v == version[installing]
<1>1. /\ installing # Nothing /\ installing' = Nothing /\ EndPrepare(installing)
      /\ UNCHANGED <<server, started, version, waiting, active, activation, doomed,
                     created, holds, tabs, evicted, crossed>>
      /\ Fails(installing) /\ DeleteCaches({v})
  BY DEF InstallFails
<1>2. v \in Version
  BY <1>1, Places
<1> HIDE DEF v
<1>3. /\ named' \in [Version -> 0..created'] /\ Stored'
      /\ \A u \in Version \ {v} : Complete(u)' <=> Complete(u)
  BY <1>1, <1>2, DroppingKeeps
<1>4. PICK a \in Asset : a \notin holds[using[installing]]
  <2>1. installing \in Worker
    BY <1>1, Places
  <2> QED BY <1>1, <2>1 DEF Fails, ShellInv, TypeOK
<1>5. \A u \in Version \ {v} : Complete(u) => Complete(u)'
  BY <1>3
<1>6. \A u \in Version : Kept(waiting)' /\ u = version[waiting'] => Complete(u)'
  <2>1. Kept(waiting)' => /\ Kept(waiting) /\ version[waiting] # v
    BY <1>1 DEF Kept, ShellInv, Registered, v
  <2>2. Kept(waiting) => Complete(version[waiting])
    BY DEF ShellInv, Filled
  <2>3. waiting' = waiting
    BY <1>1
  <2> QED BY <1>5, <2>1, <2>2, <2>3
<1>7. \A u \in Version : active # Nothing /\ u = version[active] /\ Complete(u) => Complete(u)'
  <2> SUFFICES ASSUME NEW u \in Version, active # Nothing, u = version[active], Complete(u)
               PROVE  u # v
    BY <1>5
  <2> SUFFICES ASSUME u = v PROVE FALSE
    OBVIOUS
  <2>1. \/ named[u] \in {Nothing, using[installing]}
        \/ holds[named[u]] = {}
    BY <1>1 DEF ShellInv, SameBuild, v
  <2>2. Held(u) = Asset
    BY DEF Complete
  <2> QED BY <1>4, <2>1, <2>2 DEF Held
<1> QED BY <1>1, <1>3, <1>6, <1>7, OverKeeps

LEMMA InstallKilledKeeps ==
  ASSUME ShellInv, InstallKilled
  PROVE  ShellInv' /\ KeptInUse
<1>1. /\ installing # Nothing /\ installing' = Nothing /\ EndPrepare(installing)
      /\ UNCHANGED <<server, started, version, waiting, active, activation, doomed,
                     created, holds, tabs, evicted, crossed>>
      /\ named' = named
  BY DEF InstallKilled, storage
<1>2. named' \in [Version -> 0..created'] /\ Stored'
  BY <1>1 DEF ShellInv, TypeOK, Stored
<1>3. \A u \in Version : Complete(u)' <=> Complete(u)
  BY <1>1 DEF Complete, Held
<1>4. \A u \in Version : Kept(waiting)' /\ u = version[waiting'] => Complete(u)'
  <2>1. waiting' = waiting /\ (Kept(waiting)' => Kept(waiting))
    BY <1>1 DEF Kept
  <2> QED BY <1>3, <2>1 DEF ShellInv, Filled
<1> QED BY <1>1, <1>2, <1>3, <1>4, OverKeeps

\* What has looked at every asset has them all.
LEMMA InstallEndsKeeps ==
  ASSUME ShellInv, InstallEnds
  PROVE  ShellInv' /\ KeptInUse
<1>1. /\ installing # Nothing /\ installing' = Nothing /\ EndPrepare(installing)
      /\ UNCHANGED <<server, started, version, active, activation, doomed,
                     created, holds, tabs, evicted, crossed>>
      /\ named' = named /\ waiting' = installing /\ todo[installing] = {}
  BY DEF InstallEnds, storage
<1>2. named' \in [Version -> 0..created'] /\ Stored'
  BY <1>1 DEF ShellInv, TypeOK, Stored
<1>3. \A u \in Version : Complete(u)' <=> Complete(u)
  BY <1>1 DEF Complete, Held
<1>4. Kept(installing) => Complete(version[installing])
  <2> SUFFICES ASSUME Kept(installing) PROVE Complete(version[installing])
    OBVIOUS
  <2>1. Asset \subseteq holds[using[installing]] /\ named[version[installing]] = using[installing]
    BY <1>1 DEF ShellInv, Filled
  <2>2. installing \in Worker
    BY <1>1, Places
  <2>3. using[installing] \in Cache /\ using[installing] # Nothing
    <3>1. using[installing] \in 0..created /\ using[installing] # 0 /\ created \in 0..MaxCaches
      BY <1>1, <2>2 DEF ShellInv, TypeOK, Nothing
    <3> QED BY <3>1, Bounds DEF Cache, Nothing
  <2>4. holds[using[installing]] = Asset
    BY <2>1, <2>3 DEF ShellInv, TypeOK
  <2> QED BY <2>1, <2>3, <2>4 DEF Complete, Held
<1>5. \A u \in Version : Kept(waiting)' /\ u = version[waiting'] => Complete(u)'
  <2>1. waiting' = installing /\ (Kept(waiting)' => Kept(installing))
    BY <1>1 DEF Kept
  <2> QED BY <1>3, <1>4, <2>1
<1> QED BY <1>1, <1>2, <1>3, <1>5, OverKeeps

\* Nobody is served by the worker that is replaced.
LEMMA ActivateKeeps ==
  ASSUME ShellInv, Activate
  PROVE  ShellInv' /\ KeptInUse
<1>1. /\ waiting # Nothing /\ active' = waiting /\ waiting' = Nothing /\ activation' = "event"
      /\ activation = "done"
      /\ active # Nothing => \A t \in Tab : controller[t] # active
      /\ UNCHANGED <<server, started, version, installing, doomed, storage,
                     preparations, tabs, evicted, crossed>>
  BY DEF Activate, TakeOver
<1> USE DEF storage, preparations, tabs, server
<1>2. doomed = {}
  BY <1>1 DEF ShellInv, TypeOK
<1>3. TypeOK'
  <2>1. {installing', waiting', active'} \subseteq 0..started'
    BY <1>1, Bounds DEF ShellInv, TypeOK, Nothing
  <2> QED BY <1>1, <1>2, <2>1 DEF ShellInv, TypeOK
<1>4. Registered'
  BY <1>1, <1>2 DEF ShellInv, Registered
<1>5. Stored'
  BY <1>1 DEF ShellInv, Stored
<1>6. Filled'
  <2>1. ~Kept(waiting)' /\ (Kept(installing)' <=> Kept(installing)) /\ (Kept(active)' <=> Kept(waiting))
    BY <1>1 DEF Kept
  <2>2. Kept(active)' => Complete(version[active])'
    BY <1>1, <2>1 DEF ShellInv, Filled, Complete, Held
  <2> QED BY <1>1, <2>1, <2>2 DEF ShellInv, Filled
<1>7. SameBuild'
  BY <1>1 DEF SameBuild, ShellInv, Registered
<1>8. \A t \in Tab : controller'[t] = Nothing
  BY <1>1 DEF ShellInv, Matching
<1>9. Matching'
  BY <1>8 DEF Matching
<1>10. KeptInUse
  BY <1>1 DEF KeptInUse, ShellInv, Registered
<1> QED BY <1>3, <1>4, <1>5, <1>6, <1>7, <1>9, <1>10 DEF ShellInv

\* The activation itself: only what is to be deleted, and how far it is, changes.
LEMMA ActivationStep ==
  ASSUME ShellInv, active # Nothing,
         UNCHANGED <<server, started, version, installing, waiting, active, storage,
                     preparations, tabs, evicted, crossed>>,
         activation' \in {"event", "deleting", "done"},
         doomed' \subseteq (IF activation' = "deleting" THEN Version ELSE {}),
         version[active] \notin doomed'
  PROVE  ShellInv' /\ KeptInUse
<1> USE DEF storage, preparations, tabs, server
<1>1. TypeOK'
  BY DEF ShellInv, TypeOK
<1>2. Registered' /\ Stored'
  BY DEF ShellInv, Registered, Stored
<1>3. Filled' /\ SameBuild'
  BY DEF ShellInv, Filled, SameBuild, Kept, Complete, Held
<1>4. Matching' /\ KeptInUse
  BY DEF ShellInv, Matching, KeptInUse, Complete, Held
<1> QED BY <1>1, <1>2, <1>3, <1>4 DEF ShellInv

LEMMA ListCachesKeeps ==
  ASSUME ShellInv, ListCaches
  PROVE  ShellInv' /\ KeptInUse
<1>1. /\ active # Nothing
      /\ UNCHANGED <<server, started, version, installing, waiting, active, storage,
                     preparations, tabs, evicted, crossed>>
      /\ activation' = "deleting"
      /\ doomed' = {v \in Version : named[v] # Nothing} \ {version[active]}
  BY DEF ListCaches
<1>2. doomed' \subseteq (IF activation' = "deleting" THEN Version ELSE {}) /\ version[active] \notin doomed'
  BY <1>1
<1> QED BY <1>1, <1>2, ActivationStep

LEMMA EndActivateKeeps ==
  ASSUME ShellInv, EndActivate
  PROVE  ShellInv' /\ KeptInUse
<1>1. /\ UNCHANGED <<server, started, version, installing, waiting, active, storage,
                     preparations, tabs, evicted, crossed>>
      /\ activation' = "done" /\ doomed' = {} /\ activation = "deleting"
  BY DEF EndActivate
<1>2. active # Nothing
  BY <1>1 DEF ShellInv, TypeOK
<1>3. doomed' \subseteq (IF activation' = "deleting" THEN Version ELSE {}) /\ version[active] \notin doomed'
  BY <1>1
<1> QED BY <1>1, <1>2, <1>3, ActivationStep

\* The activation takes the caches of all other builds away, also of those that
\* are being installed or wait.
LEMMA DeleteOldKeeps ==
  ASSUME ShellInv, NEW v \in Version, DeleteOld(v)
  PROVE  ShellInv' /\ KeptInUse
<1>1. /\ activation = "deleting" /\ v \in doomed /\ DeleteCaches({v})
      /\ doomed' = doomed \ {v}
      /\ crossed' = crossed \cup {w \in {installing, waiting} \ {Nothing} : version[w] = v}
      /\ UNCHANGED <<server, started, version, installing, waiting, active, activation>>
      /\ created' = created /\ holds' = holds /\ UNCHANGED <<preparations, tabs, evicted>>
  BY DEF DeleteOld
<1>2. /\ named' \in [Version -> 0..created'] /\ Stored'
      /\ \A u \in Version : named'[u] = IF u = v THEN Nothing ELSE named[u]
      /\ \A u \in Version \ {v} : Complete(u)' <=> Complete(u)
  BY <1>1, DroppingKeeps
<1>3. active # Nothing /\ version[active] # v /\ version[active] \in Version
  <2>1. active # Nothing
    BY <1>1 DEF ShellInv, TypeOK
  <2> QED BY <1>1, <2>1, Places DEF ShellInv, Registered
<1>4. \A w \in {installing, waiting} \ {Nothing} :
          w \in Worker /\ w \in 1..started /\ version[w] \in Version
  BY Places
<1> USE DEF preparations, tabs, server
<1>5. TypeOK'
  BY <1>1, <1>2, <1>4 DEF ShellInv, TypeOK
<1>6. Registered'
  BY <1>1, <1>4 DEF ShellInv, Registered
<1>7. Filled'
  <2>1. Kept(installing)' => Kept(installing) /\ version[installing] # v
    BY <1>1 DEF Kept
  <2>2. Kept(waiting)' => Kept(waiting) /\ version[waiting] # v
    BY <1>1 DEF Kept
  <2>3. Kept(active)' => Kept(active)
    BY <1>1 DEF Kept
  <2>4. Kept(installing)' => named'[version[installing]] = using[installing]
    BY <1>2, <1>4, <2>1 DEF Kept, ShellInv, Filled
  <2>5. Kept(waiting)' => Complete(version[waiting])'
    BY <1>1, <1>2, <1>4, <2>2 DEF Kept, ShellInv, Filled, Complete, Held
  <2>6. Kept(active)' => Complete(version[active])'
    BY <1>1, <1>2, <1>3, <2>3 DEF ShellInv, Filled, Complete, Held
  <2>7. installing # Nothing => Asset \ todo[installing] \subseteq holds[using[installing]]
    BY DEF ShellInv, Filled
  <2> QED BY <1>1, <2>4, <2>5, <2>6, <2>7 DEF Filled
<1>8. SameBuild'
  <2>1. named'[version[active]] = named[version[active]]
    BY <1>2, <1>3
  <2> QED BY <1>1, <2>1 DEF ShellInv, SameBuild
<1>9. Matching'
  BY <1>1 DEF ShellInv, Matching
<1>10. KeptInUse
  BY <1>1, <1>2, <1>3 DEF KeptInUse, Complete, Held
<1> QED BY <1>2, <1>5, <1>6, <1>7, <1>8, <1>9, <1>10 DEF ShellInv

-----------------------------------------------------------------------------
(***************************************************************************)
(* Every run.                                                              *)
(***************************************************************************)

LEMMA InitShell == Init => ShellInv
<1> SUFFICES ASSUME Init PROVE ShellInv
  OBVIOUS
<1> USE DEF Init
<1>1. 1 \in Version /\ MaxVersion \in Nat /\ MaxWorkers \in Nat /\ MaxCaches \in Nat
  BY BoundsType DEF Version
<1>2. Closed \in [Asset -> 0..MaxVersion]
  BY <1>1 DEF Closed, Nothing
<1>3. loaded \in [Tab -> [Asset -> 0..MaxVersion]] /\ controller \in [Tab -> 0..started]
  BY <1>1, <1>2 DEF Nothing
<1>4. /\ named \in [Version -> 0..created] /\ using \in [Worker -> 0..created]
      /\ version \in [Worker -> 0..MaxVersion]
  BY <1>1 DEF Nothing
<1>5. holds \in [Cache -> SUBSET Asset] /\ todo \in [Worker -> SUBSET Asset]
  OBVIOUS
<1>6. TypeOK
  <2>1. site \in [Asset -> Version] /\ script \in Version
    BY <1>1
  <2>2. started \in 0..MaxWorkers /\ created \in 0..MaxCaches /\ {installing, waiting, active} \subseteq 0..started
    BY <1>1
  <2>3. /\ activation \in {"event", "deleting", "done"} /\ doomed = {} /\ crossed = {}
        /\ evicted \in BOOLEAN /\ activation = "done" /\ installing = Nothing
    BY DEF Nothing
  <2> QED BY <1>3, <1>4, <1>5, <2>1, <2>2, <2>3 DEF TypeOK
<1>7. Registered /\ Stored
  BY <1>1 DEF Registered, Stored, Nothing
<1>8. Filled /\ SameBuild /\ Matching
  BY DEF Filled, SameBuild, Matching, Kept, Nothing
<1> QED BY <1>6, <1>7, <1>8 DEF ShellInv

LEMMA NextKeeps ==
  ASSUME ShellInv, [Next]_vars
  PROVE  ShellInv' /\ KeptInUse
<1>1. ASSUME NEW v \in Version, DeployScript(v) \/ \E a \in Asset : DeployAsset(a, v)
      PROVE  ShellInv' /\ KeptInUse
  BY <1>1, DeployKeeps
<1>2. CASE Evict
  BY <1>2, EvictKeeps
<1>3. CASE Update \/ InstallFails \/ InstallKilled \/ InstallEnds
  BY <1>3, UpdateKeeps, InstallFailsKeeps, InstallKilledKeeps, InstallEndsKeeps
<1>4. CASE Activate \/ ListCaches \/ EndActivate \/ \E v \in Version : DeleteOld(v)
  BY <1>4, ActivateKeeps, ListCachesKeeps, EndActivateKeeps, DeleteOldKeeps
<1>5. ASSUME NEW w \in Worker,
             (\E a \in Asset : PrepareAsset(w, a)) \/ Repair(w) \/ RepairEnds(w)
      PROVE  ShellInv' /\ KeptInUse
  BY <1>5, PrepareAssetKeeps, RepairKeeps, RepairEndsKeeps
<1>6. ASSUME NEW t \in Tab,
             \/ OpenServed(t) \/ OpenDirectly(t) \/ CloseTab(t)
             \/ \E a \in Asset : RefetchServed(t, a) \/ RefetchDirectly(t, a)
      PROVE  ShellInv' /\ KeptInUse
  BY <1>6, OpenServedKeeps, OpenDirectlyKeeps, CloseTabKeeps, RefetchServedKeeps,
     RefetchDirectlyKeeps
<1>7. CASE UNCHANGED vars
  <2>1. /\ UNCHANGED <<registration, storage, preparations, evicted, crossed>>
        /\ UNCHANGED <<site, script, loaded, controller>>
    BY <1>7 DEF vars, registration, storage, preparations
  <2>2. /\ site' \in [Asset -> Version] /\ script' \in Version
        /\ loaded' \in [Tab -> [Asset -> 0..MaxVersion]] /\ controller' \in [Tab -> 0..started]
    BY <2>1 DEF ShellInv, TypeOK
  <2>3. Matching'
    BY <2>1 DEF ShellInv, Matching, registration
  <2> QED BY <2>1, <2>2, <2>3, PageStep
<1> QED BY <1>1, <1>2, <1>3, <1>4, <1>5, <1>6, <1>7 DEF Next

LEMMA Shells == Spec => []ShellInv
<1>1. Init => ShellInv
  BY InitShell
<1>2. ShellInv /\ [Next]_vars => ShellInv'
  BY NextKeeps
<1> QED BY <1>1, <1>2, PTL DEF Spec

\* A page that a service worker serves is of one build, that of the active
\* worker, which has its complete shell unless the storage was cleared or another
\* activation crossed its installation (the fetch, install and activate handlers
\* of sw.js).
THEOREM ServedMatch == Spec => []ServedPagesMatch
<1>1. ShellInv => ServedPagesMatch
  BY DEF ShellInv, Matching, Filled, Kept, ServedPagesMatch
<1> QED BY <1>1, Shells, PTL

\* A complete cache in use is deleted by nothing but the browser: not by an update
\* that fails, of the same build or of another, nor by the activation (prepare and
\* the install handler of sw.js).
THEOREM WorkingKept == Spec => WorkingCacheKept
<1>1. ShellInv /\ [Next]_vars => KeptInUse
  BY NextKeeps
<1>2. KeptInUse => [active # Nothing /\ Complete(version[active]) /\ evicted' = evicted
                       => active' # active \/ Complete(version[active])']_vars
  BY DEF KeptInUse
<1>3. ShellInv /\ [Next]_vars => [active # Nothing /\ Complete(version[active]) /\ evicted' = evicted
                       => active' # active \/ Complete(version[active])']_vars
  BY <1>1, <1>2
<1> QED BY <1>3, Shells, PTL DEF Spec, WorkingCacheKept

====
