---------------------------- MODULE OfflineShell ----------------------------
(***************************************************************************)
(* The offline copy of the browser reader: the service worker (web/sw.js), *)
(* the page script that drives it (web/offline.js), and what the browser   *)
(* and the server do around them.                                          *)
(*                                                                         *)
(* A version is one build; its service worker knows the digest of every    *)
(* asset of the build, and a fetched asset is used only if it matches.  A  *)
(* deployment replaces the files on the server one by one.  Every service  *)
(* worker works with the cache named after its version; deleting a cache   *)
(* takes away its name, while whoever has it open goes on writing to it.   *)
(* Service workers are numbered in the order the browser starts them.      *)
(***************************************************************************)
EXTENDS Naturals, FiniteSets

CONSTANTS
    Asset,          \* the files of the shell
    Tab,            \* browser tabs
    MaxVersion,     \* bound: builds that are deployed
    MaxWorkers,     \* bound: service workers the browser starts
    MaxCaches       \* bound: caches that are created

ASSUME BoundsType == {MaxVersion, MaxWorkers, MaxCaches} \subseteq Nat \ {0}

Version == 1..MaxVersion
Worker == 1..MaxWorkers
Cache == 1..MaxCaches
Nothing == 0        \* no worker, no cache, no version

VARIABLES
    (* The server. *)
    site,       \* per asset: the version on the server
    script,     \* the version of sw.js on the server
    (* The browser's registration. *)
    started,    \* workers started so far
    version,    \* per worker: the build it belongs to
    installing, waiting, active,
    activation, \* of the active worker: "event", "deleting" or "done"
    doomed,     \* the caches its activation still has to delete
    (* Cache storage. *)
    created,    \* caches created so far
    named,      \* per version: the cache under its name, or Nothing
    holds,      \* per cache: the assets in it
    (* Preparations, at most one per worker. *)
    using,      \* per worker: the cache it fills, or Nothing
    todo,       \* per worker: assets it still has to look at
    (* Tabs. *)
    loaded,     \* per tab: the version of each asset it loaded, or Closed
    controller, \* per tab: the worker that serves it, or Nothing
    (* Observers. *)
    evicted,    \* the browser has cleared the storage
    crossed     \* workers that lost their cache to another's activation

registration == <<started, version, installing, waiting, active, activation, doomed>>
storage == <<created, named, holds>>
preparations == <<using, todo>>
tabs == <<loaded, controller>>
server == <<site, script>>
vars == <<site, script, started, version, installing, waiting, active,
          activation, doomed, created, named, holds, using, todo, loaded,
          controller, evicted, crossed>>

Closed == [a \in Asset |-> Nothing]

TypeOK ==
    /\ site \in [Asset -> Version]
    /\ script \in Version
    /\ started \in 0..MaxWorkers
    /\ version \in [Worker -> 0..MaxVersion]
    /\ {installing, waiting, active} \subseteq 0..started
    /\ activation \in {"event", "deleting", "done"}
    /\ doomed \subseteq (IF activation = "deleting" THEN Version ELSE {})
    /\ activation # "done" => active # Nothing
    /\ created \in 0..MaxCaches
    /\ named \in [Version -> 0..created]
    /\ holds \in [Cache -> SUBSET Asset]
    /\ using \in [Worker -> 0..created]
    /\ installing # Nothing => using[installing] # Nothing
    /\ todo \in [Worker -> SUBSET Asset]
    /\ loaded \in [Tab -> [Asset -> 0..MaxVersion]]
    /\ controller \in [Tab -> 0..started]
    /\ evicted \in BOOLEAN
    /\ crossed \subseteq Worker

-----------------------------------------------------------------------------
Held(v) == IF named[v] = Nothing THEN {} ELSE holds[named[v]]
Complete(v) == Held(v) = Asset

\* checkedResponse: what the network has is what the digest says.  The network
\* may fail at any request.
Fetches(a, v) == site[a] = v

IsOpen(t) == loaded[t] # Closed
Newest == IF installing # 0 THEN installing ELSE IF waiting # 0 THEN waiting ELSE active

\* caches.open(CACHE) creates the cache if there is none.
OpenCache(v) ==
    IF named[v] # Nothing THEN UNCHANGED <<created, named>>
    ELSE /\ created < MaxCaches
         /\ created' = created + 1
         /\ named' = [named EXCEPT ![v] = created + 1]

DeleteCaches(V) == named' = [v \in Version |-> IF v \in V THEN Nothing ELSE named[v]]

-----------------------------------------------------------------------------
(***************************************************************************)
(* The server and the browser.                                             *)
(***************************************************************************)
DeployAsset(a, v) ==
    /\ site' = [site EXCEPT ![a] = v]
    /\ UNCHANGED <<script, registration, storage, preparations, tabs, evicted, crossed>>

DeployScript(v) ==
    /\ script' = v
    /\ UNCHANGED <<site, registration, storage, preparations, tabs, evicted, crossed>>

\* The browser clears the cache storage of the site.
Evict ==
    /\ ~evicted
    /\ evicted' = TRUE
    /\ DeleteCaches(Version)
    /\ UNCHANGED <<server, registration, created, holds, preparations, tabs, crossed>>

CloseTab(t) ==
    /\ IsOpen(t)
    /\ loaded' = [loaded EXCEPT ![t] = Closed]
    /\ controller' = [controller EXCEPT ![t] = Nothing]
    /\ UNCHANGED <<server, registration, storage, preparations, evicted, crossed>>

-----------------------------------------------------------------------------
(***************************************************************************)
(* Preparing a cache: prepare() in sw.js.                                  *)
(***************************************************************************)
BeginPrepare(w, v) ==
    /\ OpenCache(v)
    /\ using' = [using EXCEPT ![w] = named'[v]]
    /\ todo' = [todo EXCEPT ![w] = Asset]
    /\ UNCHANGED holds

EndPrepare(w) ==
    /\ using' = [using EXCEPT ![w] = Nothing]
    /\ todo' = [todo EXCEPT ![w] = {}]

PrepareAsset(w, a) ==
    /\ using[w] # Nothing
    /\ a \in todo[w]
    /\ a \in holds[using[w]] \/ Fetches(a, version[w])
    /\ holds' = [holds EXCEPT ![using[w]] = @ \cup {a}]
    /\ todo' = [todo EXCEPT ![w] = @ \ {a}]
    /\ UNCHANGED <<server, registration, created, named, using, tabs, evicted, crossed>>

Fails(w) ==
    /\ using[w] # Nothing
    /\ \E a \in todo[w] : a \notin holds[using[w]]

-----------------------------------------------------------------------------
(***************************************************************************)
(* The life of a service worker.                                           *)
(***************************************************************************)

\* A page registers or updates: sw.js differs from the newest worker's.
Update ==
    /\ installing = Nothing
    /\ started < MaxWorkers
    /\ Newest # 0 => version[Newest] # script
    /\ started' = started + 1
    /\ version' = [version EXCEPT ![started + 1] = script]
    /\ installing' = started + 1
    /\ BeginPrepare(started + 1, script)
    /\ UNCHANGED <<server, waiting, active, activation, doomed, tabs, evicted, crossed>>

\* Faulty variant: a failed installation clears every cache.
InstallFailsClearing ==
    /\ installing # Nothing
    /\ Fails(installing)
    /\ DeleteCaches(Version)
    /\ EndPrepare(installing)
    /\ installing' = Nothing
    /\ UNCHANGED <<server, started, version, waiting, active, activation, doomed,
                   created, holds, tabs, evicted, crossed>>

InstallFails ==
    /\ installing # Nothing
    /\ Fails(installing)
    /\ DeleteCaches({version[installing]})
    /\ EndPrepare(installing)
    /\ installing' = Nothing
    /\ UNCHANGED <<server, started, version, waiting, active, activation, doomed,
                   created, holds, tabs, evicted, crossed>>

\* The browser stops the worker in the middle.
InstallKilled ==
    /\ installing # Nothing
    /\ EndPrepare(installing)
    /\ installing' = Nothing
    /\ UNCHANGED <<server, started, version, waiting, active, activation, doomed,
                   storage, tabs, evicted, crossed>>

InstallEnds ==
    /\ installing # Nothing
    /\ todo[installing] = {}
    /\ waiting' = installing
    /\ EndPrepare(installing)
    /\ installing' = Nothing
    /\ UNCHANGED <<server, started, version, active, activation, doomed,
                   storage, tabs, evicted, crossed>>

TakeOver ==
    /\ waiting # Nothing
    /\ active' = waiting
    /\ waiting' = Nothing
    /\ activation' = "event"
    /\ UNCHANGED <<server, started, version, installing, doomed, storage,
                   preparations, tabs, evicted, crossed>>

\* The waiting worker becomes active when no tab is served by the active one.
Activate ==
    /\ activation = "done"
    /\ active # Nothing => \A t \in Tab : controller[t] # active
    /\ TakeOver

\* The activate event: every other cache of this site is deleted.
ListCaches ==
    /\ active # Nothing /\ activation = "event"
    /\ doomed' = {v \in Version : named[v] # Nothing} \ {version[active]}
    /\ activation' = "deleting"
    /\ UNCHANGED <<server, started, version, installing, waiting, active, storage,
                   preparations, tabs, evicted, crossed>>

DeleteOld(v) ==
    /\ activation = "deleting"
    /\ v \in doomed
    /\ DeleteCaches({v})
    /\ doomed' = doomed \ {v}
    /\ crossed' = crossed \cup {w \in {installing, waiting} \ {Nothing} : version[w] = v}
    /\ UNCHANGED <<server, started, version, installing, waiting, active, activation,
                   created, holds, preparations, tabs, evicted>>

EndActivate ==
    /\ activation = "deleting"
    /\ doomed = {}
    /\ activation' = "done"
    /\ UNCHANGED <<server, started, version, installing, waiting, active, doomed,
                   storage, preparations, tabs, evicted, crossed>>

-----------------------------------------------------------------------------
(***************************************************************************)
(* Pages.                                                                  *)
(***************************************************************************)

\* Faulty variant: what the network has is served unchecked.
ServedUnchecked(a, v) == IF a \in Held(v) THEN {v} ELSE {site[a]}

\* The fetch handler: the version of asset a that worker version v can serve.
Served(a, v) == IF a \in Held(v) \/ Fetches(a, v) THEN {v} ELSE {}

\* A navigation under an active worker, and one without.
OpenServed(t) ==
    /\ ~IsOpen(t)
    /\ active # Nothing /\ activation = "done"
    /\ OpenCache(version[active])
    /\ \E parts \in [Asset -> Version] :
          /\ \A a \in Asset : parts[a] \in Served(a, version[active])
          /\ loaded' = [loaded EXCEPT ![t] = parts]
    /\ controller' = [controller EXCEPT ![t] = active]
    /\ UNCHANGED <<server, registration, holds, preparations, evicted, crossed>>

OpenDirectly(t) ==
    /\ ~IsOpen(t)
    /\ active = Nothing
    /\ loaded' = [loaded EXCEPT ![t] = site]
    /\ UNCHANGED <<server, registration, storage, preparations, controller, evicted, crossed>>

\* An open page fetches an asset again, as it does for worker.js: through the
\* worker that serves it, or straight from the server.
RefetchServed(t, a) ==
    /\ controller[t] # Nothing
    /\ OpenCache(version[controller[t]])
    /\ \E v \in Served(a, version[controller[t]]) : loaded' = [loaded EXCEPT ![t][a] = v]
    /\ UNCHANGED <<server, registration, holds, preparations, controller, evicted, crossed>>

RefetchDirectly(t, a) ==
    /\ IsOpen(t) /\ controller[t] = Nothing
    /\ loaded' = [loaded EXCEPT ![t][a] = site[a]]
    /\ UNCHANGED <<server, registration, storage, preparations, controller, evicted, crossed>>

\* "Save reader offline": the page asks a worker whose cache is incomplete.
Repair(w) ==
    /\ \E t \in Tab : IsOpen(t)
    /\ w = (IF waiting # Nothing THEN waiting ELSE active)
    /\ w # Nothing
    /\ ~Complete(version[w])
    /\ using[w] = Nothing
    /\ BeginPrepare(w, version[w])
    /\ UNCHANGED <<server, registration, tabs, evicted, crossed>>

RepairEnds(w) ==
    /\ w \in {waiting, active} \ {Nothing}
    /\ using[w] # Nothing
    /\ todo[w] = {} \/ Fails(w)
    /\ EndPrepare(w)
    /\ UNCHANGED <<server, registration, storage, tabs, evicted, crossed>>

-----------------------------------------------------------------------------
Init ==
    /\ site = [a \in Asset |-> 1] /\ script = 1
    /\ started = 0 /\ version = [w \in Worker |-> 0]
    /\ installing = 0 /\ waiting = 0 /\ active = 0
    /\ activation = "done" /\ doomed = {}
    /\ created = 0 /\ named = [v \in Version |-> Nothing]
    /\ holds = [c \in Cache |-> {}]
    /\ using = [w \in Worker |-> Nothing] /\ todo = [w \in Worker |-> {}]
    /\ loaded = [t \in Tab |-> Closed] /\ controller = [t \in Tab |-> Nothing]
    /\ evicted = FALSE /\ crossed = {}

Next ==
    \/ \E v \in Version : \/ DeployScript(v)
                          \/ \E a \in Asset : DeployAsset(a, v)
    \/ Evict
    \/ Update \/ InstallFails \/ InstallKilled \/ InstallEnds
    \/ Activate \/ ListCaches \/ EndActivate
    \/ \E v \in Version : DeleteOld(v)
    \/ \E w \in Worker : \/ \E a \in Asset : PrepareAsset(w, a)
                         \/ Repair(w) \/ RepairEnds(w)
    \/ \E t \in Tab : \/ OpenServed(t) \/ OpenDirectly(t) \/ CloseTab(t)
                      \/ \E a \in Asset : RefetchServed(t, a) \/ RefetchDirectly(t, a)

Spec == Init /\ [][Next]_vars

-----------------------------------------------------------------------------
(***************************************************************************)
(* Properties.                                                             *)
(***************************************************************************)
\* "old tabs keep their matching worker and decoder": a page that a worker
\* serves never mixes builds, whatever is deployed while it is open; and an
\* active worker has its complete shell, if nothing took its cache away while it
\* was being installed or waited.
ServedPagesMatch ==
    /\ TypeOK
    /\ \A t \in Tab : IsOpen(t) /\ controller[t] # Nothing =>
        /\ controller[t] = active
        /\ \A a \in Asset : loaded[t][a] = version[active]
    /\ active # Nothing /\ active \notin crossed /\ ~evicted => Complete(version[active])

\* "A partial deployment cannot replace the working cache": a complete cache of
\* the active worker stays until the browser clears it or another takes over.
WorkingCacheKept ==
    [][active # Nothing /\ Complete(version[active]) /\ evicted' = evicted
         => active' # active \/ Complete(version[active])']_vars

=============================================================================
