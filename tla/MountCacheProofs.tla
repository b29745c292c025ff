--------------------------- MODULE MountCacheProofs ---------------------------
(***************************************************************************)
(* The mount serves nothing but verified files of the unchanged archive,   *)
(* each of them whole, for any archive, any threads and any limits.        *)
(*                                                                         *)
(* And its cache stays within its limits, cached_bytes being what the      *)
(* cached files hold.                                                      *)
(***************************************************************************)
EXTENDS MountCache, FiniteSetTheorems, TLAPS

-----------------------------------------------------------------------------
(***************************************************************************)
(* The inductive invariant.                                                *)
(***************************************************************************)

\* The part of the type invariant that does not rest on the sum.
Typed ==
    /\ cache \in Seq(Cached)
    /\ stamp \in BOOLEAN
    /\ holder \in Thread \cup {Nobody}
    /\ step \in {"enter", "evict", "decode", "insert", "serve"}
    /\ tainted \in BOOLEAN
    /\ want \in [Thread -> Call]
    /\ answer \in [Thread -> [outcome: Outcome, length: Nat, original: BOOLEAN]]
    /\ file \in [Thread -> Path \cup {Missing}]
    /\ pos \in [Thread -> Nat]

\* A thread asks for the path it reads through, where its last answer ended.
Tracked ==
    \A t \in Thread :
        /\ want[t] # Idle => want[t].path \in Path /\ want[t].op # "none"
        /\ want[t].op \in {"open", "read"} => want[t].path = file[t] /\ want[t].offset = pos[t]
        /\ file[t] \in Path /\ Node[file[t]] \in Member => pos[t] <= Size[Node[file[t]]]

\* Past the checks, the call is about a file: one that is in the cache when it is
\* served and is not before, and that has been verified when it is inserted.
Located ==
    LET m == Target(holder) IN
    /\ want[holder].op \in {"open", "read"} /\ m \in Member
    /\ want[holder].op = "read" => want[holder].offset < Size[m]
    /\ step = "serve" <=> m \in Held
    /\ step = "insert" /\ stamp => Fault[m] = "none"

Locked ==
    IF holder = Nobody THEN step = "enter"
    ELSE want[holder] # Idle /\ (step # "enter" => Located)

\* What was filled from a changed archive is not kept, because it stays changed.
Untainted == tainted => ~stamp

Answered ==
    \A t \in Thread : answer[t].outcome = "data" =>
        answer[t].original /\ answer[t].length \in 1..MaxRead

MountInv ==
    /\ Typed
    /\ Tracked
    /\ Locked
    /\ Untainted
    /\ Answered
    /\ OnlyVerified

-----------------------------------------------------------------------------
(***************************************************************************)
(* The cache.                                                              *)
(***************************************************************************)

LEMMA CacheFacts ==
  ASSUME Typed
  PROVE  /\ ToSet(cache) = {cache[i] : i \in DOMAIN cache}
         /\ DOMAIN cache = 1..Len(cache) /\ Len(cache) \in Nat
         /\ \A i \in DOMAIN cache : cache[i] \in Cached
BY DEF Typed, ToSet

\* What a step leaves in the cache was there.
LEMMA FewerKeeps ==
  ASSUME Typed, OnlyVerified, cache' \in Seq(Cached),
         NEW f \in [DOMAIN cache' -> DOMAIN cache],
         \A i \in DOMAIN cache' : cache'[i] = cache[f[i]],
         \A i, j \in DOMAIN cache' : f[i] = f[j] => i = j
  PROVE  OnlyVerified' /\ Held' \subseteq Held
<1>1. \A g \in ToSet(cache') : g \in ToSet(cache)
  BY DEF ToSet
<1>2. \A g \in ToSet(cache') : Fault[g.member] = "none" /\ g.original
  BY <1>1 DEF OnlyVerified, OnceEach
<1>3. \A i, j \in DOMAIN cache' : cache'[i].member = cache'[j].member => i = j
  BY DEF OnlyVerified, OnceEach
<1>4. Held' \subseteq Held
  BY DEF Held
<1> QED BY <1>2, <1>3, <1>4 DEF OnlyVerified, OnceEach

\* Moving the k-th place behind the others sends no two places to one.
LEMMA Rotated ==
  ASSUME NEW n \in Nat, NEW k \in 1..n, NEW i \in 1..n, NEW j \in 1..n,
         (IF i < k THEN i ELSE IF i < n THEN i + 1 ELSE k)
             = (IF j < k THEN j ELSE IF j < n THEN j + 1 ELSE k)
  PROVE  i = j
<1>1. CASE i < k
  BY <1>1
<1>2. CASE j < k
  BY <1>2
<1>3. CASE ~(i < k) /\ ~(j < k) /\ i < n
  BY <1>3
<1>4. CASE ~(i < k) /\ ~(j < k) /\ ~(i < n)
  BY <1>4
<1> QED BY <1>1, <1>2, <1>3, <1>4

LEMMA TouchKeeps ==
  ASSUME Typed, OnlyVerified, NEW m, Touch(m)
  PROVE  cache' \in Seq(Cached) /\ OnlyVerified' /\ Held' = Held /\ Len(cache') = Len(cache)
<1>1. PICK k \in DOMAIN cache :
          cache[k].member = m /\ cache' = Append(RemoveAt(cache, k), cache[k])
  BY DEF Touch
<1> DEFINE n == Len(cache)
           f == [i \in 1..n |-> IF i < k THEN i ELSE IF i < n THEN i + 1 ELSE k]
<1>2. k \in 1..n /\ n \in Nat /\ DOMAIN cache = 1..n /\ cache \in Seq(Cached)
  BY DEF Typed
<1>3. cache' = Append(SubSeq(cache, 1, k - 1) \o SubSeq(cache, k + 1, n), cache[k])
  BY <1>1 DEF RemoveAt
<1> HIDE DEF n
<1>4. /\ SubSeq(cache, 1, k - 1) \in Seq(Cached) /\ Len(SubSeq(cache, 1, k - 1)) = k - 1
      /\ \A i \in 1..(k - 1) : SubSeq(cache, 1, k - 1)[i] = cache[i]
  BY <1>2 DEF n
<1>5. /\ SubSeq(cache, k + 1, n) \in Seq(Cached) /\ Len(SubSeq(cache, k + 1, n)) = n - k
      /\ \A i \in 1..(n - k) : SubSeq(cache, k + 1, n)[i] = cache[k + i]
  BY <1>2 DEF n
<1> DEFINE a == SubSeq(cache, 1, k - 1)
           b == SubSeq(cache, k + 1, n)
<1>6. /\ a \o b \in Seq(Cached) /\ Len(a \o b) = n - 1
      /\ \A i \in 1..(n - 1) : (a \o b)[i] = IF i < k THEN cache[i] ELSE cache[i + 1]
  <2>1. a \in Seq(Cached) /\ Len(a) = k - 1 /\ b \in Seq(Cached) /\ Len(b) = n - k
    BY <1>4, <1>5
  <2> HIDE DEF a, b
  <2>2. a \o b \in Seq(Cached) /\ Len(a \o b) = n - 1
    BY <1>2, <2>1
  <2>3. ASSUME NEW i \in 1..(n - 1)
        PROVE  (a \o b)[i] = IF i < k THEN cache[i] ELSE cache[i + 1]
    <3>1. (a \o b)[i] = IF i <= k - 1 THEN a[i] ELSE b[i - (k - 1)]
      BY <1>2, <2>1
    <3>2. CASE i < k
      <4>1. i \in 1..(k - 1) /\ a[i] = cache[i]
        BY <1>2, <1>4, <3>2 DEF a
      <4> QED BY <1>2, <3>1, <3>2, <4>1
    <3>3. CASE ~(i < k)
      <4>1. i - (k - 1) \in 1..(n - k) /\ k + (i - (k - 1)) = i + 1
        BY <1>2, <3>3
      <4>2. b[i - (k - 1)] = cache[k + (i - (k - 1))]
        BY <1>5, <4>1 DEF b
      <4> QED BY <1>2, <3>1, <3>3, <4>1, <4>2
    <3> QED BY <3>2, <3>3
  <2> QED BY <2>2, <2>3
<1> DEFINE s == a \o b
<1>7. cache' = Append(s, cache[k]) /\ cache[k] \in Cached
  BY <1>2, <1>3 DEF n
<1>8. /\ s \in Seq(Cached) /\ Len(s) = n - 1
      /\ \A i \in 1..(n - 1) : s[i] = IF i < k THEN cache[i] ELSE cache[i + 1]
  BY <1>6
<1> HIDE DEF s, a, b
<1>9. cache' \in Seq(Cached) /\ DOMAIN cache' = 1..n
  BY <1>2, <1>7, <1>8
<1>10. ASSUME NEW i \in 1..n PROVE f[i] \in 1..n /\ cache'[i] = cache[f[i]]
  <2>1. CASE i < n
    <3>1. cache'[i] = s[i] /\ i \in 1..(n - 1)
      BY <1>2, <1>7, <1>8, <2>1
    <3> QED BY <1>2, <1>8, <2>1, <3>1
  <2>2. CASE i = n
    <3>1. cache'[i] = cache[k]
      BY <1>2, <1>7, <1>8, <2>2
    <3> QED BY <1>2, <2>2, <3>1
  <2> QED BY <1>2, <2>1, <2>2
<1>11. ASSUME NEW i \in 1..n, NEW j \in 1..n, f[i] = f[j] PROVE i = j
  <2>1. (IF i < k THEN i ELSE IF i < n THEN i + 1 ELSE k)
            = (IF j < k THEN j ELSE IF j < n THEN j + 1 ELSE k)
    BY <1>11
  <2>2. n \in Nat /\ k \in 1..n
    BY <1>2
  <2> HIDE DEF f
  <2> QED BY <2>1, <2>2, Rotated
<1>12. \A j \in 1..n : \E i \in 1..n : f[i] = j
  <2> SUFFICES ASSUME NEW j \in 1..n PROVE \E i \in 1..n : f[i] = j
    OBVIOUS
  <2>1. CASE j < k
    BY <1>2, <2>1
  <2>2. CASE j = k
    <3>1. f[n] = k /\ n \in 1..n
      BY <1>2
    <3> QED BY <2>2, <3>1
  <2>3. CASE j > k
    <3>1. f[j - 1] = j /\ j - 1 \in 1..n
      BY <1>2, <2>3
    <3> QED BY <3>1
  <2> QED BY <1>2, <2>1, <2>2, <2>3
<1>13. f \in [DOMAIN cache' -> DOMAIN cache]
  BY <1>2, <1>9, <1>10
<1> HIDE DEF f
<1>14. OnlyVerified' /\ Held' \subseteq Held
  BY <1>9, <1>10, <1>11, <1>13, FewerKeeps
<1>15. Held \subseteq Held'
  <2> SUFFICES ASSUME NEW j \in 1..n PROVE cache[j].member \in Held'
    BY <1>2 DEF Held
  <2>1. PICK i \in 1..n : f[i] = j
    BY <1>12
  <2> QED BY <1>9, <1>10, <2>1 DEF Held
<1>16. Len(cache') = n
  BY <1>2, <1>7, <1>8
<1>17. Len(cache') = Len(cache)
  BY <1>16 DEF n
<1> QED BY <1>9, <1>14, <1>15, <1>17

LEMMA DropKeeps ==
  ASSUME Typed, OnlyVerified, cache # <<>>, cache' = Tail(cache)
  PROVE  cache' \in Seq(Cached) /\ OnlyVerified' /\ Held' \subseteq Held
<1> DEFINE f == [i \in DOMAIN cache' |-> i + 1]
<1>1. /\ cache' \in Seq(Cached)
      /\ \A i \in DOMAIN cache' : i + 1 \in DOMAIN cache /\ cache'[i] = cache[i + 1]
      /\ DOMAIN cache' = 1..Len(cache') /\ Len(cache') \in Nat
  BY DEF Typed
<1>2. \A i, j \in DOMAIN cache' : f[i] = f[j] => i = j
  BY <1>1
<1>3. f \in [DOMAIN cache' -> DOMAIN cache] /\ \A i \in DOMAIN cache' : cache'[i] = cache[f[i]]
  BY <1>1
<1> HIDE DEF f
<1> QED BY <1>1, <1>2, <1>3, FewerKeeps

LEMMA AddKeeps ==
  ASSUME Typed, OnlyVerified, NEW g \in Cached, g.member \notin Held,
         Fault[g.member] = "none", g.original, cache' = Append(cache, g)
  PROVE  cache' \in Seq(Cached) /\ OnlyVerified' /\ Held' = Held \cup {g.member}
<1> DEFINE n == Len(cache)
<1>1. /\ n \in Nat /\ DOMAIN cache = 1..n /\ cache' \in Seq(Cached)
      /\ DOMAIN cache' = 1..(n + 1) /\ cache'[n + 1] = g
      /\ \A i \in 1..n : cache'[i] = cache[i]
  BY DEF Typed
<1> HIDE DEF n
<1>2. \A i \in 1..(n + 1) : i \in 1..n \/ i = n + 1
  BY <1>1
<1>3. \A i \in 1..n : i \in 1..(n + 1)
  BY <1>1
<1>4. n + 1 \in 1..(n + 1)
  BY <1>1
<1>5. Held' = Held \cup {g.member}
  <2>1. Held' \subseteq Held \cup {g.member}
    BY <1>1, <1>2 DEF Held
  <2>2. Held \subseteq Held' /\ g.member \in Held'
    BY <1>1, <1>3, <1>4 DEF Held
  <2> QED BY <2>1, <2>2
<1>6. \A h \in ToSet(cache') : h = g \/ h \in ToSet(cache)
  BY <1>1, <1>2 DEF ToSet
<1>7. \A h \in ToSet(cache') : Fault[h.member] = "none" /\ h.original
  BY <1>6 DEF OnlyVerified, OnceEach
<1>8. ASSUME NEW i \in DOMAIN cache', NEW j \in DOMAIN cache', cache'[i].member = cache'[j].member
      PROVE  i = j
  <2>1. \A l \in 1..n : cache[l].member # g.member
    BY <1>1 DEF Held
  <2>2. CASE i \in 1..n /\ j \in 1..n
    BY <1>1, <1>8, <2>2 DEF OnlyVerified, OnceEach
  <2>3. CASE ~(i \in 1..n /\ j \in 1..n)
    BY <1>1, <1>2, <1>8, <2>1, <2>3
  <2> QED BY <2>2, <2>3
<1> QED BY <1>1, <1>5, <1>7, <1>8 DEF OnlyVerified, OnceEach

-----------------------------------------------------------------------------
(***************************************************************************)
(* The calls.                                                              *)
(***************************************************************************)

\* A call that passes the checks is about a file, and a read begins before its end.
LEMMA Passes ==
  ASSUME MountInv, NEW t \in Thread, want[t] # Idle, Early(t) = "none"
  PROVE  /\ want[t].op \in {"open", "read"} /\ Target(t) \in Member
         /\ want[t].op = "read" => want[t].offset < Size[Target(t)]
<1>1. /\ want[t] \in Call /\ want[t].path \in Path /\ want[t].op # "none"
      /\ want[t].op \in {"none", "getattr", "readdir", "append", "open", "read"}
      /\ want[t].offset \in Nat
  BY DEF MountInv, Typed, Tracked, Call
<1>2. Target(t) \in Member \cup {Folder, Missing}
  BY <1>1, NodeType DEF Target
<1>3. /\ want[t].op # "append" /\ stamp /\ Target(t) # Missing /\ want[t].op # "getattr"
      /\ want[t].op # "readdir" /\ Target(t) # Folder
      /\ ~(want[t].op = "read" /\ want[t].offset >= Size[Target(t)])
  BY DEF Early
<1>4. Target(t) \in Member /\ Size[Target(t)] \in Nat
  BY <1>2, <1>3, SizeType
<1> QED BY <1>1, <1>3, <1>4

\* A step of the call that keeps the lock.
LEMMA InsideStep ==
  ASSUME MountInv, holder # Nobody, UNCHANGED <<holder, stamp, reader>>,
         cache' \in Seq(Cached), OnlyVerified',
         step' \in {"evict", "decode", "insert", "serve"},
         tainted' \in BOOLEAN, tainted' => ~stamp,
         Located'
  PROVE  MountInv'
<1> USE DEF reader
<1>1. Typed' /\ Tracked' /\ Answered'
  BY DEF MountInv, Typed, Tracked, Answered
<1>2. Locked'
  BY DEF MountInv, Locked
<1> QED BY <1>1, <1>2 DEF MountInv, Untainted

LEMMA HitKeeps ==
  ASSUME MountInv, NEW t \in Thread, Hit(t)
  PROVE  MountInv'
<1>1. /\ holder = t /\ Early(t) = "none" /\ Target(t) \in Held /\ Touch(Target(t))
      /\ step' = "serve" /\ UNCHANGED <<stamp, holder, tainted, reader>>
  BY DEF Hit
<1>2. holder # Nobody /\ want[t] # Idle
  BY <1>1, NobodyIsNoThread DEF MountInv, Locked
<1>3. /\ want[t].op \in {"open", "read"} /\ Target(t) \in Member
      /\ want[t].op = "read" => want[t].offset < Size[Target(t)]
  BY <1>1, <1>2, Passes
<1>4. cache' \in Seq(Cached) /\ OnlyVerified' /\ Held' = Held
  BY <1>1, TouchKeeps DEF MountInv
<1>5. Located'
  <2>1. Target(holder)' = Target(t)
    BY <1>1 DEF Target, reader
  <2> QED BY <1>1, <1>3, <1>4, <2>1 DEF Located, reader
<1>6. tainted' \in BOOLEAN /\ (tainted' => ~stamp) /\ UNCHANGED <<holder, stamp, reader>>
  BY <1>1 DEF MountInv, Typed, Untainted
<1> QED BY <1>1, <1>2, <1>4, <1>5, <1>6, InsideStep

LEMMA MissKeeps ==
  ASSUME MountInv, NEW t \in Thread, Miss(t)
  PROVE  MountInv'
<1>1. /\ holder = t /\ Early(t) = "none" /\ Target(t) \notin Held /\ cache' = cache
      /\ step' = "evict" /\ UNCHANGED <<stamp, holder, tainted, reader>>
  BY DEF Miss
<1>2. holder # Nobody /\ want[t] # Idle
  BY <1>1, NobodyIsNoThread DEF MountInv, Locked
<1>3. /\ want[t].op \in {"open", "read"} /\ Target(t) \in Member
      /\ want[t].op = "read" => want[t].offset < Size[Target(t)]
  BY <1>1, <1>2, Passes
<1>4. cache' \in Seq(Cached) /\ OnlyVerified'
  BY <1>1 DEF MountInv, Typed, OnlyVerified, OnceEach
<1>5. Located'
  <2>1. Target(holder)' = Target(t) /\ Held' = Held
    BY <1>1 DEF Target, Held, reader
  <2> QED BY <1>1, <1>3, <2>1 DEF Located, reader
<1>6. tainted' \in BOOLEAN /\ (tainted' => ~stamp) /\ UNCHANGED <<holder, stamp, reader>>
  BY <1>1 DEF MountInv, Typed, Untainted
<1> QED BY <1>1, <1>2, <1>4, <1>5, <1>6, InsideStep

\* Past the checks nothing is forgotten of the call.
LEMMA StillLocated ==
  ASSUME MountInv, NEW t \in Thread, holder = t, step \in {"evict", "decode", "insert"},
         UNCHANGED <<holder, stamp, reader>>, step' \in {"evict", "decode", "insert"},
         Held' \subseteq Held,
         step' = "insert" /\ stamp => Fault[Target(t)] = "none"
  PROVE  Located' /\ holder # Nobody
<1>1. Located /\ holder # Nobody
  BY NobodyIsNoThread DEF MountInv, Locked
<1>2. Target(holder)' = Target(holder) /\ want' = want /\ holder' = holder /\ stamp' = stamp
  BY DEF Target, reader
<1> QED BY <1>1, <1>2 DEF Located

LEMMA EvictKeeps ==
  ASSUME MountInv, NEW t \in Thread, Evict(t)
  PROVE  MountInv'
<1>1. /\ holder = t /\ step = "evict" /\ step' = "evict" /\ cache # <<>> /\ cache' = Tail(cache)
      /\ UNCHANGED <<holder, stamp, reader>> /\ tainted' = tainted
  BY DEF Evict, Crowded
<1>2. cache' \in Seq(Cached) /\ OnlyVerified' /\ Held' \subseteq Held
  BY <1>1, DropKeeps DEF MountInv
<1>3. Located' /\ holder # Nobody
  BY <1>1, <1>2, StillLocated
<1>4. tainted' \in BOOLEAN /\ (tainted' => ~stamp)
  BY <1>1 DEF MountInv, Typed, Untainted
<1> QED BY <1>1, <1>2, <1>3, <1>4, InsideStep

LEMMA DecodeKeeps ==
  ASSUME MountInv, NEW t \in Thread, BeginDecode(t) \/ Decode(t) \/ DecodeEnds(t)
  PROVE  MountInv'
<1>1. /\ holder = t /\ step \in {"evict", "decode"} /\ step' \in {"decode", "insert"}
      /\ UNCHANGED <<holder, stamp, reader>> /\ cache' = cache
      /\ tainted' = tainted \/ tainted' = (tainted \/ ~stamp)
      /\ step' = "insert" /\ stamp => Fault[Target(t)] = "none"
  BY DEF BeginDecode, Decode, DecodeEnds
<1>2. cache' \in Seq(Cached) /\ OnlyVerified' /\ Held' \subseteq Held
  BY <1>1 DEF MountInv, Typed, OnlyVerified, OnceEach, Held
<1>3. Located' /\ holder # Nobody
  BY <1>1, <1>2, StillLocated
<1>4. tainted' \in BOOLEAN /\ (tainted' => ~stamp)
  <2>1. tainted \in BOOLEAN /\ stamp \in BOOLEAN /\ (tainted => ~stamp)
    BY DEF MountInv, Typed, Untainted
  <2>2. CASE tainted' = tainted
    BY <2>1, <2>2
  <2>3. CASE tainted' = (tainted \/ ~stamp)
    BY <2>1, <2>3
  <2> QED BY <1>1, <2>2, <2>3
<1> QED BY <1>1, <1>2, <1>3, <1>4, InsideStep

\* What is inserted was decoded from the unchanged archive, and was not there.
LEMMA InsertKeeps ==
  ASSUME MountInv, NEW t \in Thread, Insert(t)
  PROVE  MountInv'
<1> DEFINE g == [member |-> Target(t), original |-> ~tainted]
<1>1. /\ holder = t /\ step = "insert" /\ stamp /\ step' = "serve" /\ tainted' = FALSE
      /\ UNCHANGED <<holder, stamp, reader>> /\ cache' = Append(cache, g)
  BY DEF Insert, Keep
<1>2. Located /\ holder # Nobody
  BY <1>1, NobodyIsNoThread DEF MountInv, Locked
<1>3. /\ g \in Cached /\ g.member = Target(t) /\ g.member \notin Held
      /\ Fault[g.member] = "none" /\ g.original
  BY <1>1, <1>2 DEF Located, MountInv, Typed, Untainted, Cached
<1> HIDE DEF g
<1>4. cache' \in Seq(Cached) /\ OnlyVerified' /\ Held' = Held \cup {g.member}
  BY <1>1, <1>3, AddKeeps DEF MountInv
<1>5. Located'
  <2>1. Target(holder)' = Target(t) /\ want' = want /\ holder' = holder
    BY <1>1 DEF Target, reader
  <2> QED BY <1>1, <1>2, <1>3, <1>4, <2>1 DEF Located
<1> QED BY <1>1, <1>2, <1>4, <1>5, InsideStep

\* The end of a call frees the lock and moves its thread on.
LEMMA FinishKeeps ==
  ASSUME MountInv, NEW t \in Thread, holder = t,
         NEW a \in [outcome: Outcome, length: Nat, original: BOOLEAN],
         Finish(t, a), cache' = cache, stamp' = stamp,
         a.outcome = "data" => a.original /\ a.length \in 1..MaxRead,
         a.outcome \in {"done", "data"} /\ file[t] \in Path /\ Node[file[t]] \in Member
             => pos[t] + a.length <= Size[Node[file[t]]]
  PROVE  MountInv'
<1>1. /\ answer' = [answer EXCEPT ![t] = a] /\ want' = [want EXCEPT ![t] = Idle]
      /\ holder' = Nobody /\ step' = "enter" /\ tainted' = FALSE
      /\ \/ a.outcome \in {"done", "data"} /\ pos' = [pos EXCEPT ![t] = @ + a.length] /\ file' = file
         \/ pos' = [pos EXCEPT ![t] = 0] /\ file' = [file EXCEPT ![t] = Missing]
  BY DEF Finish
<1>2. Typed
  BY DEF MountInv
<1>3. Idle \in Call /\ Idle.op = "none"
  BY DEF Idle, Call
<1>4. want' \in [Thread -> Call] /\ want'[t] = Idle /\ \A u \in Thread \ {t} : want'[u] = want[u]
  BY <1>1, <1>2, <1>3 DEF Typed
<1>5. /\ answer' \in [Thread -> [outcome: Outcome, length: Nat, original: BOOLEAN]]
      /\ answer'[t] = a /\ \A u \in Thread \ {t} : answer'[u] = answer[u]
  BY <1>1, <1>2 DEF Typed
<1>6. /\ pos' \in [Thread -> Nat] /\ file' \in [Thread -> Path \cup {Missing}]
      /\ \A u \in Thread \ {t} : pos'[u] = pos[u] /\ file'[u] = file[u]
      /\ \/ a.outcome \in {"done", "data"} /\ pos'[t] = pos[t] + a.length /\ file'[t] = file[t]
         \/ pos'[t] = 0 /\ file'[t] = Missing
  <2>1. pos[t] \in Nat /\ a.length \in Nat /\ pos[t] + a.length \in Nat
    BY <1>2 DEF Typed
  <2>2. CASE a.outcome \in {"done", "data"} /\ pos' = [pos EXCEPT ![t] = @ + a.length] /\ file' = file
    BY <1>2, <2>1, <2>2 DEF Typed
  <2>3. CASE pos' = [pos EXCEPT ![t] = 0] /\ file' = [file EXCEPT ![t] = Missing]
    BY <1>2, <2>3 DEF Typed
  <2> QED BY <1>1, <2>2, <2>3
<1>7. Typed'
  BY <1>1, <1>2, <1>4, <1>5, <1>6 DEF Typed
<1>8. Tracked'
  <2> SUFFICES ASSUME NEW u \in Thread
               PROVE  /\ want'[u] # Idle => want'[u].path \in Path /\ want'[u].op # "none"
                      /\ want'[u].op \in {"open", "read"} =>
                             want'[u].path = file'[u] /\ want'[u].offset = pos'[u]
                      /\ file'[u] \in Path /\ Node[file'[u]] \in Member =>
                             pos'[u] <= Size[Node[file'[u]]]
    BY DEF Tracked
  <2>1. CASE u # t
    BY <1>4, <1>6, <2>1 DEF MountInv, Tracked
  <2>2. CASE u = t
    <3>1. \A m \in Member : 0 <= Size[m]
      BY SizeType
    <3> QED BY <1>3, <1>4, <1>6, <2>2, <3>1
  <2> QED BY <2>1, <2>2
<1>9. Locked' /\ Untainted'
  BY <1>1 DEF Locked, Untainted
<1>10. Answered'
  BY <1>5 DEF MountInv, Answered
<1>11. OnlyVerified'
  BY DEF MountInv, OnlyVerified, OnceEach
<1> QED BY <1>7, <1>8, <1>9, <1>10, <1>11 DEF MountInv

\* An outcome without data moves nobody.
LEMMA SayKeeps ==
  ASSUME MountInv, NEW t \in Thread, holder = t, NEW outcome \in Outcome, outcome # "data",
         Finish(t, Say(outcome)), cache' = cache, stamp' = stamp
  PROVE  MountInv'
<1>1. /\ Say(outcome) \in [outcome: Outcome, length: Nat, original: BOOLEAN]
      /\ Say(outcome).outcome = outcome /\ Say(outcome).length = 0
  BY DEF Say, NoAnswer
<1>2. file[t] \in Path /\ Node[file[t]] \in Member => pos[t] + Say(outcome).length <= Size[Node[file[t]]]
  <2>1. pos[t] \in Nat /\ pos[t] + 0 = pos[t]
    BY DEF MountInv, Typed
  <2> QED BY <1>1, <2>1 DEF MountInv, Tracked
<1> QED BY <1>1, <1>2, FinishKeeps

LEMMA EndsKeep ==
  ASSUME MountInv, NEW t \in Thread,
         \/ EndEarly(t) \/ TooLarge(t) \/ Discard(t)
         \/ \E outcome \in Outcome : DecodeFails(t, outcome)
  PROVE  MountInv'
<1>1. PICK outcome \in Outcome :
          /\ outcome # "data" /\ holder = t /\ Finish(t, Say(outcome))
          /\ cache' = cache /\ stamp' = stamp
  <2>1. CASE EndEarly(t)
    <3>1. Early(t) \in {"EROFS", "ESTALE", "ENOENT", "done", "ENOTDIR", "EISDIR", "end", "none"}
      BY DEF Early
    <3> QED BY <2>1, <3>1 DEF EndEarly, Outcome
  <2>2. CASE TooLarge(t)
    BY <2>2 DEF TooLarge, Outcome
  <2>3. CASE Discard(t)
    BY <2>3 DEF Discard, Outcome
  <2>4. ASSUME NEW o \in Outcome, DecodeFails(t, o)
        PROVE  /\ o # "data" /\ holder = t /\ Finish(t, Say(o))
               /\ cache' = cache /\ stamp' = stamp
    <3>1. /\ holder = t /\ step = "decode" /\ Finish(t, Say(o)) /\ cache' = cache /\ stamp' = stamp
          /\ IF stamp THEN o = Fault[Target(t)] /\ o # "none" ELSE o \in {"EIO", "ENOMEM", "EFAULT"}
      BY <2>4 DEF DecodeFails
    <3>2. Target(t) \in Member
      BY <3>1, NobodyIsNoThread DEF MountInv, Locked, Located
    <3> QED BY <3>1, <3>2, FaultType
  <2> QED BY <2>1, <2>2, <2>3, <2>4
<1> QED BY <1>1, SayKeeps

\* An answer is the next part of a verified original, and ends where the file does.
LEMMA ServeKeeps ==
  ASSUME MountInv, NEW t \in Thread, Serve(t)
  PROVE  MountInv'
<1> DEFINE m == Target(t)
           offset == want[t].offset
<1>1. holder = t /\ step = "serve" /\ cache' = cache /\ stamp' = stamp
  BY DEF Serve
<1>2. /\ want[t].op \in {"open", "read"} /\ m \in Member /\ m \in Held
      /\ want[t].op = "read" => offset < Size[m]
      /\ want[t] # Idle
  BY <1>1, NobodyIsNoThread DEF MountInv, Locked, Located
<1>3. CASE want[t].op = "open"
  <2>1. Finish(t, Say("done")) /\ "done" \in Outcome
    BY <1>3 DEF Serve, Outcome
  <2> QED BY <1>1, <2>1, SayKeeps
<1>4. CASE want[t].op = "read"
  <2>1. PICK size \in 1..(MaxRead + 1) :
            Finish(t, [outcome |-> "data",
                       length |-> Least(Least(size, MaxRead), Size[m] - offset),
                       original |-> Copy(m).original])
    BY <1>4 DEF Serve
  <2> DEFINE length == Least(Least(size, MaxRead), Size[m] - offset)
             a == [outcome |-> "data", length |-> length, original |-> Copy(m).original]
  <2>2. /\ Size[m] \in Nat /\ offset \in Nat /\ offset < Size[m] /\ MaxRead \in Nat \ {0}
        /\ size \in Nat \ {0}
    BY <1>2, <1>4, SizeType, LimitsArePositive DEF MountInv, Typed, Call
  <2>3. length \in 1..MaxRead /\ offset + length <= Size[m] /\ length \in Nat
    <3> HIDE DEF m, offset
    <3> QED BY <2>2 DEF Least
  <2>4. Copy(m).original = TRUE
    <3>1. \E f \in ToSet(cache) : f.member = m
      BY <1>2, CacheFacts DEF Held, MountInv
    <3>2. Copy(m) \in ToSet(cache)
      BY <3>1 DEF Copy
    <3>3. Copy(m).original \in BOOLEAN
      <4>1. Copy(m) \in Cached
        BY <3>2, CacheFacts DEF MountInv
      <4> QED BY <4>1 DEF Cached
    <3>4. Copy(m).original
      BY <3>2 DEF MountInv, OnlyVerified, OnceEach
    <3> QED BY <3>3, <3>4
  <2> HIDE DEF length
  <2>5. /\ a \in [outcome: Outcome, length: Nat, original: BOOLEAN]
        /\ a.outcome = "data" /\ a.original /\ a.length = length
    BY <2>3, <2>4 DEF Outcome
  <2>6. Finish(t, a)
    BY <2>1 DEF length
  <2>7. file[t] = want[t].path /\ pos[t] = offset /\ Node[file[t]] = m
    BY <1>2 DEF MountInv, Tracked, Target
  <2> HIDE DEF a, m, offset
  <2>8. pos[t] + a.length <= Size[Node[file[t]]] /\ a.length \in 1..MaxRead
    BY <2>3, <2>5, <2>7
  <2> QED BY <1>1, <2>5, <2>6, <2>8, FinishKeeps
<1> QED BY <1>2, <1>3, <1>4

-----------------------------------------------------------------------------
(***************************************************************************)
(* The threads and the archive.                                            *)
(***************************************************************************)

LEMMA RequestKeeps ==
  ASSUME MountInv, NEW t \in Thread, NEW op \in {"getattr", "readdir", "append", "open", "read"},
         NEW path \in Path, NEW offset \in Nat,
         Request(t, op, path, offset),
         file' \in [Thread -> Path \cup {Missing}], pos' \in [Thread -> Nat],
         \A u \in Thread \ {t} : file'[u] = file[u] /\ pos'[u] = pos[u],
         op \in {"open", "read"} => path = file'[t] /\ offset = pos'[t],
         file'[t] \in Path /\ Node[file'[t]] \in Member => pos'[t] <= Size[Node[file'[t]]]
  PROVE  MountInv'
<1> DEFINE call == [op |-> op, path |-> path, offset |-> offset]
<1>1. /\ want[t] = Idle /\ want' = [want EXCEPT ![t] = call]
      /\ answer' = [answer EXCEPT ![t] = NoAnswer]
      /\ cache' = cache /\ stamp' = stamp /\ holder' = holder /\ step' = step /\ tainted' = tainted
  BY DEF Request
<1>2. /\ call \in Call /\ call.op = op /\ call.path = path /\ call.offset = offset
      /\ call # Idle
  BY DEF Call, Idle
<1> HIDE DEF call
<1>3. Typed
  BY DEF MountInv
<1>4. want' \in [Thread -> Call] /\ want'[t] = call /\ \A u \in Thread \ {t} : want'[u] = want[u]
  BY <1>1, <1>2, <1>3 DEF Typed
<1>5. /\ NoAnswer \in [outcome: Outcome, length: Nat, original: BOOLEAN]
      /\ NoAnswer.outcome # "data"
  BY DEF NoAnswer, Outcome
<1>6. /\ answer' \in [Thread -> [outcome: Outcome, length: Nat, original: BOOLEAN]]
      /\ answer'[t] = NoAnswer /\ \A u \in Thread \ {t} : answer'[u] = answer[u]
  BY <1>1, <1>3, <1>5 DEF Typed
<1>7. Typed'
  BY <1>1, <1>3, <1>4, <1>6 DEF Typed
<1>8. Tracked'
  <2> SUFFICES ASSUME NEW u \in Thread
               PROVE  /\ want'[u] # Idle => want'[u].path \in Path /\ want'[u].op # "none"
                      /\ want'[u].op \in {"open", "read"} =>
                             want'[u].path = file'[u] /\ want'[u].offset = pos'[u]
                      /\ file'[u] \in Path /\ Node[file'[u]] \in Member =>
                             pos'[u] <= Size[Node[file'[u]]]
    BY DEF Tracked
  <2>1. CASE u # t
    BY <1>4, <2>1 DEF MountInv, Tracked
  <2>2. CASE u = t
    BY <1>2, <1>4, <2>2
  <2> QED BY <2>1, <2>2
<1>9. Locked'
  <2>1. CASE holder = Nobody
    BY <1>1, <2>1 DEF MountInv, Locked
  <2>2. CASE holder # Nobody
    <3>1. holder \in Thread /\ holder # t
      BY <1>1, <2>2 DEF MountInv, Locked, Typed
    <3>2. want'[holder] = want[holder] /\ Held' = Held
      BY <1>1, <1>4, <3>1 DEF Held
    <3>3. Target(holder)' = Target(holder)
      BY <1>1, <3>2 DEF Target
    <3>4. Located' <=> Located
      BY <1>1, <3>2, <3>3 DEF Located
    <3> QED BY <1>1, <2>2, <3>2, <3>4 DEF MountInv, Locked
  <2> QED BY <2>1, <2>2
<1>10. Untainted' /\ OnlyVerified'
  BY <1>1 DEF MountInv, Untainted, OnlyVerified, OnceEach
<1>11. Answered'
  BY <1>5, <1>6 DEF MountInv, Answered
<1> QED BY <1>7, <1>8, <1>9, <1>10, <1>11 DEF MountInv

LEMMA AsksKeep ==
  ASSUME MountInv, NEW t \in Thread, NEW p \in Path,
         \/ Look(t, "getattr", p) \/ Look(t, "readdir", p) \/ Look(t, "append", p)
         \/ Start(t, p)
  PROVE  MountInv'
<1>1. /\ file \in [Thread -> Path \cup {Missing}] /\ pos \in [Thread -> Nat]
      /\ file[t] \in Path /\ Node[file[t]] \in Member => pos[t] <= Size[Node[file[t]]]
  BY DEF MountInv, Typed, Tracked
<1>2. ASSUME NEW op \in {"getattr", "readdir", "append"}, Look(t, op, p) PROVE MountInv'
  <2>1. Request(t, op, p, 0) /\ file' = file /\ pos' = pos
    BY <1>2 DEF Look
  <2>2. op \notin {"open", "read"} /\ op \in {"getattr", "readdir", "append", "open", "read"}
    OBVIOUS
  <2> QED BY <1>1, <2>1, <2>2, RequestKeeps
<1>3. CASE Start(t, p)
  <2>1. /\ Request(t, "open", p, 0) /\ file' = [file EXCEPT ![t] = p]
        /\ pos' = [pos EXCEPT ![t] = 0]
    BY <1>3 DEF Start
  <2>2. /\ file' \in [Thread -> Path \cup {Missing}] /\ pos' \in [Thread -> Nat]
        /\ file'[t] = p /\ pos'[t] = 0
        /\ \A u \in Thread \ {t} : file'[u] = file[u] /\ pos'[u] = pos[u]
    BY <1>1, <2>1
  <2>3. Node[p] \in Member => 0 <= Size[Node[p]]
    BY SizeType
  <2> QED BY <2>1, <2>2, <2>3, RequestKeeps
<1> QED BY <1>2, <1>3

LEMMA ContinueKeeps ==
  ASSUME MountInv, NEW t \in Thread, Continue(t)
  PROVE  MountInv'
<1>1. file[t] # Missing /\ Request(t, "read", file[t], pos[t]) /\ file' = file /\ pos' = pos
  BY DEF Continue
<1>2. /\ file \in [Thread -> Path \cup {Missing}] /\ pos \in [Thread -> Nat]
      /\ file[t] \in Path /\ Node[file[t]] \in Member => pos[t] <= Size[Node[file[t]]]
  BY DEF MountInv, Typed, Tracked
<1>3. file[t] \in Path /\ pos[t] \in Nat
  BY <1>1, <1>2
<1> QED BY <1>1, <1>2, <1>3, RequestKeeps

LEMMA LockKeeps ==
  ASSUME MountInv, NEW t \in Thread, Lock(t)
  PROVE  MountInv'
<1>1. /\ want[t] # Idle /\ holder' = t /\ step' = "enter" /\ cache' = cache /\ stamp' = stamp
      /\ tainted' = tainted /\ want' = want /\ answer' = answer /\ file' = file /\ pos' = pos
  BY DEF Lock, reader
<1>2. Typed' /\ Tracked' /\ Answered' /\ OnlyVerified' /\ Untainted'
  BY <1>1 DEF MountInv, Typed, Tracked, Answered, OnlyVerified, OnceEach, Untainted
<1>3. Locked'
  BY <1>1, NobodyIsNoThread DEF Locked
<1> QED BY <1>2, <1>3 DEF MountInv

LEMMA ChangeKeeps ==
  ASSUME MountInv, ArchiveChanges
  PROVE  MountInv'
<1>1. /\ stamp' = FALSE /\ UNCHANGED <<cache, holder, step, tainted, want, answer, file, pos>>
  BY DEF ArchiveChanges, reader
<1>2. Typed' /\ Tracked' /\ Answered' /\ OnlyVerified' /\ Untainted'
  BY <1>1 DEF MountInv, Typed, Tracked, Answered, OnlyVerified, OnceEach, Untainted
<1>3. Locked'
  BY <1>1 DEF MountInv, Locked, Located, Target, Held
<1> QED BY <1>2, <1>3 DEF MountInv

-----------------------------------------------------------------------------
(***************************************************************************)
(* Every run.                                                              *)
(***************************************************************************)

LEMMA InitMount == Init => MountInv
<1> SUFFICES ASSUME Init PROVE MountInv
  OBVIOUS
<1> USE DEF Init
<1>1. Idle \in Call /\ NoAnswer \in [outcome: Outcome, length: Nat, original: BOOLEAN]
  BY DEF Idle, Call, NoAnswer, Outcome
<1>2. Idle.op = "none" /\ NoAnswer.outcome = "none"
  BY DEF Idle, NoAnswer
<1>3. cache \in Seq(Cached) /\ ToSet(cache) = {} /\ DOMAIN cache = {}
  BY DEF ToSet
<1>4. Typed
  BY <1>1, <1>3 DEF Typed
<1>5. Tracked
  <2>1. \A m \in Member : 0 <= Size[m]
    BY SizeType
  <2> QED BY <1>2, <2>1 DEF Tracked
<1>6. Locked /\ Untainted
  BY DEF Locked, Untainted
<1>7. Answered /\ OnlyVerified
  BY <1>2, <1>3 DEF Answered, OnlyVerified, OnceEach
<1> QED BY <1>4, <1>5, <1>6, <1>7 DEF MountInv

LEMMA NextKeeps ==
  ASSUME MountInv, [Next]_vars
  PROVE  MountInv'
<1>1. ASSUME NEW t \in Thread, NEW p \in Path,
             \/ Look(t, "getattr", p) \/ Look(t, "readdir", p) \/ Look(t, "append", p)
             \/ Start(t, p)
      PROVE  MountInv'
  BY <1>1, AsksKeep
<1>2. ASSUME NEW t \in Thread, Continue(t) \/ Lock(t) PROVE MountInv'
  BY <1>2, ContinueKeeps, LockKeeps
<1>3. ASSUME NEW t \in Thread, Inside(t) PROVE MountInv'
  BY <1>3, EndsKeep, HitKeeps, MissKeeps, EvictKeeps, DecodeKeeps, InsertKeeps, ServeKeeps
     DEF Inside
<1>4. CASE ArchiveChanges
  BY <1>4, ChangeKeeps
<1>5. CASE UNCHANGED vars
  BY <1>5 DEF vars, MountInv, Typed, Tracked, Locked, Located, Target, Held, Untainted,
              Answered, OnlyVerified, OnceEach
<1> QED BY <1>1, <1>2, <1>3, <1>4, <1>5 DEF Next

LEMMA Mounts == Spec => []MountInv
<1>1. Init => MountInv
  BY InitMount
<1>2. MountInv /\ [Next]_vars => MountInv'
  BY NextKeeps
<1> QED BY <1>1, <1>2, PTL DEF Spec

\* Only verified files of the unchanged archive are in the cache, once each
\* (_decoded of _mount.py, which looks at the archive again after the decode).
THEOREM Verified == Spec => []OnlyVerified
<1>1. MountInv => OnlyVerified
  BY DEF MountInv
<1> QED BY <1>1, Mounts, PTL

\* A thread that reads to the end has had every byte once, all of them original
\* (read of _mount.py).
THEOREM WholeFiles == Spec => []ReadsWholeFile
<1>1. MountInv => ReadsWholeFile
  <2> SUFFICES ASSUME MountInv, NEW t \in Thread, holder = t, step = "enter",
                      want[t].op = "read", Early(t) = "end"
               PROVE  pos[t] = Size[Target(t)]
    BY DEF ReadsWholeFile, MountInv, Answered
  <2>1. want[t] # Idle
    BY DEF Idle
  <2>2. /\ want[t].path \in Path /\ want[t].path = file[t] /\ want[t].offset = pos[t]
        /\ pos[t] \in Nat
    BY <2>1 DEF MountInv, Typed, Tracked
  <2>3. Target(t) \in Member \cup {Folder, Missing}
    BY <2>2, NodeType DEF Target
  <2>4. Target(t) # Missing /\ Target(t) # Folder /\ want[t].offset >= Size[Target(t)]
    BY DEF Early
  <2>5. Target(t) \in Member /\ Size[Target(t)] \in Nat
    BY <2>3, <2>4, SizeType
  <2>6. pos[t] <= Size[Target(t)]
    BY <2>2, <2>5 DEF MountInv, Tracked, Target
  <2> QED BY <2>2, <2>4, <2>5, <2>6
<1> QED BY <1>1, Mounts, PTL

-----------------------------------------------------------------------------
(***************************************************************************)
(* The limits.                                                             *)
(***************************************************************************)

\* What a file to be decoded will take is free before it is decoded, and stays
\* free until it is inserted.
Spacious ==
    /\ written \in Nat
    /\ IsFiniteSet(Blocks(Held))
    /\ cachedBytes = Cardinality(Blocks(Held))
    /\ cachedBytes <= CacheBytes
    /\ Len(cache) <= CacheEntries
    /\ step \in {"enter", "evict", "serve"} => written = 0
    /\ step \in {"evict", "decode", "insert"} => Size[Target(holder)] <= CacheBytes
    /\ step \in {"decode", "insert"} =>
          /\ cachedBytes + Size[Target(holder)] <= CacheBytes
          /\ Len(cache) < CacheEntries
          /\ stamp => written <= Size[Target(holder)]
          /\ written <= CacheBytes

\* A file that is not among the others adds its own blocks.
LEMMA AddBlocks ==
  ASSUME NEW S \in SUBSET Member, NEW m \in Member \ S, IsFiniteSet(Blocks(S))
  PROVE  /\ IsFiniteSet(Blocks(S \cup {m}))
         /\ Cardinality(Blocks(S \cup {m})) = Cardinality(Blocks(S)) + Size[m]
<1> DEFINE own == {m} \X (1..Size[m])
           others == Blocks(S)
           f == [k \in 1..Size[m] |-> <<m, k>>]
<1>1. Size[m] \in Nat
  BY SizeType
<1>2. IsFiniteSet(1..Size[m]) /\ Cardinality(1..Size[m]) = Size[m]
  BY <1>1, FS_Interval
<1>3. f \in Bijection(1..Size[m], own)
  BY DEF Bijection, Injection, Surjection, IsInjective
<1>4. ExistsBijection(1..Size[m], own)
  BY <1>3 DEF ExistsBijection
<1>5. IsFiniteSet(own) /\ Cardinality(own) = Size[m]
  BY <1>2, <1>4, FS_Bijection
<1>6. Blocks(S \cup {m}) = others \cup own
  BY DEF Blocks
<1>7. others \cap own = {}
  BY DEF Blocks
<1>8. IsFiniteSet(others)
  OBVIOUS
<1> HIDE DEF own, others
<1>9. /\ IsFiniteSet(others \cup own)
      /\ Cardinality(others \cup own)
             = Cardinality(others) + Cardinality(own) - Cardinality(others \cap own)
  BY <1>5, <1>8, FS_Union
<1>10. Cardinality(others) \in Nat /\ Cardinality(others \cap own) = 0
  BY <1>7, <1>8, FS_CardinalityType, FS_EmptySet
<1>11. Cardinality(others \cup own) = Cardinality(others) + Size[m]
  BY <1>1, <1>5, <1>9, <1>10
<1> QED BY <1>6, <1>9, <1>11 DEF others

LEMMA HeldMembers ==
  ASSUME MountInv
  PROVE  Held \subseteq Member /\ Len(cache) \in Nat
BY CacheFacts DEF MountInv, Held, Cached

\* The sizes are numbers wherever the limits compare them.
LEMMA SpaciousTypes ==
  ASSUME MountInv, Spacious
  PROVE  /\ written \in Nat /\ cachedBytes \in Nat /\ Len(cache) \in Nat
         /\ CacheBytes \in Nat \ {0} /\ CacheEntries \in Nat \ {0}
         /\ step # "enter" => Target(holder) \in Member /\ Size[Target(holder)] \in Nat
<1>1. cachedBytes \in Nat
  BY FS_CardinalityType DEF Spacious
<1>2. step # "enter" => Target(holder) \in Member
  BY DEF MountInv, Locked, Located
<1> QED BY <1>1, <1>2, HeldMembers, SizeType, LimitsArePositive DEF Spacious

\* Evicting takes the blocks of the file evicted.
LEMMA EvictSpace ==
  ASSUME MountInv, Spacious, NEW t \in Thread, Evict(t)
  PROVE  Spacious'
<1> DEFINE m == Head(cache).member
           n == Len(cache)
<1>1. /\ holder = t /\ step = "evict" /\ step' = "evict" /\ cache # <<>> /\ cache' = Tail(cache)
      /\ cachedBytes' = cachedBytes - Size[m] /\ written' = written /\ holder' = holder
      /\ want' = want
  BY DEF Evict, Crowded, reader
<1>2. n \in Nat /\ n >= 1 /\ DOMAIN cache = 1..n /\ cache \in Seq(Cached)
  BY <1>1 DEF MountInv, Typed
<1>3. /\ Len(cache') = n - 1 /\ DOMAIN cache' = 1..(n - 1)
      /\ \A i \in 1..(n - 1) : cache'[i] = cache[i + 1]
      /\ m = cache[1].member
  BY <1>1, <1>2
<1> HIDE DEF m, n
<1>4. m \in Held /\ m \in Member
  BY <1>2, <1>3, HeldMembers DEF Held
<1>5. m \notin Held'
  <2> SUFFICES ASSUME NEW i \in 1..(n - 1), cache'[i].member = m PROVE FALSE
    BY <1>3 DEF Held
  <2>1. i + 1 \in 1..n /\ 1 \in 1..n /\ cache[i + 1].member = cache[1].member
    BY <1>2, <1>3
  <2>2. i + 1 = 1
    BY <1>2, <2>1 DEF MountInv, OnlyVerified, OnceEach
  <2> QED BY <1>2, <2>2
<1>6. Held = Held' \cup {m}
  <2>1. Held' \subseteq Held
    <3> SUFFICES ASSUME NEW i \in 1..(n - 1) PROVE cache'[i].member \in Held
      BY <1>3 DEF Held
    <3>1. i + 1 \in 1..n
      BY <1>2
    <3> QED BY <1>2, <1>3, <3>1 DEF Held
  <2>2. Held \subseteq Held' \cup {m}
    <3> SUFFICES ASSUME NEW i \in 1..n PROVE cache[i].member \in Held' \cup {m}
      BY <1>2 DEF Held
    <3>1. CASE i = 1
      BY <1>3, <3>1
    <3>2. CASE i # 1
      <4>1. i - 1 \in 1..(n - 1) /\ (i - 1) + 1 = i
        BY <1>2, <3>2
      <4>2. cache'[i - 1] = cache[i]
        BY <1>3, <4>1
      <4> QED BY <1>3, <4>1, <4>2 DEF Held
    <3> QED BY <3>1, <3>2
  <2> QED BY <1>4, <2>1, <2>2
<1>7. IsFiniteSet(Blocks(Held'))
  <2>1. Blocks(Held') \subseteq Blocks(Held)
    BY <1>6 DEF Blocks
  <2> QED BY <2>1, FS_Subset DEF Spacious
<1>8. cachedBytes = Cardinality(Blocks(Held')) + Size[m]
  <2>1. Held' \in SUBSET Member /\ m \in Member \ Held'
    BY <1>4, <1>5, <1>6, HeldMembers
  <2>2. Cardinality(Blocks(Held' \cup {m})) = Cardinality(Blocks(Held')) + Size[m]
    BY <1>7, <2>1, AddBlocks
  <2> QED BY <1>6, <2>2 DEF Spacious
<1>9. Size[m] \in Nat /\ Cardinality(Blocks(Held')) \in Nat
  BY <1>4, <1>7, SizeType, FS_CardinalityType
<1>10. cachedBytes' = Cardinality(Blocks(Held')) /\ cachedBytes' <= CacheBytes
  BY <1>1, <1>8, <1>9, SpaciousTypes DEF Spacious
<1>11. Len(cache') <= CacheEntries
  BY <1>2, <1>3, SpaciousTypes DEF Spacious, n
<1>12. Target(holder)' = Target(holder)
  BY <1>1 DEF Target
<1> QED BY <1>1, <1>7, <1>10, <1>11, <1>12 DEF Spacious, Blocks

\* When nothing crowds the cache any more, or nothing is left to evict, there is room.
LEMMA BeginSpace ==
  ASSUME MountInv, Spacious, NEW t \in Thread, BeginDecode(t)
  PROVE  Spacious'
<1>1. /\ holder = t /\ step = "evict" /\ step' = "decode" /\ ~Crowded(Target(t))
      /\ UNCHANGED <<cache, cachedBytes, holder, written, want>>
  BY DEF BeginDecode, reader
<1>2. Target(holder)' = Target(holder) /\ Held' = Held
  BY <1>1 DEF Target, Held
<1>3. cachedBytes + Size[Target(holder)] <= CacheBytes /\ Len(cache) < CacheEntries
  <2>1. CASE cache = <<>>
    <3>1. Blocks(Held) = {} /\ Len(cache) = 0
      BY <2>1 DEF Held, Blocks
    <3>2. cachedBytes = 0
      BY <3>1, FS_EmptySet DEF Spacious
    <3> QED BY <1>1, <3>1, <3>2, SpaciousTypes DEF Spacious
  <2>2. CASE cache # <<>>
    BY <1>1, <2>2, SpaciousTypes DEF Crowded
  <2> QED BY <2>1, <2>2
<1>4. /\ written = 0 /\ 0 <= Size[Target(holder)] /\ Size[Target(holder)] <= CacheBytes
      /\ written <= CacheBytes
  BY <1>1, SpaciousTypes DEF Spacious
<1> QED BY <1>1, <1>2, <1>3, <1>4 DEF Spacious, Blocks

LEMMA DecodeSpace ==
  ASSUME MountInv, Spacious, NEW t \in Thread, Decode(t)
  PROVE  Spacious'
<1>1. /\ holder = t /\ step = "decode" /\ step' = "decode" /\ written' = written + 1
      /\ written < (IF stamp THEN Size[Target(t)] ELSE CacheBytes)
      /\ UNCHANGED <<cache, cachedBytes, stamp, holder, want>>
  BY DEF Decode, MountInv, Locked, Located, reader
<1>2. Target(holder)' = Target(holder) /\ Held' = Held
  BY <1>1 DEF Target, Held
<1>3. /\ written' \in Nat /\ (stamp => written' <= Size[Target(holder)])
      /\ written' <= CacheBytes
  BY <1>1, SpaciousTypes DEF Spacious
<1> QED BY <1>1, <1>2, <1>3 DEF Spacious, Blocks

\* Inserting takes the blocks that were free.
LEMMA InsertSpace ==
  ASSUME MountInv, Spacious, NEW t \in Thread, Insert(t)
  PROVE  Spacious'
<1> DEFINE m == Target(t)
           g == [member |-> m, original |-> ~tainted]
<1>1. /\ holder = t /\ step = "insert" /\ stamp /\ step' = "serve" /\ written' = 0
      /\ cache' = Append(cache, g) /\ cachedBytes' = cachedBytes + Size[m]
      /\ UNCHANGED <<holder, want>>
  BY DEF Insert, Keep, reader
<1>2. m \in Member /\ m \notin Held /\ Fault[m] = "none" /\ ~tainted /\ tainted \in BOOLEAN
  BY <1>1, NobodyIsNoThread DEF MountInv, Locked, Located, Typed, Untainted
<1>3. g \in Cached /\ g.member = m /\ g.original
  BY <1>2 DEF Cached
<1> HIDE DEF g, m
<1>4. Held' = Held \cup {m}
  BY <1>1, <1>2, <1>3, AddKeeps DEF MountInv
<1>5. Len(cache') = Len(cache) + 1
  BY <1>1, <1>3 DEF MountInv, Typed
<1>6. /\ IsFiniteSet(Blocks(Held \cup {m}))
      /\ Cardinality(Blocks(Held \cup {m})) = cachedBytes + Size[m]
  <2>1. Held \in SUBSET Member /\ m \in Member \ Held /\ IsFiniteSet(Blocks(Held))
    BY <1>2, HeldMembers DEF Spacious
  <2> QED BY <2>1, AddBlocks DEF Spacious
<1>7. cachedBytes' <= CacheBytes /\ Len(cache') <= CacheEntries
  BY <1>1, <1>5, SpaciousTypes DEF Spacious, m
<1>8. IsFiniteSet(Blocks(Held')) /\ cachedBytes' = Cardinality(Blocks(Held'))
  BY <1>1, <1>4, <1>6
<1>9. IsFiniteSet(Blocks(Held)') /\ cachedBytes' = Cardinality(Blocks(Held))'
  BY <1>8 DEF Blocks
<1> QED BY <1>1, <1>7, <1>9 DEF Spacious

\* A step that neither fills nor empties the cache, and takes no room in it.
LEMMA SameSpace ==
  ASSUME MountInv, Spacious, Held' = Held, Len(cache') = Len(cache),
         cachedBytes' = cachedBytes, written' = 0, step' \in {"enter", "serve"}
  PROVE  Spacious'
BY DEF Spacious, Blocks

LEMMA OtherSpace ==
  ASSUME MountInv, Spacious, NEW t \in Thread,
         \/ EndEarly(t) \/ Hit(t) \/ TooLarge(t) \/ Miss(t) \/ Discard(t) \/ Serve(t)
         \/ DecodeEnds(t)
         \/ \E outcome \in Outcome : DecodeFails(t, outcome)
  PROVE  Spacious'
<1>1. CASE \/ EndEarly(t) \/ TooLarge(t) \/ Discard(t) \/ Serve(t)
           \/ \E outcome \in Outcome : DecodeFails(t, outcome)
  <2>1. cache' = cache /\ cachedBytes' = cachedBytes /\ written' = 0 /\ step' = "enter"
    BY <1>1 DEF EndEarly, TooLarge, Discard, Serve, DecodeFails, Finish
  <2>2. Held' = Held
    BY <2>1 DEF Held
  <2> QED BY <2>1, <2>2, SameSpace
<1>2. CASE Hit(t)
  <2>1. /\ step = "enter" /\ Touch(Target(t)) /\ step' = "serve"
        /\ cachedBytes' = cachedBytes /\ written' = written
    BY <1>2 DEF Hit
  <2>2. Held' = Held /\ Len(cache') = Len(cache)
    BY <2>1, TouchKeeps DEF MountInv
  <2>3. written' = 0
    BY <2>1 DEF Spacious
  <2> QED BY <2>1, <2>2, <2>3, SameSpace
<1>3. CASE Miss(t)
  <2>1. /\ holder = t /\ step = "enter" /\ step' = "evict" /\ Size[Target(t)] <= CacheBytes
        /\ UNCHANGED <<cache, cachedBytes, stamp, holder, written, want>>
    BY <1>3 DEF Miss, reader
  <2>2. Target(holder)' = Target(t) /\ Held' = Held
    BY <2>1 DEF Target, Held
  <2> QED BY <2>1, <2>2 DEF Spacious, Blocks
<1>4. CASE DecodeEnds(t)
  <2>1. /\ holder = t /\ step = "decode" /\ step' = "insert"
        /\ UNCHANGED <<cache, cachedBytes, stamp, holder, written, want>>
    BY <1>4 DEF DecodeEnds, reader
  <2>2. Target(holder)' = Target(holder) /\ Held' = Held
    BY <2>1 DEF Target, Held
  <2> QED BY <2>1, <2>2 DEF Spacious, Blocks
<1> QED BY <1>1, <1>2, <1>3, <1>4

\* What other threads ask for does not touch the cache.
LEMMA OutsideSpace ==
  ASSUME MountInv, Spacious, NEW t \in Thread,
         \/ \E p \in Path : \/ Look(t, "getattr", p) \/ Look(t, "readdir", p)
                            \/ Look(t, "append", p) \/ Start(t, p)
         \/ Continue(t) \/ Lock(t)
  PROVE  Spacious'
<1>1. CASE \/ \E p \in Path : \/ Look(t, "getattr", p) \/ Look(t, "readdir", p)
                              \/ Look(t, "append", p) \/ Start(t, p)
           \/ Continue(t)
  <2>1. PICK op, path, offset : Request(t, op, path, offset)
    BY <1>1 DEF Look, Start, Continue
  <2>2. /\ want[t] = Idle /\ UNCHANGED <<cache, cachedBytes, stamp, holder, step, written>>
        /\ want' = [want EXCEPT ![t] = [op |-> op, path |-> path, offset |-> offset]]
    BY <2>1 DEF Request
  <2>3. Held' = Held
    BY <2>2 DEF Held
  <2>4. step # "enter" => Target(holder)' = Target(holder)
    <3> SUFFICES ASSUME step # "enter" PROVE Target(holder)' = Target(holder)
      OBVIOUS
    <3>1. holder # t /\ holder \in Thread /\ want \in [Thread -> Call]
      BY <2>2 DEF MountInv, Locked, Typed
    <3>2. want'[holder] = want[holder]
      BY <2>2, <3>1
    <3> QED BY <2>2, <3>2 DEF Target
  <2> QED BY <2>2, <2>3, <2>4 DEF Spacious, Blocks
<1>2. CASE Lock(t)
  <2>1. /\ holder = Nobody /\ step' = "enter" /\ UNCHANGED <<cache, cachedBytes, stamp, written>>
    BY <1>2 DEF Lock
  <2>2. step = "enter" /\ Held' = Held
    BY <2>1 DEF MountInv, Locked, Held
  <2>3. written' = 0
    BY <2>1, <2>2 DEF Spacious
  <2> QED BY <2>1, <2>2, <2>3, SameSpace
<1> QED BY <1>1, <1>2

LEMMA NextSpace ==
  ASSUME MountInv, Spacious, [Next]_vars
  PROVE  Spacious'
<1>1. CASE UNCHANGED vars
  <2>1. UNCHANGED <<cache, cachedBytes, stamp, holder, step, written, want>>
    BY <1>1 DEF vars
  <2>2. Target(holder)' = Target(holder) /\ Held' = Held
    BY <2>1 DEF Target, Held
  <2> QED BY <2>1, <2>2 DEF Spacious, Blocks
<1>2. CASE ArchiveChanges
  <2>1. stamp' = FALSE /\ UNCHANGED <<cache, cachedBytes, holder, step, written, want>>
    BY <1>2 DEF ArchiveChanges, reader
  <2>2. Target(holder)' = Target(holder) /\ Held' = Held
    BY <2>1 DEF Target, Held
  <2> QED BY <2>1, <2>2 DEF Spacious, Blocks
<1>3. ASSUME NEW t \in Thread,
             \/ \E p \in Path : \/ Look(t, "getattr", p) \/ Look(t, "readdir", p)
                                \/ Look(t, "append", p) \/ Start(t, p)
             \/ Continue(t) \/ Lock(t)
      PROVE  Spacious'
  BY <1>3, OutsideSpace
<1>4. ASSUME NEW t \in Thread, Inside(t) PROVE Spacious'
  BY <1>4, OtherSpace, EvictSpace, BeginSpace, DecodeSpace, InsertSpace DEF Inside
<1> QED BY <1>1, <1>2, <1>3, <1>4 DEF Next

LEMMA InitSpace == Init => Spacious
<1> SUFFICES ASSUME Init PROVE Spacious
  OBVIOUS
<1>1. Blocks(Held) = {} /\ Len(cache) = 0
  BY DEF Init, Held, Blocks
<1>2. cachedBytes = 0 /\ written = 0 /\ step = "enter"
  BY DEF Init
<1> QED BY <1>1, <1>2, FS_EmptySet, LimitsArePositive DEF Spacious

\* The cache, the file being decoded included, stays within its limits as long as
\* the archive does not change, and cached_bytes counts the cached files (_decoded of
\* _mount.py, which evicts before it decodes and inserts after).
THEOREM Bounded == Spec => []DiskBounded
<1>1. Init => MountInv /\ Spacious
  BY InitMount, InitSpace
<1>2. MountInv /\ Spacious /\ [Next]_vars => MountInv' /\ Spacious'
  BY NextKeeps, NextSpace
<1>3. MountInv /\ Spacious => DiskBounded
  <2> SUFFICES ASSUME MountInv, Spacious PROVE DiskBounded
    OBVIOUS
  <2>1. TypeOK
    BY SpaciousTypes DEF MountInv, Typed, TypeOK
  <2>2. stamp => cachedBytes + written <= CacheBytes
    <3>1. CASE step \in {"enter", "evict", "serve"}
      BY <3>1, SpaciousTypes DEF Spacious
    <3>2. CASE step \in {"decode", "insert"}
      BY <3>2, SpaciousTypes DEF Spacious
    <3> QED BY <3>1, <3>2 DEF MountInv, Typed
  <2> QED BY <2>1, <2>2 DEF DiskBounded, Spacious, MountInv, OnlyVerified
<1> QED BY <1>1, <1>2, <1>3, PTL DEF Spec

\* The call inside the lock has only so many steps left, and each takes one of them:
\* evictions, then the blocks to decode, then the insertion and the answer (_decoded
\* of _mount.py, whose loop evicts until the file fits).
THEOREM CallsShorten == Spec => [][Nearer]_vars
<1>1. Init => MountInv /\ Spacious
  BY InitMount, InitSpace
<1>2. MountInv /\ Spacious /\ [Next]_vars => MountInv' /\ Spacious'
  BY NextKeeps, NextSpace
<1>3. MountInv /\ Spacious => Nearer
  <2> SUFFICES ASSUME MountInv, Spacious, NEW t \in Thread, Inside(t), holder' # Nobody
               PROVE  Distance' < Distance
    BY DEF Nearer
  <2>1. /\ written \in Nat /\ Len(cache) \in Nat
        /\ CacheBytes \in Nat \ {0} /\ CacheEntries \in Nat \ {0} /\ Len(cache) <= CacheEntries
    BY SpaciousTypes DEF Spacious
  <2>2. CASE Hit(t)
    <3>1. step = "enter" /\ step' = "serve"
      BY <2>2 DEF Hit
    <3> QED BY <2>1, <3>1 DEF Distance
  <2>3. CASE Miss(t)
    <3>1. step = "enter" /\ step' = "evict" /\ cache' = cache
      BY <2>3 DEF Miss
    <3> QED BY <2>1, <3>1 DEF Distance
  <2>4. CASE Evict(t)
    <3>1. step = "evict" /\ step' = "evict" /\ cache # <<>> /\ cache' = Tail(cache)
      BY <2>4 DEF Evict, Crowded
    <3>2. Len(cache') = Len(cache) - 1
      BY <3>1 DEF MountInv, Typed
    <3> QED BY <2>1, <3>1, <3>2 DEF Distance
  <2>5. CASE BeginDecode(t)
    <3>1. step = "evict" /\ step' = "decode" /\ written' = written
      BY <2>5 DEF BeginDecode
    <3>2. written = 0
      BY <3>1 DEF Spacious
    <3> QED BY <2>1, <3>1, <3>2 DEF Distance
  <2>6. CASE Decode(t)
    <3>1. step = "decode" /\ step' = "decode" /\ written' = written + 1
      BY <2>6 DEF Decode, MountInv, Locked, Located
    <3> QED BY <2>1, <3>1 DEF Distance
  <2>7. CASE DecodeEnds(t)
    <3>1. step = "decode" /\ step' = "insert"
      BY <2>7 DEF DecodeEnds
    <3>2. written <= CacheBytes
      BY <3>1 DEF Spacious
    <3> QED BY <2>1, <3>1, <3>2 DEF Distance
  <2>8. CASE Insert(t)
    <3>1. step = "insert" /\ step' = "serve"
      BY <2>8 DEF Insert, Keep
    <3> QED BY <3>1 DEF Distance
  <2>9. CASE \/ EndEarly(t) \/ TooLarge(t) \/ Discard(t) \/ Serve(t)
             \/ \E outcome \in Outcome : DecodeFails(t, outcome)
    BY <2>9 DEF EndEarly, TooLarge, Discard, Serve, DecodeFails, Finish
  <2> QED BY <2>2, <2>3, <2>4, <2>5, <2>6, <2>7, <2>8, <2>9 DEF Inside
<1> QED BY <1>1, <1>2, <1>3, PTL DEF Spec

=============================================================================
