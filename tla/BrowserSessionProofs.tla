------------------------ MODULE BrowserSessionProofs ------------------------
(***************************************************************************)
(* What the browser reader shows, saves and lets the user do is right for  *)
(* any number of archives, entries and requests.                           *)
(*                                                                         *)
(* The invariant says what the page cannot see: that only its own worker   *)
(* runs, on the job that is pending, and that a late reply is either of an *)
(* earlier job or true of the archive on show.                             *)
(***************************************************************************)
EXTENDS BrowserSession, TLAPS

-----------------------------------------------------------------------------
(***************************************************************************)
(* The inductive invariant.                                                *)
(***************************************************************************)

\* The replies of worker w that are on their way.
Letters(w) == {mail[w][i] : i \in DOMAIN mail[w]}

\* The bounds of the counters, which the guards of Send and ChooseSample imply.
Counted ==
    /\ started <= serial
    /\ worker <= started
    /\ epoch + (IF pending = NoJob THEN 0 ELSE 1) <= MaxJobs + 2 * serial
    /\ \A t \in fetching : t <= epoch /\ t < MaxJobs

\* A pending job is the last one sent, its time has not passed, and it is about
\* the archive that the page shows or is opening.
PendingCurrent ==
    pending # NoJob =>
        /\ pending.id = serial
        /\ pending.token = epoch
        /\ epoch \notin fetching
        /\ worker # 0
        /\ IF pending.action = "open"
           THEN shown = None /\ checks = Unchecked /\ pending.file \in Archive
           ELSE shown # None /\ pending.file = shown
        /\ pending.action = "read" => \E e \in Entry : pending.over = {e}

\* Only the page's own worker runs, only on what is pending, and with the archive
\* on show; a ZIP holds what passed.
WorkerCurrent ==
    /\ alive \subseteq {worker}
    /\ \A w \in alive : task[w] # NoJob => task[w] = pending
    /\ worker # 0 /\ shown # None => opened[worker] = shown
    /\ \A w \in alive : task[w].action = "zip"
                            => task[w].over \ left[w] \subseteq Sound[pending.file]

\* What an expected reply says of the entries of the archive is true.
TrueLetter(r) ==
    /\ r.kind # "progress" => \A w \in alive : task[w] = NoJob
    /\ IF pending.action = "open"
       THEN /\ r.kind # "progress"
            /\ r.kind = "result" => opened[worker] = pending.file
       ELSE /\ r.kind # "error" => r.sound = r.over \cap Sound[pending.file]
            /\ r.kind = "result" /\ pending.action \in {"read", "zip"}
                   => r.sound = r.over /\ r.of = pending.file
            /\ r.kind = "error" /\ pending.action = "read"
                   => pending.over \cap Sound[pending.file] = {}

LettersTrue ==
    \A w \in Worker : \A r \in Letters(w) :
        /\ r.id <= serial
        /\ pending # NoJob /\ r.id = pending.id => TrueLetter(r)

SessionInv ==
    /\ TypeOK
    /\ Counted
    /\ PendingCurrent
    /\ WorkerCurrent
    /\ LettersTrue
    /\ ChecksAreTrue
    /\ SavesAreVerified
    /\ BusyWhileWorking
    /\ dismissed => epoch \notin fetching

-----------------------------------------------------------------------------
(***************************************************************************)
(* Mail.                                                                   *)
(***************************************************************************)

LEMMA Posted ==
  ASSUME mail \in [Worker -> Seq(Reply)], NEW w \in Worker, NEW r \in Reply,
         mail' = [mail EXCEPT ![w] = Append(@, r)]
  PROVE  /\ mail' \in [Worker -> Seq(Reply)]
         /\ \A v \in Worker : Letters(v)' \subseteq Letters(v) \cup (IF v = w THEN {r} ELSE {})
<1>1. mail' \in [Worker -> Seq(Reply)]
  OBVIOUS
<1>2. Letters(w)' \subseteq Letters(w) \cup {r}
  <2>1. mail[w] \in Seq(Reply) /\ mail'[w] = Append(mail[w], r)
    OBVIOUS
  <2>2. ASSUME NEW i \in DOMAIN mail'[w]
        PROVE  (i \in DOMAIN mail[w] /\ mail'[w][i] = mail[w][i]) \/ mail'[w][i] = r
    BY <2>1
  <2> QED BY <2>2 DEF Letters
<1>3. \A v \in Worker \ {w} : Letters(v)' = Letters(v)
  BY DEF Letters
<1> QED BY <1>1, <1>2, <1>3

LEMMA Taken ==
  ASSUME mail \in [Worker -> Seq(Reply)], NEW w \in Worker, mail[w] # <<>>,
         mail' = [mail EXCEPT ![w] = Tail(@)]
  PROVE  /\ mail' \in [Worker -> Seq(Reply)]
         /\ Head(mail[w]) \in Letters(w) /\ Head(mail[w]) \in Reply
         /\ \A v \in Worker : Letters(v)' \subseteq Letters(v)
<1>1. mail[w] \in Seq(Reply) /\ mail'[w] = Tail(mail[w])
  OBVIOUS
<1>2. mail' \in [Worker -> Seq(Reply)] /\ Head(mail[w]) \in Reply
  BY <1>1
<1>3. Head(mail[w]) = mail[w][1] /\ 1 \in DOMAIN mail[w]
  BY <1>1
<1>4. Letters(w)' \subseteq Letters(w)
  <2>1. ASSUME NEW i \in DOMAIN mail'[w]
        PROVE  i + 1 \in DOMAIN mail[w] /\ mail'[w][i] = mail[w][i + 1]
    BY <1>1
  <2> QED BY <2>1 DEF Letters
<1>5. \A v \in Worker \ {w} : Letters(v)' = Letters(v)
  BY DEF Letters
<1> QED BY <1>2, <1>3, <1>4, <1>5 DEF Letters

LEMMA LettersAreReplies ==
  ASSUME mail \in [Worker -> Seq(Reply)], NEW v \in Worker, NEW r \in Letters(v)
  PROVE  r \in Reply /\ r.id \in Nat
<1>1. PICK i \in DOMAIN mail[v] : r = mail[v][i]
  BY DEF Letters
<1>2. mail[v] \in Seq(Reply)
  OBVIOUS
<1>3. r \in Reply
  BY <1>1, <1>2
<1> QED BY <1>3 DEF Reply

LEMMA NoJobIsNoJob == NoJob \notin Job /\ \A j \in Job : j.action # "none"
  BY DEF Job, NoJob

-----------------------------------------------------------------------------
(***************************************************************************)
(* The worker.                                                             *)
(***************************************************************************)

\* A worker that works does so for the page.
LEMMA AtWork ==
  ASSUME SessionInv, NEW w \in Worker, NEW actions \in SUBSET {"open", "verify", "read", "zip"},
         Works(w, actions)
  PROVE  /\ w \in alive /\ w = worker /\ task[w] = pending /\ pending # NoJob /\ pending \in Job
         /\ pending.id \in 1..MaxJobs /\ pending.over \in SUBSET Entry
         /\ pending.action # "open" => /\ opened[w] = pending.file
                                       /\ pending.file \in Archive
                                       /\ Sound[pending.file] \in SUBSET Entry
<1>1. /\ w \in alive /\ task[w].action \in actions /\ task[w] \in Job \cup {NoJob}
  BY DEF Works, SessionInv, TypeOK
<1>2. task[w] # NoJob /\ task[w] = pending /\ w = worker
  BY <1>1 DEF SessionInv, WorkerCurrent, NoJob
<1>3. pending \in Job /\ worker # 0
  BY <1>1, <1>2 DEF SessionInv, PendingCurrent
<1>4. pending.id \in 1..MaxJobs /\ pending.over \in SUBSET Entry
  BY <1>3 DEF Job
<1>5. pending.action # "open" => opened[w] = pending.file /\ pending.file \in Archive
  BY <1>2, <1>3, NoneIsNoArchive DEF SessionInv, TypeOK, PendingCurrent, WorkerCurrent
<1> QED BY <1>1, <1>2, <1>3, <1>4, <1>5, SoundType

\* A worker that works says what is true, and goes on or is done.
LEMMA WorkKeeps ==
  ASSUME SessionInv, NEW w \in alive, w \in Worker, w = worker, task[w] = pending, pending # NoJob,
         UNCHANGED <<page, started, alive, faults, saved, dismissed>>,
         mail' \in [Worker -> Seq(Reply)],
         NEW R,
         \A v \in Worker : Letters(v)' \subseteq Letters(v) \cup R,
         \A r \in R : r.id = pending.id /\ TrueLetter(r)',
         \/ Done(w)
         \/ /\ task' = task
            /\ \E e \in Entry : /\ left' = [left EXCEPT ![w] = @ \ {e}]
                                /\ pending.action = "zip" => e \in Sound[pending.file],
         \/ opened' = opened
         \/ /\ pending.action = "open" /\ Done(w)
            /\ \E x \in Archive \cup {None} : opened' = [opened EXCEPT ![w] = x]
  PROVE  SessionInv'
<1> USE DEF page
<1>1. TypeOK'
  BY DEF SessionInv, TypeOK, Done
<1>2. Counted'
  BY DEF SessionInv, Counted
<1>3. PendingCurrent'
  BY DEF SessionInv, PendingCurrent
<1>4. \/ task'[w] = NoJob
      \/ /\ task' = task
         /\ pending.action = "zip" => left[w] \ left'[w] \subseteq Sound[pending.file]
  BY DEF Done, SessionInv, TypeOK
<1>5. \A v \in alive : v = w
  BY DEF SessionInv, WorkerCurrent
<1>6. WorkerCurrent'
  <2>1. worker # 0 /\ shown # None => opened'[worker] = shown
    BY DEF SessionInv, WorkerCurrent, PendingCurrent
  <2> QED BY <1>4, <1>5, <2>1 DEF SessionInv, WorkerCurrent, NoJob
<1>7. LettersTrue'
  <2> SUFFICES ASSUME NEW v \in Worker, NEW r \in Letters(v)'
               PROVE  /\ r.id <= serial
                      /\ r.id = pending.id => TrueLetter(r)'
    BY DEF LettersTrue
  <2>1. CASE r \in R
    BY <2>1 DEF SessionInv, PendingCurrent, TypeOK
  <2>2. CASE r \in Letters(v)
    <3>1. r.id <= serial /\ (r.id = pending.id => TrueLetter(r))
      BY <2>2 DEF SessionInv, LettersTrue
    <3>2. r.id = pending.id => r.kind = "progress"
      BY <3>1 DEF TrueLetter
    <3> QED BY <3>1, <3>2 DEF TrueLetter
  <2> QED BY <2>1, <2>2
<1>8. ChecksAreTrue' /\ SavesAreVerified' /\ BusyWhileWorking' /\ (dismissed => epoch \notin fetching)'
  BY <1>1 DEF SessionInv, ChecksAreTrue, SavesAreVerified, BusyWhileWorking
<1> QED BY <1>1, <1>2, <1>3, <1>6, <1>7, <1>8 DEF SessionInv

LEMMA WorkerOpensKeeps ==
  ASSUME SessionInv, NEW w \in Worker, WorkerOpens(w)
  PROVE  SessionInv'
<1> USE DEF WorkerOpens
<1>1. /\ w \in alive /\ w = worker /\ task[w] = pending /\ pending # NoJob
      /\ pending.id \in 1..MaxJobs /\ pending.action = "open" /\ pending.file \in Archive
  BY AtWork DEF Works, SessionInv, PendingCurrent
<1>2. PICK r \in Reply, x \in Archive \cup {None} :
          /\ r.id = pending.id /\ r.kind \in {"result", "error"}
          /\ r.kind = "result" => x = pending.file
          /\ opened' = [opened EXCEPT ![w] = x]
          /\ mail' = [mail EXCEPT ![w] = Append(@, r)]
  <2> DEFINE answer(kind, x) == [id |-> pending.id, kind |-> kind, over |-> {}, sound |-> {}, of |-> x]
  <2>1. opened \in [Worker -> Archive \cup {None}]
    BY DEF SessionInv, TypeOK
  <2>2. CASE task[w].file \in Unreadable
    <3>1. opened'[w] = None /\ mail' = [mail EXCEPT ![w] = Append(@, answer("error", None))]
      BY <1>1, <2>1, <2>2 DEF Post
    <3>2. answer("error", None) \in Reply
      BY <1>1 DEF Reply
    <3> QED BY <2>2, <3>1, <3>2
  <2>3. CASE task[w].file \notin Unreadable
    <3>1. /\ opened'[w] = pending.file
          /\ mail' = [mail EXCEPT ![w] = Append(@, answer("result", pending.file))]
      BY <1>1, <2>1, <2>3 DEF Post
    <3>2. answer("result", pending.file) \in Reply
      BY <1>1 DEF Reply
    <3> QED BY <1>1, <2>3, <3>1, <3>2
  <2> QED BY <2>2, <2>3
<1>3. /\ mail' \in [Worker -> Seq(Reply)]
      /\ \A v \in Worker : Letters(v)' \subseteq Letters(v) \cup (IF v = w THEN {r} ELSE {})
  BY <1>2, Posted DEF SessionInv, TypeOK
<1>4. TrueLetter(r)'
  <2>1. opened'[w] = x /\ task'[w] = NoJob /\ alive' = alive /\ pending' = pending
    BY <1>2 DEF Done, SessionInv, TypeOK, page
  <2>2. \A v \in alive : v = w
    BY <1>1 DEF SessionInv, WorkerCurrent
  <2> QED BY <1>1, <1>2, <2>1, <2>2 DEF TrueLetter, page
<1> DEFINE R == {r}
<1>5. /\ \A v \in Worker : Letters(v)' \subseteq Letters(v) \cup R
      /\ \A s \in R : s.id = pending.id /\ TrueLetter(s)'
      /\ \E y \in Archive \cup {None} : opened' = [opened EXCEPT ![w] = y]
      /\ Done(w) /\ UNCHANGED <<page, started, alive, faults, saved, dismissed>>
  BY <1>2, <1>3, <1>4
<1> HIDE DEF WorkerOpens, R
<1> QED BY <1>1, <1>3, <1>5, WorkKeeps

\* A reply of a worker that has an archive open.
LEMMA ReplyKeeps ==
  ASSUME SessionInv, NEW w \in Worker, Works(w, {"verify", "read", "zip"}),
         UNCHANGED <<page, started, alive, faults, opened, saved, dismissed>>,
         NEW r \in Reply, r.id = pending.id, r.of = pending.file,
         mail' = [mail EXCEPT ![w] = Append(@, r)],
         \/ r.kind # "progress" /\ Done(w)
         \/ /\ r.kind = "progress" /\ task' = task
            /\ \E e \in Entry : /\ left' = [left EXCEPT ![w] = @ \ {e}]
                                /\ pending.action = "zip" => e \in Sound[pending.file],
         r.kind # "error" => r.sound = r.over \cap Sound[pending.file],
         r.kind = "result" /\ pending.action \in {"read", "zip"} => r.sound = r.over,
         r.kind = "error" /\ pending.action = "read" => pending.over \cap Sound[pending.file] = {}
  PROVE  SessionInv'
<1>1. /\ w \in alive /\ w = worker /\ task[w] = pending /\ pending # NoJob
      /\ pending.action # "open"
  BY AtWork DEF Works
<1>2. /\ mail' \in [Worker -> Seq(Reply)]
      /\ \A v \in Worker : Letters(v)' \subseteq Letters(v) \cup (IF v = w THEN {r} ELSE {})
  BY Posted DEF SessionInv, TypeOK
<1>3. r.kind # "progress" => \A v \in alive : task'[v] = NoJob
  BY <1>1 DEF Done, SessionInv, TypeOK, WorkerCurrent
<1>4. pending' = pending /\ alive' = alive /\ opened' = opened
  BY DEF page
<1>5. TrueLetter(r)'
  BY <1>1, <1>3, <1>4 DEF TrueLetter
<1> DEFINE R == {r}
<1>6. /\ \A v \in Worker : Letters(v)' \subseteq Letters(v) \cup R
      /\ \A s \in R : s.id = pending.id /\ TrueLetter(s)'
  BY <1>2, <1>5
<1> HIDE DEF R
<1>7. UNCHANGED <<page, started, alive, faults, saved, dismissed>>
  OBVIOUS
<1> QED BY <1>1, <1>2, <1>4, <1>6, <1>7, WorkKeeps

LEMMA WorkerVerifiesKeeps ==
  ASSUME SessionInv, NEW w \in Worker, NEW e \in Entry, WorkerVerifies(w, e)
  PROVE  SessionInv'
<1> USE DEF WorkerVerifies
<1> DEFINE r == [id |-> pending.id, kind |-> "progress", over |-> {e},
                 sound |-> {e} \cap Sound[pending.file], of |-> pending.file]
<1>1. /\ w \in alive /\ task[w] = pending /\ opened[w] = pending.file
      /\ pending.id \in 1..MaxJobs /\ pending.file \in Archive /\ pending.over \in SUBSET Entry
      /\ Sound[pending.file] \in SUBSET Entry /\ pending # NoJob
      /\ pending.action = "verify"
  BY AtWork DEF Works
<1>2. /\ r \in Reply /\ r.id = pending.id /\ r.of = pending.file
      /\ r.kind = "progress" /\ r.over = {e} /\ r.sound = {e} \cap Sound[pending.file]
  BY <1>1 DEF Reply
<1>3. mail' = [mail EXCEPT ![w] = Append(@, r)]
  BY <1>1 DEF Post
<1>4. /\ Works(w, {"verify", "read", "zip"})
      /\ UNCHANGED <<page, started, alive, faults, opened, saved, dismissed>>
  BY DEF Works
<1> HIDE DEF r, WorkerVerifies
<1>5. /\ task' = task
      /\ \E d \in Entry : /\ left' = [left EXCEPT ![w] = @ \ {d}]
                          /\ pending.action = "zip" => d \in Sound[pending.file]
  BY <1>1 DEF WorkerVerifies
<1> QED BY <1>1, <1>2, <1>3, <1>4, <1>5, ReplyKeeps

LEMMA WorkerZipsKeeps ==
  ASSUME SessionInv, NEW w \in Worker, NEW e \in Entry, WorkerZips(w, e)
  PROVE  SessionInv'
<1> USE DEF WorkerZips
<1> DEFINE r == [id |-> pending.id, kind |-> "progress", over |-> {e},
                 sound |-> {e}, of |-> pending.file]
<1>1. /\ w \in alive /\ task[w] = pending /\ opened[w] = pending.file
      /\ pending.id \in 1..MaxJobs /\ pending.file \in Archive /\ pending.over \in SUBSET Entry
      /\ Sound[pending.file] \in SUBSET Entry /\ pending # NoJob
      /\ pending.action = "zip"
      /\ e \in Sound[pending.file]
  BY AtWork DEF Works
<1>2. /\ r \in Reply /\ r.id = pending.id /\ r.of = pending.file
      /\ r.kind = "progress" /\ r.over = {e} /\ r.sound = {e}
  BY <1>1 DEF Reply
<1>3. mail' = [mail EXCEPT ![w] = Append(@, r)]
  BY <1>1 DEF Post
<1>4. /\ Works(w, {"verify", "read", "zip"})
      /\ UNCHANGED <<page, started, alive, faults, opened, saved, dismissed>>
  BY DEF Works
<1> HIDE DEF r, WorkerZips
<1>5. /\ task' = task
      /\ \E d \in Entry : /\ left' = [left EXCEPT ![w] = @ \ {d}]
                          /\ pending.action = "zip" => d \in Sound[pending.file]
  BY <1>1 DEF WorkerZips
<1> QED BY <1>1, <1>2, <1>3, <1>4, <1>5, ReplyKeeps

LEMMA WorkerRefusesKeeps ==
  ASSUME SessionInv, NEW w \in Worker, WorkerRefuses(w)
  PROVE  SessionInv'
<1> USE DEF WorkerRefuses
<1> DEFINE r == [id |-> pending.id, kind |-> "error", over |-> {},
                 sound |-> {}, of |-> pending.file]
<1>1. /\ w \in alive /\ task[w] = pending /\ opened[w] = pending.file
      /\ pending.id \in 1..MaxJobs /\ pending.file \in Archive /\ pending.over \in SUBSET Entry
      /\ Sound[pending.file] \in SUBSET Entry /\ pending # NoJob
      /\ pending.action \in {"verify", "zip"}
  BY AtWork DEF Works
<1>2. /\ r \in Reply /\ r.id = pending.id /\ r.of = pending.file
      /\ r.kind = "error" /\ r.over = {} /\ r.sound = {}
  BY <1>1 DEF Reply
<1>3. mail' = [mail EXCEPT ![w] = Append(@, r)]
  BY <1>1 DEF Post
<1>4. /\ Works(w, {"verify", "read", "zip"})
      /\ UNCHANGED <<page, started, alive, faults, opened, saved, dismissed>>
  BY DEF Works
<1> HIDE DEF r, WorkerRefuses
<1>5. Done(w)
  BY DEF WorkerRefuses
<1> QED BY <1>1, <1>2, <1>3, <1>4, <1>5, ReplyKeeps

LEMMA WorkerVerifiedKeeps ==
  ASSUME SessionInv, NEW w \in Worker, WorkerVerified(w)
  PROVE  SessionInv'
<1> USE DEF WorkerVerified
<1> DEFINE r == [id |-> pending.id, kind |-> "result", over |-> pending.over,
                 sound |-> pending.over \cap Sound[pending.file], of |-> pending.file]
<1>1. /\ w \in alive /\ task[w] = pending /\ opened[w] = pending.file
      /\ pending.id \in 1..MaxJobs /\ pending.file \in Archive /\ pending.over \in SUBSET Entry
      /\ Sound[pending.file] \in SUBSET Entry /\ pending # NoJob
      /\ pending.action = "verify"
  BY AtWork DEF Works
<1>2. /\ r \in Reply /\ r.id = pending.id /\ r.of = pending.file
      /\ r.kind = "result" /\ r.over = pending.over /\ r.sound = pending.over \cap Sound[pending.file]
  BY <1>1 DEF Reply
<1>3. mail' = [mail EXCEPT ![w] = Append(@, r)]
  BY <1>1 DEF Post
<1>4. /\ Works(w, {"verify", "read", "zip"})
      /\ UNCHANGED <<page, started, alive, faults, opened, saved, dismissed>>
  BY DEF Works
<1> HIDE DEF r, WorkerVerified
<1>5. Done(w)
  BY DEF WorkerVerified
<1> QED BY <1>1, <1>2, <1>3, <1>4, <1>5, ReplyKeeps

\* Everything a ZIP was asked for has passed by the time it is done.
LEMMA WorkerZippedKeeps ==
  ASSUME SessionInv, NEW w \in Worker, WorkerZipped(w)
  PROVE  SessionInv'
<1> USE DEF WorkerZipped
<1> DEFINE r == [id |-> pending.id, kind |-> "result", over |-> pending.over,
                 sound |-> pending.over, of |-> pending.file]
<1>1. /\ w \in alive /\ task[w] = pending /\ opened[w] = pending.file
      /\ pending.id \in 1..MaxJobs /\ pending.file \in Archive /\ pending.over \in SUBSET Entry
      /\ Sound[pending.file] \in SUBSET Entry /\ pending # NoJob
      /\ pending.action = "zip" /\ left[w] = {}
  BY AtWork DEF Works
<1>2. /\ r \in Reply /\ r.id = pending.id /\ r.of = pending.file
      /\ r.kind = "result" /\ r.over = pending.over /\ r.sound = pending.over
  BY <1>1 DEF Reply
<1>3. mail' = [mail EXCEPT ![w] = Append(@, r)]
  BY <1>1 DEF Post
<1>4. /\ Works(w, {"verify", "read", "zip"})
      /\ UNCHANGED <<page, started, alive, faults, opened, saved, dismissed>>
  BY DEF Works
<1> HIDE DEF r, WorkerZipped
<1>5. Done(w)
  BY DEF WorkerZipped
<1>6. pending.over \cap Sound[pending.file] = pending.over
  BY <1>1 DEF SessionInv, WorkerCurrent
<1> QED BY <1>1, <1>2, <1>3, <1>4, <1>5, <1>6, ReplyKeeps

LEMMA WorkerReadsKeeps ==
  ASSUME SessionInv, NEW w \in Worker, WorkerReads(w)
  PROVE  SessionInv'
<1> USE DEF WorkerReads
<1> DEFINE good == pending.over \subseteq Sound[pending.file]
           r == [id |-> pending.id, kind |-> IF good THEN "result" ELSE "error",
                 over |-> pending.over, sound |-> IF good THEN pending.over ELSE {},
                 of |-> pending.file]
<1>1. /\ task[w] = pending /\ opened[w] = pending.file
      /\ pending.id \in 1..MaxJobs /\ pending.file \in Archive /\ pending.over \in SUBSET Entry
      /\ pending # NoJob /\ pending.action = "read"
  BY AtWork DEF Works
<1>2. /\ r \in Reply /\ r.id = pending.id /\ r.of = pending.file /\ r.over = pending.over
      /\ good => r.kind = "result" /\ r.sound = pending.over
      /\ ~good => r.kind = "error"
  BY <1>1 DEF Reply
<1>3. mail' = [mail EXCEPT ![w] = Append(@, r)]
  BY <1>1 DEF Post
<1>4. /\ Works(w, {"verify", "read", "zip"}) /\ Done(w)
      /\ UNCHANGED <<page, started, alive, faults, opened, saved, dismissed>>
  BY DEF Works
<1>5. ~good => pending.over \cap Sound[pending.file] = {}
  BY <1>1 DEF SessionInv, PendingCurrent
<1>6. good => pending.over = pending.over \cap Sound[pending.file]
  OBVIOUS
<1> HIDE DEF r, good, WorkerReads
<1> QED BY <1>2, <1>3, <1>4, <1>5, <1>6, ReplyKeeps

LEMMA WorkerStopsZipKeeps ==
  ASSUME SessionInv, NEW w \in Worker, NEW e \in Entry, WorkerStopsZip(w, e)
  PROVE  SessionInv'
<1> USE DEF WorkerStopsZip
<1>1. /\ w \in alive /\ w = worker /\ task[w] = pending /\ pending # NoJob
      /\ opened[w] = pending.file /\ pending.id \in 1..MaxJobs /\ pending.file \in Archive
      /\ pending.action = "zip"
  BY AtWork DEF Works
<1> DEFINE r1 == [id |-> pending.id, kind |-> "progress", over |-> {e}, sound |-> {},
                  of |-> pending.file]
           r2 == [id |-> pending.id, kind |-> "error", over |-> {}, sound |-> {},
                  of |-> pending.file]
           R == {r1, r2}
           two == <<r1, r2>>
<1>2. r1 \in Reply /\ r2 \in Reply
  BY <1>1 DEF Reply
<1>3. two \in Seq(Reply) /\ \A i \in DOMAIN two : two[i] \in R
  <2> HIDE DEF r1, r2
  <2>1. two \in Seq(Reply) /\ DOMAIN two = 1..2 /\ two[1] = r1 /\ two[2] = r2
    BY <1>2
  <2>2. \A i \in 1..2 : i = 1 \/ i = 2
    OBVIOUS
  <2> HIDE DEF two
  <2> QED BY <2>1, <2>2
<1>4. mail' = [mail EXCEPT ![w] = @ \o two]
  BY <1>1
<1>5. /\ r1.id = pending.id /\ r1.kind = "progress" /\ r1.over = {e} /\ r1.sound = {}
      /\ r2.id = pending.id /\ r2.kind = "error"
  OBVIOUS
<1>6. Done(w) /\ UNCHANGED <<page, started, alive, faults, saved, opened, dismissed>>
      /\ e \notin Sound[pending.file]
  BY <1>1
<1> HIDE DEF r1, r2, two, WorkerStopsZip
<1>7. /\ mail' \in [Worker -> Seq(Reply)]
      /\ \A v \in Worker : Letters(v)' \subseteq Letters(v) \cup R
  <2> HIDE DEF R
  <2>1. mail \in [Worker -> Seq(Reply)] /\ mail[w] \in Seq(Reply)
    BY DEF SessionInv, TypeOK
  <2>2. mail'[w] = mail[w] \o two /\ mail' \in [Worker -> Seq(Reply)]
    BY <1>3, <1>4, <2>1
  <2>3. ASSUME NEW i \in DOMAIN mail'[w]
        PROVE  (i \in DOMAIN mail[w] /\ mail'[w][i] = mail[w][i]) \/ mail'[w][i] \in R
    <3>1. CASE i <= Len(mail[w])
      BY <1>3, <2>1, <2>2, <3>1
    <3>2. CASE ~(i <= Len(mail[w]))
      <4>1. mail'[w][i] = two[i - Len(mail[w])] /\ i - Len(mail[w]) \in DOMAIN two
        BY <1>3, <2>1, <2>2, <3>2
      <4> QED BY <1>3, <4>1
    <3> QED BY <3>1, <3>2
  <2>4. \A v \in Worker \ {w} : mail'[v] = mail[v]
    BY <1>4, <2>1
  <2> QED BY <2>2, <2>3, <2>4 DEF Letters
<1>8. \A v \in alive : task'[v] = NoJob
  BY <1>1, <1>6 DEF Done, SessionInv, TypeOK, WorkerCurrent
<1>9. pending' = pending /\ alive' = alive /\ opened' = opened
  BY <1>6 DEF page
<1>10. TrueLetter(r1)'
  <2>1. r1'.kind = "progress" /\ r1'.sound = r1'.over \cap Sound[pending.file]
    BY <1>5, <1>6, <1>9 DEF r1, page
  <2> QED BY <1>1, <1>9, <2>1 DEF TrueLetter
<1>11. TrueLetter(r2)'
  <2>1. r2'.kind = "error"
    BY <1>9 DEF r2
  <2> QED BY <1>1, <1>8, <1>9, <2>1 DEF TrueLetter
<1>12. \A s \in R : s.id = pending.id /\ TrueLetter(s)'
  <2>1. r1' = r1 /\ r2' = r2
    BY <1>9 DEF r1, r2
  <2> QED BY <1>5, <1>10, <1>11, <2>1 DEF TrueLetter
<1> HIDE DEF R
<1> QED BY <1>1, <1>6, <1>7, <1>9, <1>12, WorkKeeps

\* A script that does not load leaves the page with its job, until the event.
LEMMA NotLoadedKeeps ==
  ASSUME SessionInv, NEW w \in Worker, NotLoaded(w)
  PROVE  SessionInv'
<1> USE DEF NotLoaded, page
<1>1. w \in alive /\ w = worker /\ alive' = {}
  BY AtWork DEF Works, SessionInv, WorkerCurrent
<1>2. TypeOK' /\ Counted' /\ PendingCurrent' /\ WorkerCurrent'
  BY <1>1 DEF SessionInv, TypeOK, Counted, PendingCurrent, WorkerCurrent
<1>3. LettersTrue'
  BY <1>1 DEF SessionInv, LettersTrue, Letters, TrueLetter
<1>4. ChecksAreTrue' /\ SavesAreVerified' /\ BusyWhileWorking' /\ (dismissed => epoch \notin fetching)'
  BY <1>2 DEF SessionInv, ChecksAreTrue, SavesAreVerified, BusyWhileWorking
<1> QED BY <1>2, <1>3, <1>4 DEF SessionInv

-----------------------------------------------------------------------------
(***************************************************************************)
(* The page's requests.                                                    *)
(***************************************************************************)

\* What opening an archive leaves behind is of earlier jobs.
LEMMA OpenKeeps ==
  ASSUME SessionInv, NEW file \in Archive, OpenArchive(file),
         fetching' \subseteq fetching, pending = NoJob, dismissed' = FALSE
  PROVE  SessionInv'
<1> USE DEF OpenArchive, Send
<1> DEFINE job == [id |-> serial + 1, action |-> "open", file |-> file, over |-> {},
                   token |-> epoch + 1]
<1>1. /\ serial \in Nat /\ serial < MaxJobs /\ epoch \in Nat /\ started \in Nat
      /\ started <= serial /\ epoch <= MaxJobs + 2 * serial /\ MaxJobs \in Nat
      /\ \A t \in fetching : t <= epoch /\ t < MaxJobs
  BY MaxJobsType DEF SessionInv, TypeOK, Counted
<1>2. /\ serial + 1 \in 1..MaxJobs /\ epoch + 1 \in 0..(3 * MaxJobs)
      /\ started + 1 \in Worker /\ epoch + 2 <= MaxJobs + 2 * (serial + 1)
  BY <1>1 DEF Worker
<1>3. job \in Job /\ job # NoJob
  BY <1>2 DEF Job, NoJob
<1>4. /\ pending' = job /\ serial' = serial + 1 /\ epoch' = epoch + 1 /\ started' = started + 1
      /\ worker' = started + 1 /\ task' = [task EXCEPT ![started + 1] = job]
      /\ alive' = (alive \ {worker}) \cup {started + 1}
      /\ left' = [left EXCEPT ![started + 1] = {}]
      /\ shown' = None /\ checks' = Unchecked /\ busy' = TRUE
      /\ opened' = opened /\ mail' = mail /\ faults' = faults /\ saved' = saved
  OBVIOUS
<1>5. /\ job.id = serial + 1 /\ job.action = "open" /\ job.file = file /\ job.token = epoch + 1
      /\ job.over = {}
  OBVIOUS
<1> HIDE DEF job, OpenArchive, Send
<1>6. epoch' \notin fetching'
  BY <1>1, <1>4
<1>7. alive' = {started + 1}
  BY <1>4 DEF SessionInv, WorkerCurrent
<1>8. Unchecked \in [Entry -> Belief]
  BY DEF Unchecked, Belief
<1>9. worker' \in 0..MaxJobs /\ started' \in 0..MaxJobs /\ serial' \in 0..MaxJobs
  BY <1>1, <1>4
<1>10. TypeOK'
  BY <1>2, <1>3, <1>4, <1>7, <1>8, <1>9 DEF SessionInv, TypeOK
<1>11. Counted'
  <2>1. started' <= serial' /\ worker' <= started' /\ epoch' + 1 <= MaxJobs + 2 * serial'
    BY <1>1, <1>2, <1>4
  <2>2. \A t \in fetching' : t <= epoch' /\ t < MaxJobs
    <3> SUFFICES ASSUME NEW t \in fetching' PROVE t <= epoch' /\ t < MaxJobs
      OBVIOUS
    <3>1. t <= epoch /\ t < MaxJobs /\ t \in Nat
      BY <1>1 DEF SessionInv, TypeOK
    <3> QED BY <3>1, <1>1, <1>4
  <2>3. pending' # NoJob
    BY <1>3, <1>4
  <2> QED BY <2>1, <2>2, <2>3 DEF Counted
<1>12. PendingCurrent'
  BY <1>1, <1>4, <1>5, <1>6 DEF PendingCurrent
<1>13. WorkerCurrent'
  <2>1. task'[started + 1] = job
    BY <1>2, <1>4 DEF SessionInv, TypeOK
  <2> QED BY <1>4, <1>5, <1>7, <2>1 DEF WorkerCurrent
<1>14. LettersTrue'
  <2> SUFFICES ASSUME NEW v \in Worker, NEW r \in Letters(v)
               PROVE  r.id <= serial' /\ r.id # pending'.id
    BY <1>4 DEF LettersTrue, Letters
  <2>1. r.id <= serial
    BY DEF SessionInv, LettersTrue
  <2>2. r.id \in Nat
    BY LettersAreReplies DEF SessionInv, TypeOK
  <2> QED BY <1>1, <1>4, <1>5, <2>1, <2>2
<1>15. ChecksAreTrue' /\ SavesAreVerified' /\ BusyWhileWorking' /\ (dismissed => epoch \notin fetching)'
  <2>1. pending' # NoJob
    BY <1>3, <1>4
  <2> QED BY <1>4, <1>10, <2>1 DEF SessionInv, ChecksAreTrue, SavesAreVerified, BusyWhileWorking
<1> QED BY <1>10, <1>11, <1>12, <1>13, <1>14, <1>15 DEF SessionInv

LEMMA ChooseFileKeeps ==
  ASSUME SessionInv, NEW file \in Archive, ChooseFile(file)
  PROVE  SessionInv'
<1>1. pending = NoJob
  BY DEF ChooseFile, SessionInv, BusyWhileWorking
<1>2. OpenArchive(file) /\ fetching' \subseteq fetching /\ dismissed' = FALSE
  BY DEF ChooseFile
<1> QED BY <1>1, <1>2, OpenKeeps

\* A sample that arrives in its own epoch finds no job pending, and no Cancel
\* came between.
LEMMA SampleArrivesKeeps ==
  ASSUME SessionInv, NEW token \in fetching, SampleArrives(token)
  PROVE  SessionInv'
<1>1. epoch \in fetching
  BY DEF SampleArrives
<1>2. pending = NoJob /\ dismissed = FALSE
  BY <1>1 DEF SessionInv, TypeOK, PendingCurrent
<1>3. OpenArchive(Sample) /\ fetching' \subseteq fetching /\ dismissed' = FALSE
  BY <1>2 DEF SampleArrives
<1> QED BY <1>2, <1>3, OpenKeeps, ArchivesType

\* Only what is being fetched changes.
LEMMA FetchingKeeps ==
  ASSUME SessionInv,
         UNCHANGED <<worker, pending, serial, epoch, shown, checks, workers, saved>>,
         fetching' \subseteq 0..(3 * MaxJobs),
         \A t \in fetching' : t <= epoch /\ t < MaxJobs,
         pending # NoJob => epoch \notin fetching',
         busy' \in BOOLEAN, busy' <=> (pending # NoJob \/ epoch \in fetching'),
         dismissed' \in BOOLEAN,
         dismissed' => /\ dismissed /\ epoch \notin fetching'
  PROVE  SessionInv'
<1> USE DEF workers
<1>1. TypeOK'
  BY DEF SessionInv, TypeOK
<1>2. Counted' /\ PendingCurrent'
  BY DEF SessionInv, Counted, PendingCurrent
<1>3. WorkerCurrent'
  BY DEF SessionInv, WorkerCurrent
<1>4. LettersTrue'
  BY DEF SessionInv, LettersTrue, Letters, TrueLetter
<1>5. ChecksAreTrue' /\ SavesAreVerified' /\ BusyWhileWorking' /\ (dismissed => epoch \notin fetching)'
  BY <1>1 DEF SessionInv, ChecksAreTrue, SavesAreVerified, BusyWhileWorking
<1> QED BY <1>1, <1>2, <1>3, <1>4, <1>5 DEF SessionInv

LEMMA ChooseSampleKeeps ==
  ASSUME SessionInv, ChooseSample
  PROVE  SessionInv'
<1>1. /\ UNCHANGED <<worker, pending, serial, epoch, shown, checks, workers, saved>>
      /\ fetching' = fetching \cup {epoch} /\ epoch < MaxJobs /\ busy' = TRUE
      /\ dismissed' = FALSE /\ pending = NoJob
  BY DEF ChooseSample, SessionInv, BusyWhileWorking
<1>2. fetching' \subseteq 0..(3 * MaxJobs) /\ \A t \in fetching' : t <= epoch /\ t < MaxJobs
  BY <1>1 DEF SessionInv, TypeOK, Counted
<1> QED BY <1>1, <1>2, FetchingKeeps

LEMMA SampleFailsKeeps ==
  ASSUME SessionInv, NEW token \in fetching, SampleFails(token)
  PROVE  SessionInv'
<1>1. /\ UNCHANGED <<worker, pending, serial, epoch, shown, checks, workers, saved>>
      /\ fetching' = fetching \ {token} /\ busy' = (busy /\ token # epoch) /\ dismissed' = dismissed
  BY DEF SampleFails
<1>2. /\ fetching' \subseteq 0..(3 * MaxJobs) /\ \A t \in fetching' : t <= epoch /\ t < MaxJobs
      /\ dismissed' \in BOOLEAN /\ busy' \in BOOLEAN
  BY <1>1 DEF SessionInv, TypeOK, Counted
<1>3. /\ pending # NoJob => epoch \notin fetching
      /\ busy <=> (pending # NoJob \/ epoch \in fetching)
      /\ dismissed => epoch \notin fetching
  BY DEF SessionInv, PendingCurrent, BusyWhileWorking
<1>4. busy' <=> (pending # NoJob \/ epoch \in fetching')
  BY <1>1, <1>3
<1> QED BY <1>1, <1>2, <1>3, <1>4, FetchingKeeps

LEMMA SampleIgnoredKeeps ==
  ASSUME SessionInv, NEW token \in fetching, SampleIgnored(token)
  PROVE  SessionInv'
<1>1. /\ UNCHANGED <<worker, pending, serial, epoch, shown, checks, workers, saved>>
      /\ fetching' = fetching \ {token} /\ token # epoch /\ busy' = busy /\ dismissed' = dismissed
  BY DEF SampleIgnored
<1>2. /\ fetching' \subseteq 0..(3 * MaxJobs) /\ \A t \in fetching' : t <= epoch /\ t < MaxJobs
      /\ dismissed' \in BOOLEAN /\ busy' \in BOOLEAN
  BY <1>1 DEF SessionInv, TypeOK, Counted
<1>3. /\ pending # NoJob => epoch \notin fetching
      /\ busy <=> (pending # NoJob \/ epoch \in fetching)
      /\ dismissed => epoch \notin fetching
  BY DEF SessionInv, PendingCurrent, BusyWhileWorking
<1>4. busy' <=> (pending # NoJob \/ epoch \in fetching')
  BY <1>1, <1>3
<1> QED BY <1>1, <1>2, <1>3, <1>4, FetchingKeeps

\* A request goes to the worker that has the archive on show open.
LEMMA AskKeeps ==
  ASSUME SessionInv, NEW action \in {"verify", "read", "zip"}, NEW over \in SUBSET Entry,
         action = "read" => \E e \in Entry : over = {e},
         Ask(action, over)
  PROVE  SessionInv'
<1> USE DEF Ask, Send
<1> DEFINE job == [id |-> serial + 1, action |-> action, file |-> shown, over |-> over,
                   token |-> epoch]
<1>1. /\ serial \in Nat /\ serial < MaxJobs /\ epoch \in 0..(3 * MaxJobs) /\ MaxJobs \in Nat
      /\ worker \in Worker /\ shown \in Archive /\ worker <= started /\ started <= serial
      /\ started \in Nat /\ worker \in Nat
      /\ \A t \in fetching : t <= epoch /\ t < MaxJobs
  BY MaxJobsType DEF SessionInv, TypeOK, Counted, Worker
<1>2. serial + 1 \in 1..MaxJobs
  BY <1>1
<1>3. job \in Job /\ job # NoJob
  BY <1>1, <1>2 DEF Job, NoJob
<1>4. /\ pending' = job /\ serial' = serial + 1
      /\ task' = [task EXCEPT ![worker] = job]
      /\ left' = [left EXCEPT ![worker] = over]
      /\ busy' = TRUE /\ shown # None /\ worker # 0 /\ busy = FALSE
      /\ UNCHANGED <<worker, epoch, shown, checks, fetching, started, alive,
                     opened, mail, faults, saved, dismissed>>
  BY DEF SessionInv, TypeOK
<1>5. /\ job.id = serial + 1 /\ job.action = action /\ job.file = shown /\ job.token = epoch
      /\ job.over = over /\ action # "open"
  OBVIOUS
<1> HIDE DEF job, Ask, Send
<1>6. pending = NoJob /\ epoch \notin fetching
  BY <1>4 DEF SessionInv, BusyWhileWorking
<1>7. epoch <= MaxJobs + 2 * serial
  BY <1>6 DEF SessionInv, Counted, TypeOK
<1>8. TypeOK'
  BY <1>1, <1>2, <1>3, <1>4 DEF SessionInv, TypeOK
<1>9. Counted'
  <2>1. started' <= serial' /\ worker' <= started' /\ epoch' + 1 <= MaxJobs + 2 * serial'
    BY <1>1, <1>4, <1>7
  <2>2. pending' # NoJob
    BY <1>3, <1>4
  <2> QED BY <1>1, <1>4, <2>1, <2>2 DEF Counted
<1>10. PendingCurrent'
  BY <1>4, <1>5, <1>6 DEF PendingCurrent
<1>11. WorkerCurrent'
  <2>1. task'[worker] = job /\ left'[worker] = over
    BY <1>1, <1>4 DEF SessionInv, TypeOK
  <2>2. opened'[worker'] = shown' /\ alive' \subseteq {worker'}
    BY <1>4 DEF SessionInv, WorkerCurrent
  <2>3. \A w \in alive' : w = worker
    BY <1>4, <2>2
  <2> QED BY <1>4, <1>5, <2>1, <2>2, <2>3 DEF WorkerCurrent
<1>12. LettersTrue'
  <2> SUFFICES ASSUME NEW v \in Worker, NEW r \in Letters(v)
               PROVE  r.id <= serial' /\ r.id # pending'.id
    BY <1>4 DEF LettersTrue, Letters
  <2>1. r.id <= serial
    BY DEF SessionInv, LettersTrue
  <2>2. r.id \in Nat
    BY LettersAreReplies DEF SessionInv, TypeOK
  <2> QED BY <1>1, <1>4, <1>5, <2>1, <2>2
<1>13. ChecksAreTrue' /\ SavesAreVerified' /\ BusyWhileWorking' /\ (dismissed => epoch \notin fetching)'
  <2>1. pending' # NoJob
    BY <1>3, <1>4
  <2>2. dismissed = FALSE
    BY <1>4 DEF SessionInv, TypeOK, BusyWhileWorking
  <2> QED BY <1>4, <1>8, <2>1, <2>2 DEF SessionInv, ChecksAreTrue, SavesAreVerified, BusyWhileWorking
<1> QED BY <1>8, <1>9, <1>10, <1>11, <1>12, <1>13 DEF SessionInv

-----------------------------------------------------------------------------
(***************************************************************************)
(* The end of a job.                                                       *)
(***************************************************************************)

\* Once no job is pending no letter is expected, and no worker has a task that
\* a letter would have to agree with.
LEMMA SettledKeeps ==
  ASSUME SessionInv,
         pending' = NoJob,
         UNCHANGED <<serial, fetching, started, task, left, opened>>,
         mail' \in [Worker -> Seq(Reply)],
         \A v \in Worker : Letters(v)' \subseteq Letters(v),
         faults' \subseteq Worker,
         worker' \in {0, worker}, alive' \subseteq alive \ {worker} \/ (alive' = alive /\ \A w \in alive : task[w] = NoJob),
         worker' = worker \/ alive' \subseteq alive \ {worker},
         epoch' \in {epoch, epoch + 1}, epoch' = epoch \/ pending # NoJob \/ epoch \in fetching,
         shown' \in Archive \cup {None},
         worker' # 0 /\ shown' # None => opened[worker'] = shown',
         checks' \in [Entry -> Belief],
         shown' # None => \A e \in Entry : checks'[e] # "unchecked" =>
             (checks'[e] = "verified" <=> e \in Sound[shown']),
         saved' \subseteq [of: Archive \cup {None}, under: Archive \cup {None}, over: SUBSET Entry],
         SavesAreVerified',
         busy' \in BOOLEAN, busy' <=> epoch' \in fetching,
         dismissed' \in BOOLEAN,
         dismissed' => shown' = None /\ epoch' \notin fetching
  PROVE  SessionInv'
<1>1. /\ epoch \in Nat /\ serial \in Nat /\ MaxJobs \in Nat /\ serial <= MaxJobs
      /\ started <= serial /\ worker <= started /\ started \in Nat /\ worker \in 0..MaxJobs
      /\ \A t \in fetching : t <= epoch /\ t < MaxJobs
  BY MaxJobsType DEF SessionInv, TypeOK, Counted
<1>2. epoch' <= MaxJobs + 2 * serial
  <2>1. CASE epoch' = epoch
    BY <1>1, <2>1 DEF SessionInv, Counted
  <2>2. CASE epoch' = epoch + 1 /\ pending # NoJob
    BY <1>1, <2>2 DEF SessionInv, Counted
  <2>3. CASE epoch' = epoch + 1 /\ epoch \in fetching
    BY <1>1, <2>3
  <2> QED BY <2>1, <2>2, <2>3
<1>3. epoch' \in 0..(3 * MaxJobs)
  BY <1>1, <1>2
<1>4. alive' \subseteq {worker'} /\ alive' \subseteq alive /\ \A w \in alive' : task[w] = NoJob
  <2>1. alive \subseteq {worker}
    BY DEF SessionInv, WorkerCurrent
  <2> QED BY <2>1
<1>5. TypeOK'
  BY <1>1, <1>3, <1>4 DEF SessionInv, TypeOK
<1>6. Counted'
  <2>1. \A t \in fetching' : t <= epoch' /\ t < MaxJobs
    <3> SUFFICES ASSUME NEW t \in fetching PROVE t <= epoch' /\ t < MaxJobs
      OBVIOUS
    <3>1. t \in Nat
      BY DEF SessionInv, TypeOK
    <3> QED BY <1>1, <3>1
  <2>2. started' <= serial' /\ worker' <= started' /\ epoch' + 0 <= MaxJobs + 2 * serial'
    BY <1>1, <1>2, <1>3
  <2> QED BY <2>1, <2>2 DEF Counted
<1>7. PendingCurrent' /\ LettersTrue'
  <2>1. \A v \in Worker : \A r \in Letters(v)' : r.id <= serial'
    BY DEF SessionInv, LettersTrue
  <2> QED BY <2>1 DEF PendingCurrent, LettersTrue
<1>8. WorkerCurrent'
  <2>1. \A w \in alive' : task'[w] = NoJob /\ task'[w].action # "zip"
    <3>1. NoJob.action # "zip"
      BY DEF NoJob
    <3>2. task' = task
      OBVIOUS
    <3> QED BY <1>4, <3>1, <3>2
  <2>2. worker' # 0 /\ shown' # None => opened'[worker'] = shown'
    OBVIOUS
  <2> QED BY <1>4, <2>1, <2>2 DEF WorkerCurrent
<1>9. ChecksAreTrue' /\ BusyWhileWorking' /\ (dismissed => epoch \notin fetching)'
  BY <1>5 DEF ChecksAreTrue, BusyWhileWorking
<1> QED BY <1>5, <1>6, <1>7, <1>8, <1>9 DEF SessionInv

LEMMA CancelKeeps ==
  ASSUME SessionInv, Cancel
  PROVE  SessionInv'
<1>1. /\ pending' = NoJob /\ UNCHANGED <<serial, checks, fetching, started, task, left, opened, mail, faults, saved>>
      /\ busy /\ epoch' = epoch + 1 /\ worker' = 0 /\ alive' = alive \ {worker}
      /\ shown' = None /\ busy' = FALSE /\ dismissed' = TRUE
  BY DEF Cancel
<1>2. pending # NoJob \/ epoch \in fetching
  BY <1>1 DEF SessionInv, BusyWhileWorking
<1>3. epoch' \notin fetching
  BY <1>1 DEF SessionInv, TypeOK, Counted
<1>4. /\ mail' \in [Worker -> Seq(Reply)] /\ \A v \in Worker : Letters(v)' \subseteq Letters(v)
      /\ faults' \subseteq Worker /\ checks' \in [Entry -> Belief]
      /\ saved' \subseteq [of: Archive \cup {None}, under: Archive \cup {None}, over: SUBSET Entry]
  BY <1>1 DEF SessionInv, TypeOK, Letters
<1>5. SavesAreVerified'
  BY <1>1 DEF SessionInv, SavesAreVerified
<1> QED BY <1>1, <1>2, <1>3, <1>4, <1>5, SettledKeeps

-----------------------------------------------------------------------------
(***************************************************************************)
(* What the page does with events.                                         *)
(***************************************************************************)

\* An expected letter is true, and its job's time has not passed.
LEMMA ExpectedIsTrue ==
  ASSUME SessionInv, NEW w \in Worker, Take(w)
  PROVE  /\ mail' \in [Worker -> Seq(Reply)]
         /\ \A v \in Worker : Letters(v)' \subseteq Letters(v)
         /\ Head(mail[w]) \in Reply
         /\ Expected(Head(mail[w])) => TrueLetter(Head(mail[w])) /\ Continues
<1>1. mail[w] # <<>> /\ mail' = [mail EXCEPT ![w] = Tail(@)] /\ mail \in [Worker -> Seq(Reply)]
  BY DEF Take, SessionInv, TypeOK
<1>2. /\ mail' \in [Worker -> Seq(Reply)]
      /\ Head(mail[w]) \in Letters(w) /\ Head(mail[w]) \in Reply
      /\ \A v \in Worker : Letters(v)' \subseteq Letters(v)
  BY <1>1, Taken
<1> QED BY <1>2 DEF Expected, Continues, SessionInv, LettersTrue, PendingCurrent

\* Marks that say what is true of some entries keep all marks true.
LEMMA BelieveRight ==
  ASSUME SessionInv, NEW over \in SUBSET Entry, NEW sound,
         shown # None => sound = over \cap Sound[shown]
  PROVE  /\ Believe(over, sound) \in [Entry -> Belief]
         /\ shown # None => \A e \in Entry : Believe(over, sound)[e] # "unchecked" =>
                (Believe(over, sound)[e] = "verified" <=> e \in Sound[shown])
<1>1. Believe(over, sound) \in [Entry -> Belief]
  BY DEF Believe, Belief, SessionInv, TypeOK
<1>2. ASSUME shown # None, NEW e \in Entry, Believe(over, sound)[e] # "unchecked"
      PROVE  Believe(over, sound)[e] = "verified" <=> e \in Sound[shown]
  BY <1>2 DEF Believe, SessionInv, ChecksAreTrue
<1> QED BY <1>1, <1>2

\* A letter less, and perhaps more marks.
LEMMA MarksKeep ==
  ASSUME SessionInv,
         UNCHANGED <<worker, pending, serial, epoch, shown, busy, fetching, started, alive,
                     task, left, opened, faults, saved, dismissed>>,
         mail' \in [Worker -> Seq(Reply)],
         \A v \in Worker : Letters(v)' \subseteq Letters(v),
         checks' \in [Entry -> Belief],
         pending # NoJob /\ pending.action = "open" => checks' = checks,
         shown # None => \A e \in Entry : checks'[e] # "unchecked" =>
             (checks'[e] = "verified" <=> e \in Sound[shown])
  PROVE  SessionInv'
<1>1. TypeOK'
  BY DEF SessionInv, TypeOK
<1>2. Counted'
  BY DEF SessionInv, Counted
<1>3. PendingCurrent'
  BY DEF SessionInv, PendingCurrent
<1>4. WorkerCurrent'
  BY DEF SessionInv, WorkerCurrent
<1>5. LettersTrue'
  BY DEF SessionInv, LettersTrue, TrueLetter
<1>6. ChecksAreTrue' /\ SavesAreVerified' /\ BusyWhileWorking' /\ (dismissed => epoch \notin fetching)'
  BY <1>1 DEF SessionInv, ChecksAreTrue, SavesAreVerified, BusyWhileWorking
<1> QED BY <1>1, <1>2, <1>3, <1>4, <1>5, <1>6 DEF SessionInv

LEMMA IgnoreKeeps ==
  ASSUME SessionInv, NEW w \in Worker, Ignore(w)
  PROVE  SessionInv'
<1>1. /\ UNCHANGED <<worker, pending, serial, epoch, shown, busy, fetching, started, alive,
                     task, left, opened, faults, saved, dismissed>>
      /\ checks' = checks /\ Take(w)
  BY DEF Ignore, Take
<1>2. mail' \in [Worker -> Seq(Reply)] /\ \A v \in Worker : Letters(v)' \subseteq Letters(v)
  BY <1>1, ExpectedIsTrue
<1>3. /\ checks' \in [Entry -> Belief]
      /\ shown # None => \A e \in Entry : checks'[e] # "unchecked" =>
             (checks'[e] = "verified" <=> e \in Sound[shown])
  BY <1>1 DEF SessionInv, TypeOK, ChecksAreTrue
<1> QED BY <1>1, <1>2, <1>3, MarksKeep

LEMMA ProgressKeeps ==
  ASSUME SessionInv, NEW w \in Worker, Progress(w)
  PROVE  SessionInv'
<1> DEFINE reply == Head(mail[w])
<1>1. /\ UNCHANGED <<worker, pending, serial, epoch, shown, busy, fetching, started, alive,
                     task, left, opened, faults, saved, dismissed>>
      /\ checks' = Believe(reply.over, reply.sound) /\ Take(w)
      /\ Expected(reply) /\ reply.kind = "progress"
  BY DEF Progress, Take
<1>2. /\ mail' \in [Worker -> Seq(Reply)] /\ \A v \in Worker : Letters(v)' \subseteq Letters(v)
      /\ reply \in Reply /\ TrueLetter(reply)
  BY <1>1, ExpectedIsTrue
<1> HIDE DEF reply
<1>3. pending # NoJob /\ pending.action # "open" /\ reply.over \in SUBSET Entry
  BY <1>1, <1>2 DEF TrueLetter, Expected, Reply
<1>4. reply.sound = reply.over \cap Sound[shown]
  BY <1>1, <1>2, <1>3 DEF TrueLetter, SessionInv, PendingCurrent
<1>5. /\ checks' \in [Entry -> Belief]
      /\ shown # None => \A e \in Entry : checks'[e] # "unchecked" =>
             (checks'[e] = "verified" <=> e \in Sound[shown])
  BY <1>1, <1>3, <1>4, BelieveRight
<1> QED BY <1>1, <1>2, <1>3, <1>5, MarksKeep

\* What a job that has succeeded shows and saves is of its archive.
LEMMA SucceedKeeps ==
  ASSUME SessionInv, NEW w \in Worker, Succeed(w)
  PROVE  SessionInv'
<1> DEFINE reply == Head(mail[w])
<1>1. /\ Take(w) /\ Expected(reply) /\ reply.kind = "result" /\ pending' = NoJob
      /\ UNCHANGED <<worker, serial, epoch, fetching, started, alive, task, left, opened,
                     faults, dismissed>>
  BY DEF Succeed, Take
<1>2. /\ mail' \in [Worker -> Seq(Reply)] /\ \A v \in Worker : Letters(v)' \subseteq Letters(v)
      /\ reply \in Reply /\ TrueLetter(reply) /\ Continues
  BY <1>1, ExpectedIsTrue
<1>3. /\ shown' = IF pending.action = "open" THEN pending.file ELSE shown
      /\ checks' = IF pending.action \in {"verify", "read"}
                   THEN Believe(reply.over, reply.sound) ELSE checks
      /\ saved' = IF pending.action \in {"read", "zip"}
                  THEN saved \cup {[of |-> reply.of, under |-> shown, over |-> reply.over]}
                  ELSE saved
      /\ busy' = FALSE
  BY <1>2 DEF Succeed
<1> HIDE DEF reply
<1>4. /\ pending # NoJob /\ pending \in Job /\ epoch \notin fetching /\ dismissed = FALSE
      /\ worker # 0 /\ reply.over \in SUBSET Entry /\ reply.of \in Archive \cup {None}
  BY <1>1, <1>2 DEF Expected, SessionInv, TypeOK, PendingCurrent, BusyWhileWorking, Reply
<1>5. \A v \in alive : task[v] = NoJob
  BY <1>1, <1>2 DEF TrueLetter
<1>6. /\ shown' \in Archive \cup {None}
      /\ worker' # 0 /\ shown' # None => opened[worker'] = shown'
      /\ checks' \in [Entry -> Belief]
      /\ shown' # None => \A e \in Entry : checks'[e] # "unchecked" =>
             (checks'[e] = "verified" <=> e \in Sound[shown'])
      /\ saved' \subseteq [of: Archive \cup {None}, under: Archive \cup {None}, over: SUBSET Entry]
      /\ SavesAreVerified'
  <2>1. CASE pending.action = "open"
    <3>1. shown' = pending.file /\ checks' = checks /\ saved' = saved /\ checks = Unchecked
      BY <1>3, <1>4, <2>1 DEF SessionInv, PendingCurrent
    <3>2. opened[worker] = pending.file /\ pending.file \in Archive
      BY <1>1, <1>2, <1>4, <2>1 DEF TrueLetter, SessionInv, PendingCurrent
    <3>3. SavesAreVerified'
      BY <3>1 DEF SessionInv, SavesAreVerified
    <3>4. saved \subseteq [of: Archive \cup {None}, under: Archive \cup {None}, over: SUBSET Entry]
      BY DEF SessionInv, TypeOK
    <3> QED BY <1>1, <3>1, <3>2, <3>3, <3>4 DEF Unchecked, Belief
  <2>2. CASE pending.action # "open"
    <3>1. /\ shown' = shown /\ shown # None /\ pending.file = shown /\ shown \in Archive
          /\ reply.sound = reply.over \cap Sound[shown]
          /\ pending.action \in {"read", "zip"} => reply.sound = reply.over /\ reply.of = shown
      BY <1>1, <1>2, <1>3, <1>4, <2>2 DEF TrueLetter, SessionInv, TypeOK, PendingCurrent
    <3>2. worker' # 0 => opened[worker'] = shown
      BY <1>1, <3>1 DEF SessionInv, WorkerCurrent
    <3>3. /\ checks' \in [Entry -> Belief]
          /\ \A e \in Entry : checks'[e] # "unchecked" =>
                 (checks'[e] = "verified" <=> e \in Sound[shown])
      <4>1. CASE pending.action \in {"verify", "read"}
        BY <1>3, <1>4, <3>1, <4>1, BelieveRight
      <4>2. CASE pending.action \notin {"verify", "read"}
        BY <1>3, <3>1, <4>2 DEF SessionInv, TypeOK, ChecksAreTrue
      <4> QED BY <4>1, <4>2
    <3>4. /\ saved' \subseteq [of: Archive \cup {None}, under: Archive \cup {None},
                               over: SUBSET Entry]
          /\ SavesAreVerified'
      <4>1. CASE pending.action \in {"read", "zip"}
        <5> DEFINE new == [of |-> reply.of, under |-> shown, over |-> reply.over]
        <5>1. /\ new \in [of: Archive \cup {None}, under: Archive \cup {None}, over: SUBSET Entry]
              /\ new.of = new.under /\ new.over \subseteq Sound[new.of]
          BY <1>4, <3>1, <4>1
        <5>2. saved' = saved \cup {new}
          BY <1>3, <4>1
        <5> HIDE DEF new
        <5> QED BY <5>1, <5>2 DEF SessionInv, TypeOK, SavesAreVerified
      <4>2. CASE pending.action \notin {"read", "zip"}
        BY <1>3, <4>2 DEF SessionInv, TypeOK, SavesAreVerified
      <4> QED BY <4>1, <4>2
    <3> QED BY <3>1, <3>2, <3>3, <3>4
  <2> QED BY <2>1, <2>2
<1>7. faults' \subseteq Worker
  BY <1>1 DEF SessionInv, TypeOK
<1> QED BY <1>1, <1>2, <1>3, <1>4, <1>5, <1>6, <1>7, SettledKeeps

\* What failed is unsound, and nothing else is marked.
LEMMA RejectRight ==
  ASSUME SessionInv, NEW marks \in BOOLEAN, Reject(marks), pending # NoJob, Continues,
         marks /\ pending.action = "read" => pending.over \cap Sound[pending.file] = {}
  PROVE  /\ pending' = NoJob /\ busy' = FALSE /\ shown' = shown /\ saved' = saved
         /\ epoch \notin fetching /\ dismissed = FALSE
         /\ checks' \in [Entry -> Belief]
         /\ shown # None => \A e \in Entry : checks'[e] # "unchecked" =>
                (checks'[e] = "verified" <=> e \in Sound[shown])
<1>1. /\ pending' = NoJob /\ busy' = FALSE /\ shown' = shown /\ saved' = saved
      /\ checks' = IF marks /\ pending.action = "read" THEN Believe(pending.over, {}) ELSE checks
  BY DEF Reject
<1>2. epoch \notin fetching /\ dismissed = FALSE
  BY DEF SessionInv, TypeOK, PendingCurrent, BusyWhileWorking
<1>3. /\ checks' \in [Entry -> Belief]
      /\ shown # None => \A e \in Entry : checks'[e] # "unchecked" =>
             (checks'[e] = "verified" <=> e \in Sound[shown])
  <2>1. CASE marks /\ pending.action = "read"
    <3>1. {} = pending.over \cap Sound[shown] /\ pending.over \in SUBSET Entry
      BY <2>1 DEF SessionInv, TypeOK, PendingCurrent, Job
    <3> QED BY <1>1, <2>1, <3>1, BelieveRight
  <2>2. CASE ~(marks /\ pending.action = "read")
    BY <1>1, <2>2 DEF SessionInv, TypeOK, ChecksAreTrue
  <2> QED BY <2>1, <2>2
<1> QED BY <1>1, <1>2, <1>3

LEMMA ReplyErrorKeeps ==
  ASSUME SessionInv, NEW w \in Worker, ReplyError(w)
  PROVE  SessionInv'
<1> DEFINE reply == Head(mail[w])
<1>1. /\ Take(w) /\ Expected(reply) /\ reply.kind = "error" /\ Reject(TRUE)
      /\ UNCHANGED <<worker, serial, epoch, fetching, started, alive, task, left, opened,
                     faults, dismissed>>
  BY DEF ReplyError, Take
<1>2. /\ mail' \in [Worker -> Seq(Reply)] /\ \A v \in Worker : Letters(v)' \subseteq Letters(v)
      /\ TrueLetter(reply) /\ Continues
  BY <1>1, ExpectedIsTrue
<1> HIDE DEF reply
<1>3. /\ pending # NoJob /\ \A v \in alive : task[v] = NoJob
      /\ pending.action = "read" => pending.over \cap Sound[pending.file] = {}
  BY <1>1, <1>2 DEF Expected, TrueLetter
<1>4. /\ pending' = NoJob /\ busy' = FALSE /\ shown' = shown /\ saved' = saved
      /\ epoch \notin fetching /\ dismissed = FALSE
      /\ checks' \in [Entry -> Belief]
      /\ shown # None => \A e \in Entry : checks'[e] # "unchecked" =>
             (checks'[e] = "verified" <=> e \in Sound[shown])
  BY <1>1, <1>2, <1>3, RejectRight
<1>5. /\ shown' \in Archive \cup {None} /\ faults' \subseteq Worker
      /\ worker' # 0 /\ shown' # None => opened[worker'] = shown'
      /\ saved' \subseteq [of: Archive \cup {None}, under: Archive \cup {None}, over: SUBSET Entry]
      /\ SavesAreVerified'
  BY <1>1, <1>4 DEF SessionInv, TypeOK, WorkerCurrent, SavesAreVerified
<1> QED BY <1>1, <1>2, <1>3, <1>4, <1>5, SettledKeeps

\* The page's worker is terminated and what is pending is rejected.
LEMMA StopKeeps ==
  ASSUME SessionInv, alive' = alive \ {worker}, worker' = 0,
         UNCHANGED <<serial, epoch, fetching, started, task, left, opened, mail, dismissed>>,
         faults' \subseteq faults,
         IF pending = NoJob THEN UNCHANGED <<pending, shown, checks, busy, saved>>
         ELSE Reject(FALSE)
  PROVE  SessionInv'
<1>1. pending # NoJob => Continues
  BY DEF SessionInv, PendingCurrent, Continues
<1>2. /\ pending' = NoJob /\ shown' = shown /\ saved' = saved
      /\ busy' \in BOOLEAN /\ (busy' <=> epoch \in fetching)
      /\ dismissed => shown = None /\ epoch \notin fetching
      /\ checks' \in [Entry -> Belief]
      /\ shown # None => \A e \in Entry : checks'[e] # "unchecked" =>
             (checks'[e] = "verified" <=> e \in Sound[shown])
  <2>1. CASE pending = NoJob
    BY <2>1 DEF SessionInv, TypeOK, BusyWhileWorking, ChecksAreTrue
  <2>2. CASE pending # NoJob
    BY <1>1, <2>2, RejectRight
  <2> QED BY <2>1, <2>2
<1>3. /\ shown' \in Archive \cup {None} /\ faults' \subseteq Worker /\ dismissed' \in BOOLEAN
      /\ mail' \in [Worker -> Seq(Reply)] /\ \A v \in Worker : Letters(v)' \subseteq Letters(v)
      /\ saved' \subseteq [of: Archive \cup {None}, under: Archive \cup {None}, over: SUBSET Entry]
      /\ SavesAreVerified'
  BY <1>2 DEF SessionInv, TypeOK, SavesAreVerified, Letters
<1>4. busy' <=> epoch' \in fetching
  BY <1>2
<1> QED BY <1>2, <1>3, <1>4, SettledKeeps

LEMMA ErrorEventKeeps ==
  ASSUME SessionInv, NEW w \in Worker, ErrorEvent(w)
  PROVE  SessionInv'
<1>1. /\ alive' = alive \ {worker} /\ worker' = 0 /\ faults' \subseteq faults
      /\ UNCHANGED <<serial, epoch, fetching, started, task, left, opened, mail, dismissed>>
      /\ IF pending = NoJob THEN UNCHANGED <<pending, shown, checks, busy, saved>>
         ELSE Reject(FALSE)
  BY DEF ErrorEvent
<1> QED BY <1>1, StopKeeps

LEMMA TimeLimitKeeps ==
  ASSUME SessionInv, TimeLimit
  PROVE  SessionInv'
<1>1. /\ alive' = alive \ {worker} /\ worker' = 0 /\ faults' \subseteq faults
      /\ UNCHANGED <<serial, epoch, fetching, started, task, left, opened, mail, dismissed>>
      /\ IF pending = NoJob THEN UNCHANGED <<pending, shown, checks, busy, saved>>
         ELSE Reject(FALSE)
  BY DEF TimeLimit
<1> QED BY <1>1, StopKeeps

-----------------------------------------------------------------------------
(***************************************************************************)
(* Every run.                                                              *)
(***************************************************************************)

LEMMA InitSession == Init => SessionInv
<1> SUFFICES ASSUME Init PROVE SessionInv
  OBVIOUS
<1> USE DEF Init
<1>1. MaxJobs \in Nat /\ Unchecked \in [Entry -> Belief]
  BY MaxJobsType DEF Unchecked, Belief
<1>2. mail \in [Worker -> Seq(Reply)]
  OBVIOUS
<1>3. TypeOK
  <2>1. 0 \in 0..MaxJobs /\ 0 \in 0..(3 * MaxJobs)
    BY <1>1
  <2>2. task \in [Worker -> Job \cup {NoJob}] /\ left \in [Worker -> SUBSET Entry]
    OBVIOUS
  <2>3. opened \in [Worker -> Archive \cup {None}]
    OBVIOUS
  <2> QED BY <1>1, <1>2, <2>1, <2>2, <2>3 DEF TypeOK
<1>4. Counted /\ PendingCurrent /\ WorkerCurrent
  BY <1>1 DEF Counted, PendingCurrent, WorkerCurrent
<1>5. \A w \in Worker : Letters(w) = {}
  BY DEF Letters
<1>6. LettersTrue
  BY <1>5 DEF LettersTrue
<1>7. ChecksAreTrue /\ SavesAreVerified /\ BusyWhileWorking /\ (dismissed => epoch \notin fetching)
  BY <1>3 DEF ChecksAreTrue, SavesAreVerified, BusyWhileWorking
<1> QED BY <1>3, <1>4, <1>6, <1>7 DEF SessionInv

LEMMA StutterKeeps ==
  ASSUME SessionInv, UNCHANGED vars
  PROVE  SessionInv'
<1>1. UNCHANGED <<worker, pending, serial, epoch, shown, checks, workers, saved>>
  BY DEF vars, workers
<1>2. fetching' = fetching /\ busy' = busy /\ dismissed' = dismissed
  BY DEF vars
<1>3. /\ fetching' \subseteq 0..(3 * MaxJobs) /\ \A t \in fetching' : t <= epoch /\ t < MaxJobs
      /\ pending # NoJob => epoch \notin fetching'
      /\ busy' \in BOOLEAN /\ (busy' <=> (pending # NoJob \/ epoch \in fetching'))
      /\ dismissed' \in BOOLEAN /\ (dismissed' => dismissed /\ epoch \notin fetching')
  BY <1>2 DEF SessionInv, TypeOK, Counted, PendingCurrent, BusyWhileWorking
<1> QED BY <1>1, <1>3, FetchingKeeps

LEMMA NextKeeps ==
  ASSUME SessionInv, [Next]_vars
  PROVE  SessionInv'
<1>1. CASE User
  <2>1. ASSUME NEW file \in Archive, ChooseFile(file) PROVE SessionInv'
    BY <2>1, ChooseFileKeeps
  <2>2. CASE ChooseSample
    BY <2>2, ChooseSampleKeeps
  <2>3. CASE Verify
    BY <2>3, AskKeeps DEF Verify
  <2>4. CASE Cancel
    BY <2>4, CancelKeeps
  <2>5. ASSUME NEW e \in Entry, Download(e) PROVE SessionInv'
    BY <2>5, AskKeeps DEF Download
  <2>6. ASSUME NEW over \in SUBSET Entry, SaveZip(over) PROVE SessionInv'
    BY <2>6, AskKeeps DEF SaveZip
  <2> QED BY <1>1, <2>1, <2>2, <2>3, <2>4, <2>5, <2>6 DEF User
<1>2. CASE Fetch
  BY <1>2, SampleArrivesKeeps, SampleFailsKeeps, SampleIgnoredKeeps DEF Fetch
<1>3. CASE TimeLimit
  BY <1>3, TimeLimitKeeps
<1>4. ASSUME NEW w \in Worker, WorkerSteps(w) PROVE SessionInv'
  BY <1>4, NotLoadedKeeps, WorkerOpensKeeps, WorkerVerifiedKeeps, WorkerReadsKeeps,
     WorkerZippedKeeps, WorkerRefusesKeeps, WorkerVerifiesKeeps, WorkerZipsKeeps,
     WorkerStopsZipKeeps DEF WorkerSteps
<1>5. ASSUME NEW w \in Worker, Events(w) PROVE SessionInv'
  BY <1>5, IgnoreKeeps, ProgressKeeps, SucceedKeeps, ReplyErrorKeeps, ErrorEventKeeps DEF Events
<1>6. CASE UNCHANGED vars
  BY <1>6, StutterKeeps
<1> QED BY <1>1, <1>2, <1>3, <1>4, <1>5, <1>6 DEF Next

LEMMA Sessions == Spec => []SessionInv
<1>1. Init => SessionInv
  BY InitSession
<1>2. SessionInv /\ [Next]_vars => SessionInv'
  BY NextKeeps
<1> QED BY <1>1, <1>2, PTL DEF Spec

\* Every variable keeps its type: the serial numbers, the epochs and the workers
\* stay within the bounds that their guards set.
THEOREM SessionTypes == Spec => []TypeOK
<1>1. SessionInv => TypeOK
  BY DEF SessionInv
<1> QED BY <1>1, Sessions, PTL

\* A mark beside an entry is true of the archive on show (handleMessage and the
\* continuations of app.js), whatever replies arrive late.
THEOREM MarksTrue == Spec => []ChecksAreTrue
<1>1. SessionInv => ChecksAreTrue
  BY DEF SessionInv
<1> QED BY <1>1, Sessions, PTL

\* Whatever is saved is of the archive on show and has passed its checksum; a ZIP
\* holds all that was asked for (read and zip of worker.js, saveBytes of app.js).
THEOREM SavesTrue == Spec => []SavesAreVerified
<1>1. SessionInv => SavesAreVerified
  BY DEF SessionInv
<1> QED BY <1>1, Sessions, PTL

\* The page is locked exactly while something of its own is under way, and stays
\* closed once it has been cancelled (setBusy, cancel and stopWorker of app.js).
THEOREM BusyRight == Spec => []BusyWhileWorking
<1>1. SessionInv => BusyWhileWorking
  BY DEF SessionInv
<1> QED BY <1>1, Sessions, PTL
====
