--------------------------- MODULE BrowserSession ---------------------------
(***************************************************************************)
(* The browser reader: the page (web/app.js), its dedicated worker         *)
(* (web/worker.js) and the messages between them.                          *)
(*                                                                         *)
(* The page keeps one job pending and starts a worker when it opens an     *)
(* archive; cancelling, a time limit and an error terminate the worker and *)
(* the next open starts another.  Workers are numbered in the order they   *)
(* are started.  Nothing promises the page that a terminated worker's      *)
(* events are gone: replies and errors it sent before may still arrive.    *)
(***************************************************************************)
EXTENDS Naturals, Sequences, FiniteSets

CONSTANTS
    Archive,    \* files the user may choose
    Sample,     \* the archive behind the sample button
    Unreadable, \* archives whose directory does not parse
    Entry,      \* the indices of the file entries
    Sound,      \* Sound[a]: the entries of a that pass their checksum
    None,       \* no archive
    MaxJobs     \* bound: requests the page sends, cancellations of a sample

ASSUME ArchivesType == Sample \in Archive /\ Unreadable \subseteq Archive
ASSUME SoundType == Sound \in [Archive -> SUBSET Entry]
ASSUME NoneIsNoArchive == None \notin Archive
ASSUME MaxJobsType == MaxJobs \in Nat

Worker == 1..MaxJobs
Job == [id: 1..MaxJobs, action: {"open", "verify", "read", "zip"},
        file: Archive \cup {None}, over: SUBSET Entry, token: 0..(3 * MaxJobs)]
NoJob == [id |-> 0, action |-> "none", file |-> None, over |-> {}, token |-> 0]

VARIABLES
    (* The page. *)
    worker,     \* the worker it talks to, 0 for null
    pending,    \* its job, or NoJob
    serial, epoch,
    shown,      \* currentFile and its entries
    checks,     \* per entry: what the page believes of it
    busy,
    fetching,   \* the tokens of sample downloads under way
    (* The workers and what is between them and the page. *)
    started,    \* how many workers there have been
    alive,      \* the workers that run
    task,       \* per worker: the request it works on
    left,       \* per worker: the entries still to check
    opened,     \* per worker: the archive its decoder has open
    mail,       \* per worker: replies on their way to the page
    faults,     \* workers whose error event is on its way
    (* Observers. *)
    saved,      \* what was offered for download, and under which archive
    dismissed   \* the user has cancelled and chosen nothing since

page == <<worker, pending, serial, epoch, shown, checks, busy, fetching>>
workers == <<started, alive, task, left, opened, mail, faults>>
vars == <<worker, pending, serial, epoch, shown, checks, busy, fetching,
          started, alive, task, left, opened, mail, faults, saved, dismissed>>

Belief == {"unchecked", "verified", "failed"}
Reply == [id: 1..MaxJobs, kind: {"progress", "result", "error"},
          over: SUBSET Entry, sound: SUBSET Entry, of: Archive \cup {None}]

TypeOK ==
    /\ worker \in 0..MaxJobs
    /\ pending \in Job \cup {NoJob}
    /\ serial \in 0..MaxJobs
    /\ epoch \in 0..(3 * MaxJobs)
    /\ shown \in Archive \cup {None}
    /\ checks \in [Entry -> Belief]
    /\ busy \in BOOLEAN
    /\ fetching \subseteq 0..(3 * MaxJobs)
    /\ started \in 0..MaxJobs
    /\ alive \subseteq Worker
    /\ task \in [Worker -> Job \cup {NoJob}]
    /\ left \in [Worker -> SUBSET Entry]
    /\ opened \in [Worker -> Archive \cup {None}]
    /\ mail \in [Worker -> Seq(Reply)]
    /\ faults \subseteq Worker
    /\ saved \subseteq [of: Archive \cup {None}, under: Archive \cup {None}, over: SUBSET Entry]
    /\ dismissed \in BOOLEAN

-----------------------------------------------------------------------------
(***************************************************************************)
(* The page's requests.                                                    *)
(***************************************************************************)
Unchecked == [e \in Entry |-> "unchecked"]
Believe(over, sound) ==
    [e \in Entry |-> IF e \notin over THEN checks[e]
                     ELSE IF e \in sound THEN "verified" ELSE "failed"]

\* request: the job gets the next number and its message goes to worker w.
Send(w, action, file, over, token) ==
    LET job == [id |-> serial + 1, action |-> action, file |-> file,
                over |-> over, token |-> token]
    IN  /\ serial < MaxJobs
        /\ serial' = serial + 1
        /\ pending' = job
        /\ task' = [task EXCEPT ![w] = job]
        /\ left' = [left EXCEPT ![w] = over]

\* openArchive: the worker, the job and everything shown are dropped first.
OpenArchive(file) ==
    /\ epoch' = epoch + 1
    /\ started' = started + 1
    /\ worker' = started + 1
    /\ alive' = (alive \ {worker}) \cup {started + 1}
    /\ Send(started + 1, "open", file, {}, epoch + 1)
    /\ shown' = None
    /\ checks' = Unchecked
    /\ busy' = TRUE
    /\ UNCHANGED <<opened, mail, faults, saved>>

\* The file input is disabled while the page is busy; a drop is ignored.
ChooseFile(file) ==
    /\ ~busy
    /\ OpenArchive(file)
    /\ dismissed' = FALSE
    /\ UNCHANGED fetching

\* The sample is fetched first.
ChooseSample ==
    /\ ~busy
    /\ serial < MaxJobs /\ epoch < MaxJobs
    /\ fetching' = fetching \cup {epoch}
    /\ busy' = TRUE
    /\ dismissed' = FALSE
    /\ UNCHANGED <<worker, pending, serial, epoch, shown, checks, workers, saved>>

SampleArrives(token) ==
    /\ token \in fetching
    /\ token = epoch
    /\ fetching' = fetching \ {token}
    /\ OpenArchive(Sample)
    /\ UNCHANGED dismissed

SampleFails(token) ==
    /\ token \in fetching
    /\ fetching' = fetching \ {token}
    /\ busy' = (busy /\ token # epoch)
    /\ UNCHANGED <<worker, pending, serial, epoch, shown, checks, workers, saved, dismissed>>

SampleIgnored(token) ==
    /\ token \in fetching
    /\ token # epoch
    /\ fetching' = fetching \ {token}
    /\ UNCHANGED <<worker, pending, serial, epoch, shown, checks, busy, workers, saved, dismissed>>

\* Verify, download and ZIP: their buttons need a worker and an archive.
Ask(action, over) ==
    /\ ~busy /\ worker # 0 /\ shown # None
    /\ Send(worker, action, shown, over, epoch)
    /\ busy' = TRUE
    /\ UNCHANGED <<worker, epoch, shown, checks, fetching, started, alive,
                   opened, mail, faults, saved, dismissed>>

Verify == Ask("verify", Entry)
Download(e) == Ask("read", {e})
SaveZip(over) == over # {} /\ Ask("zip", over)

Cancel ==
    /\ busy
    /\ epoch' = epoch + 1
    /\ worker' = 0
    /\ alive' = alive \ {worker}
    /\ pending' = NoJob
    /\ shown' = None
    /\ busy' = FALSE
    /\ dismissed' = TRUE
    /\ UNCHANGED <<serial, checks, fetching, started, task, left, opened, mail,
                   faults, saved>>

-----------------------------------------------------------------------------
(***************************************************************************)
(* A worker.                                                               *)
(***************************************************************************)
Works(w, actions) == w \in alive /\ task[w].action \in actions

Post(w, kind, over, sound) ==
    mail' = [mail EXCEPT ![w] = Append(@,
        [id |-> task[w].id, kind |-> kind, over |-> over, sound |-> sound,
         of |-> opened'[w]])]

Done(w) ==
    /\ task' = [task EXCEPT ![w] = NoJob]
    /\ left' = [left EXCEPT ![w] = {}]

\* The script does not load.
NotLoaded(w) ==
    /\ Works(w, {"open"})
    /\ alive' = alive \ {w}
    /\ faults' = faults \cup {w}
    /\ UNCHANGED <<page, started, task, left, opened, mail, saved, dismissed>>

WorkerOpens(w) ==
    /\ Works(w, {"open"})
    /\ IF task[w].file \in Unreadable
       THEN /\ opened' = [opened EXCEPT ![w] = None]
            /\ Post(w, "error", {}, {})
       ELSE /\ opened' = [opened EXCEPT ![w] = task[w].file]
            /\ Post(w, "result", {}, {})
    /\ Done(w)
    /\ UNCHANGED <<page, started, alive, faults, saved, dismissed>>

\* What is to be verified or saved exceeds a limit.
WorkerRefuses(w) ==
    /\ Works(w, {"verify", "zip"})
    /\ left[w] = task[w].over
    /\ UNCHANGED opened
    /\ Post(w, "error", {}, {})
    /\ Done(w)
    /\ UNCHANGED <<page, started, alive, faults, saved, dismissed>>

\* verify goes on after an entry that fails.
WorkerVerifies(w, e) ==
    /\ Works(w, {"verify"})
    /\ e \in left[w]
    /\ UNCHANGED opened
    /\ Post(w, "progress", {e}, {e} \cap Sound[opened[w]])
    /\ left' = [left EXCEPT ![w] = @ \ {e}]
    /\ UNCHANGED <<page, started, alive, task, faults, saved, dismissed>>

WorkerVerified(w) ==
    /\ Works(w, {"verify"})
    /\ left[w] = {}
    /\ UNCHANGED opened
    /\ Post(w, "result", task[w].over, task[w].over \cap Sound[opened[w]])
    /\ Done(w)
    /\ UNCHANGED <<page, started, alive, faults, saved, dismissed>>

WorkerReads(w) ==
    /\ Works(w, {"read"})
    /\ UNCHANGED opened
    /\ IF task[w].over \subseteq Sound[opened[w]]
       THEN Post(w, "result", task[w].over, task[w].over)
       ELSE Post(w, "error", task[w].over, {})
    /\ Done(w)
    /\ UNCHANGED <<page, started, alive, faults, saved, dismissed>>

\* Faulty variant: zip leaves out what fails.
WorkerZipsRest(w, e) ==
    /\ Works(w, {"zip"})
    /\ e \in left[w]
    /\ UNCHANGED opened
    /\ Post(w, "progress", {e}, {e} \cap Sound[opened[w]])
    /\ left' = [left EXCEPT ![w] = @ \ {e}]
    /\ UNCHANGED <<page, started, alive, task, faults, saved, dismissed>>

\* zip stops at an entry that fails.
WorkerZips(w, e) ==
    /\ Works(w, {"zip"})
    /\ e \in left[w]
    /\ e \in Sound[opened[w]]
    /\ UNCHANGED opened
    /\ Post(w, "progress", {e}, {e})
    /\ left' = [left EXCEPT ![w] = @ \ {e}]
    /\ UNCHANGED <<page, started, alive, task, faults, saved, dismissed>>

WorkerStopsZip(w, e) ==
    /\ Works(w, {"zip"})
    /\ e \in left[w]
    /\ e \notin Sound[opened[w]]
    /\ UNCHANGED opened
    /\ mail' = [mail EXCEPT ![w] = @ \o
          <<[id |-> task[w].id, kind |-> "progress", over |-> {e}, sound |-> {}, of |-> opened[w]],
            [id |-> task[w].id, kind |-> "error", over |-> {}, sound |-> {}, of |-> opened[w]]>>]
    /\ Done(w)
    /\ UNCHANGED <<page, started, alive, faults, saved, dismissed>>

WorkerZipped(w) ==
    /\ Works(w, {"zip"})
    /\ left[w] = {}
    /\ UNCHANGED opened
    /\ Post(w, "result", task[w].over, task[w].over)
    /\ Done(w)
    /\ UNCHANGED <<page, started, alive, faults, saved, dismissed>>

-----------------------------------------------------------------------------
(***************************************************************************)
(* What the page does with events.                                         *)
(***************************************************************************)
Expected(reply) == pending # NoJob /\ reply.id = pending.id

\* The next reply of w is taken off its queue.
Take(w) ==
    /\ mail[w] # <<>>
    /\ mail' = [mail EXCEPT ![w] = Tail(@)]
    /\ UNCHANGED <<serial, epoch, fetching, started, alive, task, left, opened,
                   faults, dismissed>>

Ignore(w) ==
    /\ Take(w)
    /\ ~Expected(Head(mail[w]))
    /\ UNCHANGED <<worker, pending, shown, checks, busy, saved>>

\* Faulty variant: progress is believed whichever job it belongs to.
ProgressOfAny(w) ==
    LET reply == Head(mail[w]) IN
    /\ Take(w)
    /\ pending # NoJob
    /\ reply.kind = "progress"
    /\ checks' = Believe(reply.over, reply.sound)
    /\ UNCHANGED <<worker, pending, shown, busy, saved>>

Progress(w) ==
    LET reply == Head(mail[w]) IN
    /\ Take(w)
    /\ Expected(reply)
    /\ reply.kind = "progress"
    /\ checks' = Believe(reply.over, reply.sound)
    /\ UNCHANGED <<worker, pending, shown, busy, saved>>

\* The continuations only act if the epoch is still their own.
Continues == pending.token = epoch

\* Faulty variant: the finished job leaves the page busy.
SucceedStuck(w) ==
    LET reply == Head(mail[w]) IN
    /\ Take(w)
    /\ Expected(reply)
    /\ reply.kind = "result"
    /\ pending' = NoJob
    /\ shown' = IF pending.action = "open" THEN pending.file ELSE shown
    /\ checks' = Believe(reply.over, reply.sound)
    /\ UNCHANGED <<worker, busy, saved>>

Succeed(w) ==
    LET reply == Head(mail[w]) IN
    /\ Take(w)
    /\ Expected(reply)
    /\ reply.kind = "result"
    /\ pending' = NoJob
    /\ UNCHANGED worker
    /\ IF ~Continues
       THEN UNCHANGED <<shown, checks, busy, saved>>
       ELSE /\ shown' = IF pending.action = "open" THEN pending.file ELSE shown
            /\ checks' = IF pending.action \in {"verify", "read"}
                         THEN Believe(reply.over, reply.sound) ELSE checks
            /\ saved' = IF pending.action \in {"read", "zip"}
                        THEN saved \cup {[of |-> reply.of, under |-> shown, over |-> reply.over]}
                        ELSE saved
            /\ busy' = FALSE

\* A download that fails while the worker lives marks its entry.
Reject(marks) ==
    /\ pending' = NoJob
    /\ IF ~Continues
       THEN UNCHANGED <<checks, busy>>
       ELSE /\ checks' = IF marks /\ pending.action = "read"
                         THEN Believe(pending.over, {}) ELSE checks
            /\ busy' = FALSE
    /\ UNCHANGED <<shown, saved>>

ReplyError(w) ==
    /\ Take(w)
    /\ Expected(Head(mail[w]))
    /\ Head(mail[w]).kind = "error"
    /\ Reject(TRUE)
    /\ UNCHANGED worker

\* onerror rejects whatever is pending and terminates whatever worker there is.
ErrorEvent(w) ==
    /\ w \in faults
    /\ faults' = faults \ {w}
    /\ alive' = alive \ {worker}
    /\ worker' = 0
    /\ IF pending = NoJob THEN UNCHANGED <<pending, shown, checks, busy, saved>>
       ELSE Reject(FALSE)
    /\ UNCHANGED <<serial, epoch, fetching, started, task, left, opened, mail, dismissed>>

\* Faulty variant: the time limit leaves the promise unsettled.
TimeLimitSilent ==
    /\ pending # NoJob
    /\ alive' = alive \ {worker}
    /\ worker' = 0
    /\ pending' = NoJob
    /\ UNCHANGED <<serial, epoch, fetching, shown, checks, busy, saved, started,
                   task, left, opened, mail, faults, dismissed>>

TimeLimit ==
    /\ pending # NoJob
    /\ alive' = alive \ {worker}
    /\ worker' = 0
    /\ Reject(FALSE)
    /\ UNCHANGED <<serial, epoch, fetching, started, task, left, opened, mail,
                   faults, dismissed>>

-----------------------------------------------------------------------------
Init ==
    /\ worker = 0 /\ pending = NoJob /\ serial = 0 /\ epoch = 0
    /\ shown = None /\ checks = Unchecked /\ busy = FALSE /\ fetching = {}
    /\ started = 0 /\ alive = {}
    /\ task = [w \in Worker |-> NoJob]
    /\ left = [w \in Worker |-> {}]
    /\ opened = [w \in Worker |-> None]
    /\ mail = [w \in Worker |-> <<>>]
    /\ faults = {}
    /\ saved = {} /\ dismissed = FALSE

User ==
    \/ \E file \in Archive : ChooseFile(file)
    \/ ChooseSample \/ Verify \/ Cancel
    \/ \E e \in Entry : Download(e)
    \/ \E over \in SUBSET Entry : SaveZip(over)

Fetch == \E token \in fetching :
    SampleArrives(token) \/ SampleFails(token) \/ SampleIgnored(token)

WorkerSteps(w) ==
    \/ NotLoaded(w) \/ WorkerOpens(w) \/ WorkerVerified(w) \/ WorkerReads(w)
    \/ WorkerZipped(w) \/ WorkerRefuses(w)
    \/ \E e \in Entry : WorkerVerifies(w, e) \/ WorkerZips(w, e) \/ WorkerStopsZip(w, e)

Events(w) ==
    Ignore(w) \/ Progress(w) \/ Succeed(w) \/ ReplyError(w) \/ ErrorEvent(w)

Next ==
    \/ User \/ Fetch \/ TimeLimit
    \/ \E w \in Worker : WorkerSteps(w) \/ Events(w)

Spec == Init /\ [][Next]_vars

\* The timer fires in the end, because its limit of five minutes is not extended
\* by progress, and a fetch is answered or fails.  A worker may hang for ever.
FairSpec == Spec /\ WF_vars(TimeLimit) /\ WF_vars(Fetch)

-----------------------------------------------------------------------------
(***************************************************************************)
(* Properties.                                                             *)
(***************************************************************************)

\* A mark beside an entry is true of the archive on show, whatever replies of
\* cancelled jobs and earlier archives arrive late.
ChecksAreTrue ==
    /\ TypeOK
    /\ shown # None =>
        \A e \in Entry : checks[e] # "unchecked" =>
            (checks[e] = "verified" <=> e \in Sound[shown])

\* What is offered for download comes from the archive on show, and all of it
\* passed its checksum; a ZIP is never partial.
SavesAreVerified ==
    \A s \in saved : s.of = s.under /\ s.over \subseteq Sound[s.of]

\* The page is busy exactly while something of its own is under way, so that it
\* neither stays locked nor lets a second job in; and after Cancel nothing opens
\* until the user chooses an archive, whatever was still being fetched.
BusyWhileWorking ==
    /\ busy <=> (pending # NoJob \/ epoch \in fetching)
    /\ dismissed => shown = None /\ pending = NoJob

\* Whatever hangs, the page takes requests again.
BusyEnds == busy ~> ~busy

=============================================================================
