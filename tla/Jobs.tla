-------------------------------- MODULE Jobs --------------------------------
(***************************************************************************)
(* The background commands of one environment: the jobs that fern-init     *)
(* keeps in the box (internal/boxexec/jobs.go), and the daemon's records   *)
(* and watches of them (internal/api/server/jobs.go), through the box's    *)
(* stops, the daemon's shutdown and crash, and the next daemon's adoption. *)
(*                                                                         *)
(* A box is named by the number of its wake: a stopped box's jobs are gone,*)
(* and the next wake is another box at the same address book entry.  A     *)
(* job's output is abstracted to whether some of it is unread.  What puts  *)
(* boxes to sleep is the actor's business (module Actors): here a box that *)
(* may be stopped, and woken by other commands, whenever the daemon is up. *)
(* The boxes, calls and stops that fail are counted in one bound.          *)
(***************************************************************************)
EXTENDS Naturals, Sequences, FiniteSets, SequencesExt

CONSTANTS Jobs,        \* the IDs startJob may draw
          MaxWatches,  \* bound: the daemon's job values, each a record and its watch
          Callers,     \* calls of BashOutput and KillShell
          MaxJobs,     \* boxexec.MaxJobs
          MaxBoxes,    \* bound: wakes of the box
          MaxRestarts, \* bound: restarts of the daemon
          MaxErrors,   \* bound: calls to a box that is up, and stops of it, that fail, and deaths of boxes
          None

Watches == 1..MaxWatches

ASSUME JobsAssumption == /\ MaxJobs \in Nat \ {0} /\ MaxBoxes \in Nat /\ MaxRestarts \in Nat
                         /\ MaxWatches \in Nat /\ MaxErrors \in Nat
                         /\ None \notin Jobs \cup Callers \cup Nat

VARIABLES box,    \* the box: the number of its wake, and what fern-init does
          jobs,   \* Jobs.jobs in the box, oldest first
          job,    \* the commands themselves
          actor,  \* the box's actor: it is in stopBox; it has an address of the box
          errors, \* how many errors there have been
          daemon, \* the daemon, and its jobs.closed
          kept,   \* jobs.byEnv: the record of each job
          watch,  \* the records and their watches
          adopt,  \* AdoptJobs; history: the jobs that ran when the daemon started
          call    \* readJob and killJob

vars == <<box, jobs, job, actor, errors, daemon, kept, watch, adopt, call>>

Free == [at |-> "free", job |-> None, box |-> 0, counted |-> FALSE, cancelled |-> FALSE,
         gone |-> FALSE, missed |-> FALSE]
Idle == [at |-> "idle", op |-> "read", w |-> None, done |-> FALSE]

\* The command of job j runs, in the box that is there now.
Running(j) == job[j].at = "running"
Recorded == {j \in Jobs : kept[j] # None}

TypeOK ==
    /\ box \in [n : 0..MaxBoxes, at : {"off", "on", "stopping"}]
    /\ jobs \in Seq(Jobs) /\ IsInjective(jobs) /\ Len(jobs) <= MaxJobs
    /\ job \in [Jobs -> [at : {"new", "running", "ended", "stopped"}, unread : BOOLEAN]]
    /\ actor \in [stops : BOOLEAN, addr : BOOLEAN]
    /\ errors \in 0..MaxErrors
    /\ daemon \in [at : {"up", "draining", "closed", "waited", "down"}, restarts : 0..MaxRestarts]
    /\ kept \in [Jobs -> Watches \cup {None}]
    /\ watch \in [Watches -> [at : {"free", "opened", "adopting", "started", "waiting", "ended"}, job : Jobs \cup {None},
                              box : 0..MaxBoxes, counted : BOOLEAN, cancelled : BOOLEAN, gone : BOOLEAN, missed : BOOLEAN]]
    /\ adopt \in [at : {"start", "listed", "opened", "failed", "done"}, todo : Seq(Jobs), ran : SUBSET Jobs]
    /\ call \in [Callers -> [at : {"idle", "asked", "killing", "found", "taking", "running", "ended", "stopped"},
                             op : {"read", "kill"}, w : Watches \cup {None}, done : BOOLEAN]]

Init ==
    /\ box = [n |-> 0, at |-> "off"]
    /\ jobs = <<>>
    /\ job = [j \in Jobs |-> [at |-> "new", unread |-> FALSE]]
    /\ actor = [stops |-> FALSE, addr |-> FALSE]
    /\ errors = 0
    /\ daemon = [at |-> "up", restarts |-> 0]
    /\ kept = [j \in Jobs |-> None]
    /\ watch = [w \in Watches |-> Free]
    /\ adopt = [at |-> "done", todo |-> <<>>, ran |-> {}]
    /\ call = [c \in Callers |-> Idle]

-----------------------------------------------------------------------------
(* In the box: boxexec.Jobs *)

\* The command prints.
Write(j) ==
    /\ Running(j)
    /\ job' = [job EXCEPT ![j].unread = TRUE]
    /\ UNCHANGED <<box, jobs, actor, errors, daemon, kept, watch, adopt, call>>

\* The command exits, by itself or killed: cmd.Wait has copied its output, and ended is closed.
Exit(j) ==
    /\ Running(j)
    /\ job' = [job EXCEPT ![j].at = "ended"]
    /\ UNCHANGED <<box, jobs, actor, errors, daemon, kept, watch, adopt, call>>

\* The list once start has made room for one more job, by forgetting the oldest finished one: none, if all of
\* MaxJobs jobs run.
Room ==
    IF Len(jobs) < MaxJobs THEN {jobs}
    ELSE {RemoveAt(jobs, i) : i \in {k \in DOMAIN jobs : ~Running(jobs[k]) /\ \A h \in 1..(k - 1) : Running(jobs[h])}}

\* start, in the box: the job is kept, and its command runs.
StartIn(j) ==
    /\ \E room \in Room : jobs' = Append(room, j)
    /\ job' = [job EXCEPT ![j].at = "running"]

-----------------------------------------------------------------------------
(* The box and its actor *)

\* One more error.
Error == errors < MaxErrors /\ errors' = errors + 1

Serving == daemon.at \in {"up", "draining"}

\* The box of a wake: the one whose address the actor has, or that runs; else a new one.
Wake ==
    /\ daemon.at = "up" /\ ~actor.stops
    /\ box.at = "off" /\ ~actor.addr => box.n < MaxBoxes
    /\ box' = IF box.at = "off" /\ ~actor.addr THEN [n |-> box.n + 1, at |-> "on"] ELSE box
    /\ actor' = [actor EXCEPT !.addr = TRUE]

\* Another command finds that the box's address does not answer, and has the box woken again.
Redial ==
    /\ daemon.at = "up" /\ ~actor.stops /\ actor.addr /\ box.at = "off" /\ box.n < MaxBoxes
    /\ box' = [n |-> box.n + 1, at |-> "on"]
    /\ UNCHANGED <<jobs, job, actor, errors, daemon, kept, watch, adopt, call>>

\* The actor stops the box: it forgets the address, and the driver asks fern-init to stop.  (The stop of a box
\* that is gone, with nothing counted, changes nothing.)
StopBox_CancelFirst ==
    /\ Serving /\ ~actor.stops /\ (box.at # "off" \/ \E w \in Watches : watch[w].counted)
    /\ actor' = [stops |-> TRUE, addr |-> FALSE]
    /\ box' = IF box.at = "on" THEN [box EXCEPT !.at = "stopping"] ELSE box
    /\ watch' = [w \in Watches |-> IF watch[w].counted
                                   THEN [watch[w] EXCEPT !.counted = FALSE, !.cancelled = TRUE] ELSE watch[w]]
    /\ UNCHANGED <<jobs, job, errors, daemon, kept, adopt, call>>
StopBox ==
    /\ Serving /\ ~actor.stops /\ (box.at # "off" \/ \E w \in Watches : watch[w].counted)
    /\ actor' = [stops |-> TRUE, addr |-> FALSE]
    /\ box' = IF box.at = "on" THEN [box EXCEPT !.at = "stopping"] ELSE box
    /\ UNCHANGED <<jobs, job, errors, daemon, kept, watch, adopt, call>>

Ended == [j \in Jobs |-> IF job[j].at \in {"running", "ended"} THEN [at |-> "stopped", unread |-> FALSE] ELSE job[j]]

\* The box is gone: Jobs.Close has killed its jobs and they have ended, or the driver's grace is over and
\* everything is killed.
BoxGone ==
    /\ box.at = "stopping"
    /\ actor.stops \/ \A j \in Jobs : ~Running(j)
    /\ box' = [box EXCEPT !.at = "off"]
    /\ jobs' = <<>> /\ job' = Ended
    /\ UNCHANGED <<actor, errors, daemon, kept, watch, adopt, call>>

\* The box dies, and its actor does not know.
BoxDies ==
    /\ box.at = "on" /\ Error
    /\ box' = [box EXCEPT !.at = "off"]
    /\ jobs' = <<>> /\ job' = Ended
    /\ UNCHANGED <<actor, daemon, kept, watch, adopt, call>>

\* The stop has succeeded: the actor cancels what it counts in the box.
Stopped ==
    /\ actor.stops /\ box.at = "off"
    /\ actor' = [actor EXCEPT !.stops = FALSE]
    /\ watch' = [w \in Watches |-> IF watch[w].counted
                                   THEN [watch[w] EXCEPT !.counted = FALSE, !.cancelled = TRUE] ELSE watch[w]]
    /\ UNCHANGED <<box, jobs, job, errors, daemon, kept, adopt, call>>

\* The stop fails, at any of its steps: the actor returns the error and cancels nothing.
StopFails ==
    /\ actor.stops /\ Error
    /\ actor' = [actor EXCEPT !.stops = FALSE]
    /\ UNCHANGED <<box, jobs, job, daemon, kept, watch, adopt, call>>

-----------------------------------------------------------------------------
(* The daemon: startJob, openJob, keepJob *)

\* A job value that nothing refers to, and the first of them.
Unused(w) == /\ watch[w].at = "free" \/ (watch[w].at = "ended" /\ \A j \in Jobs : kept[j] # w)
             /\ \A c \in Callers : call[c].w # w
FirstUnused(w) == Unused(w) /\ \A v \in 1..(w - 1) : ~Unused(v)

\* openJob: the actor counts a job of the box, which it wakes if it sleeps.  It handles one change at a time.
OpenJob(w, j, at) ==
    /\ FirstUnused(w) /\ Wake
    /\ watch' = [watch EXCEPT ![w] = [Free EXCEPT !.at = at, !.job = j, !.box = box'.n, !.counted = TRUE]]

\* startJob draws an ID and opens its count.
StartJob(w, j) ==
    /\ job[j].at = "new" /\ \A v \in Watches : watch[v].job # j
    /\ OpenJob(w, j, "opened")
    /\ UNCHANGED <<jobs, job, errors, daemon, kept, adopt, call>>

Reachable(w) == box.at # "off" /\ watch[w].box = box.n

\* The box's start handler takes the request and the daemon gets the answer.
Started(w) ==
    /\ watch[w].at = "opened" /\ Serving
    /\ Reachable(w) /\ StartIn(watch[w].job)
    /\ watch' = [watch EXCEPT ![w].at = "started"]
    /\ UNCHANGED <<box, actor, errors, daemon, kept, adopt, call>>

\* Start fails: the box is gone or full, the command cannot be started, after start has made room for it, or
\* the call is cut off before the job was started or after.
StartFails(w) ==
    /\ watch[w].at = "opened" /\ Serving
    /\ watch' = [watch EXCEPT ![w] = Free]
    /\ \/ UNCHANGED <<jobs, job>>
       \/ Reachable(w) /\ jobs' \in Room /\ UNCHANGED job
       \/ Reachable(w) /\ StartIn(watch[w].job)
    /\ UNCHANGED <<box, actor, errors, daemon, kept, adopt, call>>

\* The records once job j's is w: those of stopped boxes go, once there are many.
KeptWith(j, w) ==
    LET with == [kept EXCEPT ![j] = w]
    IN  IF Cardinality(Recorded \cup {j}) > 2 * MaxJobs
        THEN [i \in Jobs |-> IF with[i] # None /\ watch[with[i]].gone THEN None ELSE with[i]]
        ELSE with

\* keepJob records the job, and its watch asks the box to tell when the job ends.
KeepJob(w) ==
    /\ watch[w].at \in {"started", "adopting"} /\ daemon.at # "down"
    /\ kept' = KeptWith(watch[w].job, w)
    /\ watch' = [watch EXCEPT ![w].at = "waiting"]
    /\ adopt' = IF watch[w].at = "adopting" THEN [adopt EXCEPT !.at = "listed", !.todo = Tail(@)] ELSE adopt
    /\ UNCHANGED <<box, jobs, job, actor, errors, daemon, call>>

\* Wait returns: its context is cancelled, or the job has ended, or fern-init stops, which ends the handler's
\* context and answers as well.
WaitAnswers(w) == watch[w].cancelled \/ (Reachable(w) /\ (~Running(watch[w].job) \/ box.at = "stopping"))

\* Wait fails: the box is gone or doesn't have the job.
WaitFails(w) == ~Reachable(w) \/ watch[w].job \notin Range(jobs)

\* The watch ends and closes the count.  While the daemon closes, the job is not gone: it runs on.
EndWatch(w, failed, missed) ==
    watch' = [watch EXCEPT ![w].at = "ended", ![w].counted = FALSE, ![w].cancelled = FALSE, ![w].missed = missed,
                           ![w].gone = daemon.at \notin {"closed", "waited"} /\ (watch[w].cancelled \/ failed)]

WatchEnds_Early(w) ==
    /\ watch[w].at = "waiting" /\ daemon.at # "down" /\ EndWatch(w, FALSE, FALSE)
    /\ UNCHANGED <<box, jobs, job, actor, errors, daemon, kept, adopt, call>>
WatchEnds(w) ==
    /\ watch[w].at = "waiting" /\ daemon.at # "down"
    /\ \/ WaitAnswers(w) /\ EndWatch(w, FALSE, FALSE)
       \/ WaitFails(w) /\ EndWatch(w, TRUE, FALSE)
    /\ UNCHANGED <<box, jobs, job, actor, errors, daemon, kept, adopt, call>>

\* Wait fails with box and job up, as when the box doesn't take the connection within 250 ms: the watch takes it
\* for the box's end.
WaitMisses(w) ==
    /\ watch[w].at = "waiting" /\ daemon.at # "down" /\ Error
    /\ EndWatch(w, TRUE, TRUE)
    /\ UNCHANGED <<box, jobs, job, actor, daemon, kept, adopt, call>>

-----------------------------------------------------------------------------
(* readJob and killJob *)

\* A call finds the job's record and asks its box.
Ask(c, j, op) ==
    /\ call[c].at = "idle" /\ daemon.at = "up" /\ kept[j] # None
    /\ call' = [call EXCEPT ![c] = [at |-> "asked", op |-> op, w |-> kept[j], done |-> FALSE]]
    /\ UNCHANGED <<box, jobs, job, actor, errors, daemon, kept, watch, adopt>>

JobOf(c) == watch[call[c].w].job

\* The box finds the job.  kill marks it killed and kills it, if it hasn't ended.
Found(c) ==
    /\ call[c].at = "asked" /\ Reachable(call[c].w) /\ JobOf(c) \in Range(jobs)
    /\ LET kills == call[c].op = "kill" /\ Running(JobOf(c))
       IN  call' = [call EXCEPT ![c].at = IF kills THEN "killing" ELSE "found"]
    /\ UNCHANGED <<box, jobs, job, actor, errors, daemon, kept, watch, adopt>>

\* kill waits for the job's end.
Killed(c) ==
    /\ call[c].at = "killing" /\ ~Running(JobOf(c)) /\ Reachable(call[c].w)
    /\ call' = [call EXCEPT ![c].at = "found"]
    /\ UNCHANGED <<box, jobs, job, actor, errors, daemon, kept, watch, adopt>>

Report(c, done) == IF watch[call[c].w].gone THEN "stopped" ELSE IF done THEN "ended" ELSE "running"

\* take: first whether the job has ended; then the output, which it forgets, and the daemon reports.
Take_Swapped(c) ==
    /\ call[c].at \in {"found", "taking"} /\ Reachable(call[c].w)
    /\ \/ /\ call[c].at = "found"
          /\ call' = [call EXCEPT ![c].at = "taking"]
          /\ job' = [job EXCEPT ![JobOf(c)].unread = FALSE]
       \/ /\ call[c].at = "taking"
          /\ call' = [call EXCEPT ![c].at = Report(c, ~Running(JobOf(c)))]
          /\ UNCHANGED job
    /\ UNCHANGED <<box, jobs, actor, errors, daemon, kept, watch, adopt>>
Take(c) ==
    /\ call[c].at \in {"found", "taking"} /\ Reachable(call[c].w)
    /\ \/ /\ call[c].at = "found"
          /\ call' = [call EXCEPT ![c].at = "taking", ![c].done = ~Running(JobOf(c))]
          /\ UNCHANGED job
       \/ /\ call[c].at = "taking"
          /\ job' = [job EXCEPT ![JobOf(c)].unread = FALSE]
          /\ call' = [call EXCEPT ![c].at = Report(c, call[c].done), ![c].done = FALSE]
    /\ UNCHANGED <<box, jobs, actor, errors, daemon, kept, watch, adopt>>

\* The box doesn't answer, doesn't have the job, or the call's context is done: the report says that the
\* job is stopped.
AskFails(c) ==
    /\ call[c].at \in {"asked", "killing", "found", "taking"}
    /\ \/ /\ \/ ~Reachable(call[c].w)
             \/ call[c].at = "asked" /\ JobOf(c) \notin Range(jobs)
             \/ daemon.at # "up"
          /\ UNCHANGED errors
       \/ Error
    /\ call' = [call EXCEPT ![c].at = "stopped", ![c].done = FALSE]
    /\ UNCHANGED <<box, jobs, job, actor, daemon, kept, watch, adopt>>

\* Claude has the report.
Answered(c) ==
    /\ call[c].at \in {"running", "ended", "stopped"}
    /\ call' = [call EXCEPT ![c] = Idle]
    /\ UNCHANGED <<box, jobs, job, actor, errors, daemon, kept, watch, adopt>>

-----------------------------------------------------------------------------
(* The daemon's restarts *)

\* The daemon's context is done: its servers shut down, waiting for their calls.
Shutdown ==
    /\ daemon.at = "up" /\ daemon.restarts < MaxRestarts
    /\ daemon' = [daemon EXCEPT !.at = "draining"]
    /\ UNCHANGED <<box, jobs, job, actor, errors, kept, watch, adopt, call>>

\* Server.Close, once the calls have ended: every record's watch is cancelled.
Close ==
    /\ daemon.at = "draining"
    /\ \A w \in Watches : watch[w].at \notin {"opened", "started"}
    /\ \A c \in Callers : call[c].at = "idle"
    /\ daemon' = [daemon EXCEPT !.at = "closed"]
    /\ watch' = [w \in Watches |-> IF \E j \in Jobs : kept[j] = w THEN [watch[w] EXCEPT !.cancelled = @ \/ watch[w].at = "waiting"] ELSE watch[w]]
    /\ UNCHANGED <<box, jobs, job, actor, errors, kept, adopt, call>>

\* Close has waited for the watches.
Waited ==
    /\ daemon.at = "closed" /\ \A w \in Watches : watch[w].at # "waiting"
    /\ daemon' = [daemon EXCEPT !.at = "waited"]
    /\ UNCHANGED <<box, jobs, job, actor, errors, kept, watch, adopt, call>>

\* The daemon exits, once the adoption has ended too, or dies.  What it had in memory is gone; the box runs on.
Exits ==
    /\ daemon' = [daemon EXCEPT !.at = "down"]
    /\ kept' = [j \in Jobs |-> None]
    /\ watch' = [w \in Watches |-> Free]
    /\ adopt' = [at |-> "done", todo |-> <<>>, ran |-> {}]
    /\ call' = [c \in Callers |-> Idle]
    /\ actor' = [stops |-> FALSE, addr |-> FALSE]
    /\ UNCHANGED <<box, jobs, job, errors>>
Closed == daemon.at = "waited" /\ adopt.at # "opened" /\ Exits
Dies == daemon.at # "down" /\ daemon.restarts < MaxRestarts /\ Exits

\* The next daemon starts, and finds the boxes that run.
Restart ==
    /\ daemon.at = "down"
    /\ daemon' = [at |-> "up", restarts |-> daemon.restarts + 1]
    /\ adopt' = [at |-> IF box.at = "off" THEN "done" ELSE "start", todo |-> <<>>, ran |-> {j \in Jobs : Running(j)}]
    /\ UNCHANGED <<box, jobs, job, actor, errors, kept, watch, call>>

\* adoptJobs lists the box's jobs, waking the box if it has slept meanwhile.
AdoptList ==
    /\ adopt.at = "start" /\ Wake /\ box'.at # "off"
    /\ adopt' = [adopt EXCEPT !.at = "listed", !.todo = jobs]
    /\ UNCHANGED <<jobs, job, errors, daemon, kept, watch, call>>

\* It opens a count for the next job, and then keeps it (KeepJob).
AdoptOpen(w) ==
    /\ adopt.at = "listed" /\ adopt.todo # <<>>
    /\ OpenJob(w, Head(adopt.todo), "adopting")
    /\ adopt' = [adopt EXCEPT !.at = "opened"]
    /\ UNCHANGED <<jobs, job, errors, daemon, kept, call>>

\* It is done, or the daemon stops.
AdoptEnds_Early ==
    /\ adopt.at = "listed"
    /\ adopt' = [adopt EXCEPT !.at = "done", !.todo = <<>>]
    /\ UNCHANGED <<box, jobs, job, actor, errors, daemon, kept, watch, call>>
AdoptEnds ==
    /\ adopt.at \in {"start", "listed"}
    /\ (adopt.at = "listed" /\ adopt.todo = <<>>) \/ daemon.at # "up"
    /\ adopt' = [adopt EXCEPT !.at = "done", !.todo = <<>>]
    /\ UNCHANGED <<box, jobs, job, actor, errors, daemon, kept, watch, call>>

\* States, Exec, List or openJob fails, as when the box does not answer or wake: the rest of the box's jobs stay
\* without a record until the next daemon.
AdoptFails ==
    /\ adopt.at \in {"start", "listed"} /\ daemon.at = "up"
    /\ Error \/ (box.at = "off" /\ UNCHANGED errors)
    /\ adopt' = [at |-> "failed", todo |-> <<>>, ran |-> {}]
    /\ UNCHANGED <<box, jobs, job, actor, daemon, kept, watch, call>>

-----------------------------------------------------------------------------
BoxStep ==
    \/ \E j \in Jobs : Write(j) \/ Exit(j)
    \/ Redial \/ StopBox \/ BoxGone \/ BoxDies \/ Stopped \/ StopFails

JobStep ==
    \/ \E w \in Watches, j \in Jobs : StartJob(w, j)
    \/ \E w \in Watches : Started(w) \/ StartFails(w) \/ KeepJob(w) \/ WatchEnds(w) \/ WaitMisses(w)

CallStep ==
    \/ \E c \in Callers, j \in Jobs, op \in {"read", "kill"} : Ask(c, j, op)
    \/ \E c \in Callers : Found(c) \/ Killed(c) \/ Take(c) \/ AskFails(c) \/ Answered(c)

DaemonStep ==
    \/ Shutdown \/ Close \/ Waited \/ Closed \/ Dies \/ Restart
    \/ AdoptList \/ AdoptEnds \/ AdoptFails \/ \E w \in Watches : AdoptOpen(w)

Next == BoxStep \/ JobStep \/ CallStep \/ DaemonStep

Spec == Init /\ [][Next]_vars

-----------------------------------------------------------------------------
(* Properties *)

\* A report that a job has ended is final: the job runs no more and no output of it is left unread, as take
\* looks whether it has ended before it takes the output.  A kill's report never says that the job runs.
AnswerIsFinal ==
    \A c \in Callers :
       /\ call[c].at = "ended" => ~Running(JobOf(c)) /\ ~job[JobOf(c)].unread
       /\ call[c].at = "running" => call[c].op = "read"

\* A record says that its job's box is gone only once the job has ended with it, unless the watch's own call
\* failed: a stop that is asked for and then fails leaves the record as it is, since stopBox cancels what it counts
\* after the stop, and neither a shutdown of the daemon nor another record of the same job sets it.
GoneIsGone ==
    \A j \in Recorded : watch[kept[j]].gone => ~Running(j) \/ watch[kept[j]].missed

\* A job that runs is kept in reach, and the state is well-formed: the box has the job in its list, since start
\* makes room only by forgetting a finished one; and while the daemon serves and the box is up, a recorded job is
\* counted by the box's actor, also when it was started and adopted at once, unless the call of its watch failed.
RunningIsKept ==
    /\ TypeOK
    /\ \A j \in Jobs : Running(j) => j \in Range(jobs)
    /\ \A j \in Recorded : Running(j) /\ Serving /\ box.at = "on"
         => \E w \in Watches : watch[w].job = j /\ (watch[w].missed \/ (watch[w].counted /\ watch[w].box = box.n))

\* An adoption that ends without an error has found every job that ran in the box when the daemon started:
\* each has a record, for BashOutput and KillShell to reach it, or has ended, whatever starts, stops and wakes of
\* the box came in between.
Adopted ==
    adopt.at = "done" /\ daemon.at = "up" => \A j \in adopt.ran : Running(j) => kept[j] # None

=============================================================================
