------------------------------- MODULE Actors -------------------------------
(***************************************************************************)
(* Who changes an environment: internal/actor.  Run keeps a registry of    *)
(* actors; a call finds its box's actor there and hands it a message; the  *)
(* actor handles one at a time, and exits when its box is asleep and       *)
(* nothing is left to do.  An environment has two boxes with an actor      *)
(* each, Env's own with the services and Agent's with Claude; a restore,   *)
(* sleep or delete on the first stops the second on the way.               *)
(*                                                                         *)
(* Time is left out: an idle timer may fire whenever it is armed, and      *)
(* every crash is within crashWindow.                                      *)
(***************************************************************************)
EXTENDS Naturals, FiniteSets

CONSTANTS
  Env, Agent,   \* the two boxes
  Callers,      \* goroutines that call the Group, one call at a time
  Stopper,      \* stopAgent's call, made by Env's actor itself
  Actors,       \* goroutines running an actor
  None,         \* no actor, no caller
  Asks,         \* Asks[c]: pairs <<k, b>>; c makes calls of kind k for box b
  CrashLimit,
  MaxTroubles   \* bound on restarts, boxes that die, and wakes and idle sleeps that fail

Boxes    == {Env, Agent}
AllKinds == {"exec", "job", "wake", "sleep", "create", "restore", "delete"}
Sending  == Callers \cup {Stopper}

ASSUME BoxesDiffer == Env # Agent
ASSUME OutsideValues == Stopper \notin Callers /\ None \notin Actors \cup Sending
ASSUME AsksAssumption ==
  Asks \in [Callers -> SUBSET ((AllKinds \X {Env}) \cup ({"exec", "wake", "sleep"} \X {Agent}))]
ASSUME BoundsAssumption == {CrashLimit, MaxTroubles} \subseteq Nat

VARIABLES
  registry,     \* Run's actors, by box
  saved,        \* Run's crashes, by box: those of actors that have exited
  actor,        \* each actor's fields, and where its goroutine is
  call,         \* each caller's call, and where it is
  box,          \* "off", "on", or "old": on, with the disk before a swap
  exists,       \* the environment has a row
  troubles,     \* how many there have been
  \* History, read by the properties only.
  behind        \* callers whose command has run on through a swap

group  == <<registry, saved, actor>>
world  == <<box, exists>>
vars   == <<group, call, world, troubles, behind>>

(* at: "free", "select" (run's first select), "second" (the one that does   *)
(* not wait), "agent" (in stopAgent), "swap" (in the store), or "done"      *)
(* (a.done is closed, Run has not yet heard).  from: the select whose       *)
(* message it handles, serves, in steps.  execs: the callers counted in     *)
(* a.execs and in a.jobs, which their calls' kinds tell apart.              *)
Fresh == [id |-> None, at |-> "free", awake |-> FALSE, addr |-> FALSE,
          execs |-> {}, crashes |-> 0, serves |-> None, from |-> "select"]

(* at: "none", "find", "found" (has the actor, not yet in select), "send",  *)
(* "served", "running" (its command), "close" or "closing" (endExec).       *)
(* dial: 1, 2 (the box did not answer: once more) or 3 (with that stale     *)
(* address).                                                                *)
NoCall == [at |-> "none", kind |-> "none", id |-> None, actor |-> None, dial |-> 1]

TypeOK ==
  /\ registry \in [Boxes -> Actors \cup {None}]
  /\ saved \in [Boxes -> 0..CrashLimit]
  /\ actor \in [Actors -> [id : Boxes \cup {None},
                           at : {"free", "select", "second", "agent", "swap", "done"},
                           awake : BOOLEAN, addr : BOOLEAN, execs : SUBSET Callers,
                           crashes : 0..CrashLimit, serves : Callers \cup {None}, from : {"select", "second"}]]
  /\ call \in [Sending -> [at : {"none", "find", "found", "send", "served", "running", "close", "closing"},
                           kind : AllKinds \cup {"none", "stop_agent"}, id : Boxes \cup {None},
                           actor : Actors \cup {None}, dial : {1, 2, 3}]]
  /\ box \in [Boxes -> {"off", "on", "old"}] /\ exists \in BOOLEAN
  /\ troubles \in 0..MaxTroubles
  /\ behind \subseteq Callers

Init ==
  /\ registry = [b \in Boxes |-> None]
  /\ saved = [b \in Boxes |-> 0]
  /\ actor = [a \in Actors |-> Fresh]
  /\ call = [c \in Sending |-> NoCall]
  /\ box = [b \in Boxes |-> "off"] /\ exists = TRUE
  /\ troubles = 0
  /\ behind = {}

----------------------------------------------------------------------------
(* Run.                                                                     *)

Live(a) == actor[a].at \notin {"free", "done"}

(* A goroutine that ran no actor yet, as far as anyone can tell.            *)
Unused == {a \in Actors : actor[a].at = "free" /\ \A c \in Sending : call[c].actor # a}

Started(b, awake, crashes) ==
  [Fresh EXCEPT !.id = b, !.at = "select", !.awake = awake, !.crashes = crashes]

(* Run answers a find: the registered actor, or a new one if it has exited. *)
Find(c) ==
  LET b == call[c].id
      known == registry[b] # None /\ actor[registry[b]].at # "done"
  IN /\ call[c].at = "find"
     /\ \E a \in IF known THEN {registry[b]} ELSE Unused :
          /\ registry' = [registry EXCEPT ![b] = a]
          /\ actor' = IF known THEN actor ELSE [actor EXCEPT ![a] = Started(b, FALSE, saved[b])]
          /\ call' = [call EXCEPT ![c].at = "found", ![c].actor = a]
     /\ UNCHANGED <<saved, world, troubles, behind>>

(* Mutant: whichever actor is registered goes.                              *)
Exited_Any(a) ==
  /\ actor[a].at = "done"
  /\ registry' = [registry EXCEPT ![actor[a].id] = None]
  /\ saved' = [saved EXCEPT ![actor[a].id] = actor[a].crashes]
  /\ actor' = [actor EXCEPT ![a] = Fresh]
  /\ UNCHANGED <<call, world, troubles, behind>>

(* Run hears that an actor has exited, and keeps its crashes.               *)
Exited(a) ==
  LET b == actor[a].id
  IN /\ actor[a].at = "done"
     /\ registry' = IF registry[b] = a THEN [registry EXCEPT ![b] = None] ELSE registry
     /\ saved' = [saved EXCEPT ![b] = actor[a].crashes]
     /\ actor' = [actor EXCEPT ![a] = Fresh]
     /\ UNCHANGED <<call, world, troubles, behind>>

----------------------------------------------------------------------------
(* Callers: do, and endExec.                                                *)

Move(c, to) ==
  /\ call' = [call EXCEPT ![c] = to]
  /\ behind' = behind \ {c}
  /\ UNCHANGED <<group, world, troubles>>

Call(c, k, b) ==
  /\ call[c] = NoCall
  /\ Move(c, [NoCall EXCEPT !.at = "find", !.kind = k, !.id = b])

(* The caller reaches its select while the actor still runs.                *)
Park(c) ==
  /\ call[c].actor # None /\ Live(call[c].actor)
  /\ \/ call[c].at = "found" /\ Move(c, [call[c] EXCEPT !.at = "send"])
     \/ call[c].at = "close" /\ Move(c, [call[c] EXCEPT !.at = "closing"])

(* Where a command's caller goes once it is not counted any more: away, or, *)
(* if the box did not answer, back with its stale address.                  *)
Closed(c) ==
  IF call[c].dial = 2 THEN [NoCall EXCEPT !.at = "find", !.kind = "exec", !.id = call[c].id, !.dial = 3]
  ELSE NoCall

(* Mutant: the caller looks for the actor's end only once it waits.         *)
Retry_Waiting(c) ==
  /\ call[c].actor # None /\ ~Live(call[c].actor)
  /\ \/ call[c].at = "send" /\ Move(c, [call[c] EXCEPT !.at = "find", !.actor = None])
     \/ call[c].at = "closing" /\ Move(c, Closed(c))

(* The actor exited before it took the message.                             *)
Retry(c) ==
  /\ call[c].actor # None /\ ~Live(call[c].actor)
  /\ \/ call[c].at \in {"found", "send"} /\ Move(c, [call[c] EXCEPT !.at = "find", !.actor = None])
     \/ call[c].at \in {"close", "closing"} /\ Move(c, Closed(c))

(* The caller's context ends before the actor has taken the message.        *)
GiveUp(c) ==
  /\ call[c].at \in {"find", "found", "send"}
  /\ Move(c, NoCall)

(* A command ends; or the box does not answer, which openJob does not try   *)
(* to mend.                                                                 *)
Close(c) ==
  /\ call[c].at = "running"
  /\ \/ Move(c, [call[c] EXCEPT !.at = "close"])
     \/ /\ call[c].kind = "exec" /\ box[call[c].id] = "off" /\ call[c].dial = 1
        /\ Move(c, [call[c] EXCEPT !.at = "close", !.dial = 2])

----------------------------------------------------------------------------
(* Actors.                                                                  *)

Waiting(a) == {c \in Sending : call[c].at \in {"send", "closing"} /\ call[c].actor = a}

(* a's message from c is of one of the kinds, and is taken.                 *)
Takes(a, c, kinds) ==
  /\ actor[a].at \in {"select", "second"}
  /\ c \in Waiting(a) /\ call[c].at = "send"
  /\ call[c].kind \in kinds

(* The loop goes on: after the second select, at the first again.           *)
Loop(a, r) ==
  [actor EXCEPT ![a] = [r EXCEPT !.serves = None, !.from = "select",
     !.at = IF r.awake \/ r.execs # {} \/ r.from = "second" THEN "select" ELSE "second"]]

(* a's fields as it handles a message, with the select that took it.        *)
Self(a) == IF actor[a].serves # None THEN actor[a] ELSE [actor[a] EXCEPT !.from = actor[a].at]

Trouble == troubles < MaxTroubles /\ troubles' = troubles + 1

Answer(c, to) == call' = [call EXCEPT ![c] = to]

(* Mutant: the command stays counted.                                       *)
EndExec_Kept(a, c) ==
  /\ actor[a].at \in {"select", "second"}
  /\ c \in Waiting(a) /\ call[c].at = "closing"
  /\ actor' = Loop(a, Self(a))
  /\ Answer(c, Closed(c))
  /\ UNCHANGED <<registry, saved, world, troubles, behind>>

(* endExec.                                                                 *)
EndExec(a, c) ==
  /\ actor[a].at \in {"select", "second"}
  /\ c \in Waiting(a) /\ call[c].at = "closing"
  /\ actor' = Loop(a, [Self(a) EXCEPT !.execs = @ \ {c}])
  /\ Answer(c, Closed(c))
  /\ UNCHANGED <<registry, saved, world, troubles, behind>>

(* A person's Wake forgets the crashes before anything else.                *)
Person(c)   == call[c].kind = "wake"
Asked(a, c) == IF Person(c) THEN [Self(a) EXCEPT !.crashes = 0] ELSE Self(a)

(* The environment, or the snapshot, does not exist.                        *)
Refuse(a, c) ==
  /\ Takes(a, c, AllKinds \ {"create"})
  /\ ~exists \/ call[c].kind = "restore"
  /\ actor' = Loop(a, Asked(a, c))
  /\ Answer(c, NoCall)
  /\ UNCHANGED <<registry, saved, world, troubles, behind>>

Create(a, c) ==
  /\ Takes(a, c, {"create"})
  /\ exists' = TRUE
  /\ actor' = Loop(a, Self(a))
  /\ Answer(c, NoCall)
  /\ UNCHANGED <<registry, saved, box, troubles, behind>>

Stale(c) == call[c].dial = 3

(* What a call for an awake box gets: its command counted, or nothing.      *)
Counted(r, c) == IF call[c].kind \in {"exec", "job"} THEN [r EXCEPT !.execs = @ \cup {c}] ELSE r
Woken(c)      == IF call[c].kind \in {"exec", "job"} THEN [call[c] EXCEPT !.at = "running"] ELSE NoCall

(* More crashes than CrashLimit are as many.                                *)
Capped(n) == IF n > CrashLimit THEN CrashLimit ELSE n

(* wake, when the box is known to be up.                                    *)
WakeKnown(a, c) ==
  /\ Takes(a, c, {"exec", "job", "wake"}) /\ exists
  /\ actor[a].addr /\ ~Stale(c)
  /\ actor' = Loop(a, Counted(Asked(a, c), c))
  /\ Answer(c, Woken(c))
  /\ UNCHANGED <<registry, saved, world, troubles, behind>>

(* Mutant: a box whose wake failed is taken to be asleep.                   *)
Failed_Asleep(r) == [r EXCEPT !.addr = FALSE, !.crashes = Capped(r.crashes + 1)]

(* A wake that fails half-way may leave the box running.                    *)
Failed(r) == [r EXCEPT !.awake = TRUE, !.addr = FALSE, !.crashes = Capped(r.crashes + 1)]

(* wake, when it is not: the box is started, unless it keeps crashing; a    *)
(* stale address is one more crash.                                         *)
Wake(a, c) ==
  LET died == IF Stale(c) THEN 1 ELSE 0
      now  == Capped(Asked(a, c).crashes + died)
      r    == [Self(a) EXCEPT !.crashes = now]
      up   == [r EXCEPT !.awake = TRUE, !.addr = TRUE]
      b    == actor[a].id
  IN /\ Takes(a, c, {"exec", "job", "wake"}) /\ exists
     /\ ~actor[a].addr \/ Stale(c)
     /\ \/ /\ now >= CrashLimit
           /\ actor' = Loop(a, r)
           /\ Answer(c, NoCall)
           /\ UNCHANGED <<box, troubles>>
        \/ /\ now < CrashLimit
           /\ box' = [box EXCEPT ![b] = IF @ = "off" THEN "on" ELSE @]
           /\ actor' = Loop(a, Counted(up, c))
           /\ Answer(c, Woken(c))
           /\ UNCHANGED troubles
        \/ /\ now < CrashLimit /\ Trouble
           /\ \E half \in {"on", "off"} :
                box' = [box EXCEPT ![b] = IF @ = "old" /\ half = "on" THEN "old" ELSE half]
           /\ actor' = Loop(a, Failed(r))
           /\ Answer(c, NoCall)
     /\ UNCHANGED <<registry, saved, exists, behind>>

(* stopBox: the box goes, and the commands counted in it are cancelled.     *)
Stopped(r) == [r EXCEPT !.awake = FALSE, !.addr = FALSE, !.execs = {}]

(* Mutant: the commands are only forgotten.                                 *)
Cancelled_Not(a) == [c \in Sending |-> call[c]]

Cancelled(a) ==
  [c \in Sending |-> IF c \in actor[a].execs /\ call[c].at = "running"
                       THEN [call[c] EXCEPT !.at = "close"] ELSE call[c]]
StopBox(a) ==
  /\ box' = [box EXCEPT ![actor[a].id] = "off"]
  /\ behind' = behind \ actor[a].execs

(* The driver cannot stop it: whoever asked gets the error.                 *)
StopFails(a, c) ==
  /\ Takes(a, c, {"sleep", "restore", "delete", "stop_agent"})
  /\ exists \/ c = Stopper
  /\ c = Stopper => actor[a].awake
  /\ actor' = Loop(a, [Self(a) EXCEPT !.addr = FALSE])
  /\ Answer(c, NoCall)
  /\ UNCHANGED <<registry, saved, world, troubles, behind>>

(* Sleep, Restore and Delete begin with the box; those of the environment   *)
(* go on with the agent box.                                                *)
Stop(a, c) ==
  LET stopped == Cancelled(a)
  IN /\ Takes(a, c, {"sleep", "restore", "delete"}) /\ exists
     /\ StopBox(a)
     /\ IF call[c].id = Agent
          THEN /\ actor' = Loop(a, Stopped(Self(a)))
               /\ call' = [stopped EXCEPT ![c] = NoCall]
          ELSE /\ actor' = [actor EXCEPT ![a] = [Stopped(Self(a)) EXCEPT !.at = "agent", !.serves = c]]
               /\ call' = [stopped EXCEPT ![c].at = "served",
                            ![Stopper] = [NoCall EXCEPT !.at = "find", !.kind = "stop_agent", !.id = Agent]]
     /\ UNCHANGED <<registry, saved, exists, troubles>>

(* stopAgent, on the agent box's actor.                                     *)
StopAgent(a) ==
  /\ Takes(a, Stopper, {"stop_agent"})
  /\ IF actor[a].awake
       THEN /\ StopBox(a)
            /\ actor' = Loop(a, Stopped(Self(a)))
            /\ call' = [Cancelled(a) EXCEPT ![Stopper].at = "served"]
       ELSE /\ UNCHANGED <<box, behind>>
            /\ actor' = Loop(a, Self(a))
            /\ call' = [call EXCEPT ![Stopper].at = "served"]
  /\ UNCHANGED <<registry, saved, exists, troubles>>

(* stopAgent has returned to the environment's actor.                       *)
AgentStopped(a) ==
  LET c  == actor[a].serves
      ok == call[Stopper].at = "served"
  IN /\ actor[a].at = "agent"
     /\ call[Stopper].at \in {"served", "none"}
     /\ IF ok /\ call[c].kind # "sleep"
          THEN /\ actor' = [actor EXCEPT ![a].at = "swap"]
               /\ call' = [call EXCEPT ![Stopper] = NoCall]
          ELSE /\ actor' = Loop(a, Self(a))
               /\ call' = [call EXCEPT ![Stopper] = NoCall, ![c] = NoCall]
     /\ UNCHANGED <<registry, saved, world, troubles, behind>>

(* The store swaps the disk, or removes it; or fails, and leaves it.        *)
Swap(a) ==
  LET c == actor[a].serves
  IN /\ actor[a].at = "swap"
     /\ actor' = Loop(a, Self(a))
     /\ Answer(c, NoCall)
     /\ \/ /\ box' = [b \in Boxes |-> IF box[b] = "on" THEN "old" ELSE box[b]]
           /\ exists' = (call[c].kind = "restore")
           /\ behind' = behind \cup {d \in Callers : call[d].at = "running"}
        \/ UNCHANGED <<world, behind>>
     /\ UNCHANGED <<registry, saved, troubles>>

(* armIdle: the idle timer runs, and may fire; jobs do not hold it up.      *)
Armed(a) ==
  /\ actor[a].at = "select" /\ actor[a].awake
  /\ \A c \in actor[a].execs : call[c].kind = "job"

(* sleepIfIdle; one that fails is tried again.                              *)
IdleSleep(a) ==
  /\ Armed(a)
  /\ StopBox(a)
  /\ actor' = Loop(a, Stopped(Self(a)))
  /\ call' = Cancelled(a)
  /\ UNCHANGED <<registry, saved, exists, troubles>>

IdleFails(a) ==
  /\ Armed(a) /\ Trouble
  /\ actor' = [actor EXCEPT ![a].addr = FALSE]
  /\ UNCHANGED <<registry, saved, call, world, behind>>

(* The second select finds no message: run returns, a.done is closed.       *)
Exit(a) ==
  /\ actor[a].at = "second"
  /\ Waiting(a) = {}
  /\ actor' = [actor EXCEPT ![a].at = "done"]
  /\ UNCHANGED <<registry, saved, call, world, troubles, behind>>

----------------------------------------------------------------------------
(* The world.                                                               *)

BoxDies(b) ==
  /\ box[b] # "off" /\ Trouble
  /\ box' = [box EXCEPT ![b] = "off"]
  /\ UNCHANGED <<group, call, exists, behind>>

(* The daemon dies and the next one runs: it gives every box that is        *)
(* running an actor.                                                        *)
Restart ==
  /\ Trouble
  /\ \E of \in [Boxes -> Actors \cup {None}] :
       /\ \A b \in Boxes : (of[b] = None) <=> (box[b] = "off")
       /\ \A b, d \in Boxes : of[b] = of[d] => b = d \/ of[b] = None
       /\ registry' = of
       /\ actor' = [a \in Actors |-> IF \E b \in Boxes : of[b] = a
                                        THEN Started(CHOOSE b \in Boxes : of[b] = a, TRUE, 0) ELSE Fresh]
  /\ saved' = [b \in Boxes |-> 0]
  /\ call' = [c \in Sending |-> NoCall] /\ behind' = {}
  /\ UNCHANGED world

Handle(c) == \E a \in Actors :
  \/ EndExec(a, c) \/ Refuse(a, c) \/ Create(a, c) \/ WakeKnown(a, c) \/ Wake(a, c)
  \/ Stop(a, c) \/ StopFails(a, c) \/ (c = Stopper /\ StopAgent(a))

Goes(a) == Exited(a) \/ AgentStopped(a) \/ Swap(a) \/ Exit(a)

Next ==
  \/ \E c \in Callers : \E ask \in Asks[c] : Call(c, ask[1], ask[2])
  \/ \E c \in Sending : Find(c) \/ Park(c) \/ Retry(c) \/ GiveUp(c) \/ Close(c) \/ Handle(c)
  \/ \E a \in Actors : Goes(a) \/ IdleSleep(a) \/ IdleFails(a)
  \/ \E b \in Boxes : BoxDies(b)
  \/ Restart

Spec == Init /\ [][Next]_vars

(* A call for box b that is more than a job running there.                  *)
Uses(c, b) == call[c].id = b /\ ~(call[c].kind = "job" /\ call[c].at = "running")

(* Goroutines run, a channel's waiting senders are served in turn, a caller *)
(* does not always reach its select, a few instructions on, after the actor *)
(* has slept and exited, and the idle timer of a box nobody uses fires.     *)
(* Commands and jobs may run for ever; that the driver does not fail to     *)
(* stop a box for ever is MaxTroubles'.                                     *)
Undisturbed(a) == IdleSleep(a) /\ \A c \in Sending : ~Uses(c, actor[a].id)
FairSpec ==
  /\ Spec
  /\ \A c \in Sending : SF_vars(Find(c) \/ Retry(c)) /\ SF_vars(Park(c) \/ Handle(c))
  /\ \A a \in Actors : WF_vars(Goes(a) \/ Undisturbed(a))

----------------------------------------------------------------------------
(* "Every environment one goroutine, its actor, which makes the             *)
(* environment's changes one at a time": whatever Find and Exit interleave, *)
(* no box has two actors that still handle messages.                        *)
OneActor ==
  \A a, d \in Actors : Live(a) /\ Live(d) /\ actor[a].id = actor[d].id => a = d

(* A box that runs has an actor that knows it may, so that it is put to     *)
(* sleep: after failed wakes and stops, and after a restart of the daemon.  *)
BoxHasActor ==
  \A b \in Boxes : box[b] # "off" => \E a \in Actors : Live(a) /\ actor[a].id = b /\ actor[a].awake

(* The commands and jobs counted in a box are those that run there: each    *)
(* running one is counted by an actor that still handles messages, so that  *)
(* a stop cancels it, and each counted one will be closed, so that the      *)
(* actor can exit.                                                          *)
CommandsCounted ==
  /\ \A c \in Callers : call[c].at = "running" => Live(call[c].actor) /\ c \in actor[call[c].actor].execs
  /\ \A a \in Actors : \A c \in actor[a].execs :
       call[c].at \in {"running", "close", "closing"} /\ call[c].actor = a

(* stopBox cancels commands "so that none goes on against the disk that     *)
(* comes next": after a restore neither the services' box nor a command in  *)
(* it is left on the disk before.                                           *)
ServicesOnNewDisk ==
  /\ box[Env] # "old"
  /\ \A c \in behind : call[c].at = "running" => call[c].id # Env

(* Every call for an actor is answered, or its command runs: no message is  *)
(* lost to an actor that exits, and stopAgent never waits for ever.         *)
CallsEnd ==
  \A c \in Callers :
    (call[c].at \in {"find", "found", "send", "served"}) ~> (call[c].at \in {"none", "running"})

(* A box nobody uses goes to sleep, also under a job that runs on ("a job   *)
(* doesn't hold its box awake"), and one that a failed wake, a failed sleep *)
(* or an earlier daemon left awake.                                         *)
UnusedSleeps ==
  \A b \in Boxes : []<>(box[b] = "off" \/ \E c \in Sending : Uses(c, b))
=============================================================================
