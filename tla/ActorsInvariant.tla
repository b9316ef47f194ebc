-------------------------- MODULE ActorsInvariant ---------------------------
(***************************************************************************)
(* The inductive invariant of Actors, and its proof for the initial state, *)
(* the steps of callers, an actor that answers a message and an actor that *)
(* stops its box.                                                          *)
(***************************************************************************)
EXTENDS Actors, TLAPS

(* The registry has every actor that still handles messages.                *)
Registered ==
  /\ \A a \in Actors : Live(a) => actor[a].id \in Boxes /\ registry[actor[a].id] = a
  /\ \A a \in Actors : actor[a].at = "done" => actor[a].id \in Boxes
  /\ \A b \in Boxes : registry[b] # None => actor[registry[b]].id = b /\ actor[registry[b]].at # "free"

(* What a call's place says of it.                                          *)
CallsPlaced ==
  /\ \A c \in Sending : call[c].at # "none" => call[c].id \in Boxes
  /\ \A c \in Sending : call[c].actor # None /\ Live(call[c].actor) =>
                          actor[call[c].actor].id = call[c].id
  /\ \A c \in Callers : call[c].at = "running" => call[c].actor # None
  /\ call[Stopper].kind \in {"none", "stop_agent"}
  /\ call[Stopper].at \notin {"running", "close", "closing"}
  /\ \A c \in Callers : call[c].kind # "stop_agent"

(* An actor about to exit has nothing to look after; one that stops the     *)
(* agent box or has the store swap the disk is Env's, and has stopped its   *)
(* own box.                                                                 *)
ActorsPlaced ==
  \A a \in Actors :
    /\ actor[a].at \in {"second", "done", "free"} => ~actor[a].awake /\ actor[a].execs = {}
    /\ actor[a].at \in {"agent", "swap"} =>
         /\ actor[a].id = Env /\ box[Env] = "off" /\ actor[a].execs = {} /\ ~actor[a].awake
         /\ actor[a].serves \in Callers /\ call[actor[a].serves].at = "served"

(* A box that runs is looked after by its registered actor.                 *)
BoxesKept ==
  \A b \in Boxes : box[b] # "off" =>
    registry[b] # None /\ Live(registry[b]) /\ actor[registry[b]].awake

(* Commands that ran on through a swap are the agent box's.                 *)
OnlyAgentBehind ==
  /\ box[Env] # "old"
  /\ \A c \in behind : call[c].at = "running" /\ call[c].id # Env

Inv ==
  /\ TypeOK
  /\ Registered
  /\ CallsPlaced
  /\ ActorsPlaced
  /\ BoxesKept
  /\ CommandsCounted
  /\ OnlyAgentBehind

USE DEF Boxes, Sending, AllKinds, Live, Fresh, NoCall
----------------------------------------------------------------------------
LEMMA InitInv == Init => Inv
BY BoxesDiffer, OutsideValues, BoundsAssumption
   DEF Init, Inv, TypeOK, Registered, CallsPlaced, ActorsPlaced, BoxesKept, CommandsCounted, OnlyAgentBehind

Places == {"none", "find", "found", "send", "served", "running", "close", "closing"}
CallSet == [at : Places, kind : AllKinds \cup {"none", "stop_agent"}, id : Boxes \cup {None},
            actor : Actors \cup {None}, dial : {1, 2, 3}]

(* A caller's own step moves its call only.  It never begins a command, and *)
(* leaves a counted one counted.                                            *)
LEMMA MoveInv ==
  ASSUME Inv, NEW c \in Sending, NEW to \in CallSet, Move(c, to),
         call[c].at # "served", to.at # "running", c = Stopper => to.at \notin {"close", "closing"},
         to.at # "none" => to.id \in Boxes,
         to.actor = None \/ (to.actor = call[c].actor /\ to.id = call[c].id),
         to.kind \in {call[c].kind, "none"} \/ (c \in Callers /\ to.kind \in AllKinds),
         \A a \in Actors : c \in actor[a].execs => to.actor = call[c].actor /\ to.at \in {"close", "closing"}
  PROVE  Inv'
<1> USE BoxesDiffer, OutsideValues
        DEF Inv, Move, group, world, CallSet, Places
<1>1. TypeOK'
  BY DEF TypeOK
<1>2. Registered' /\ BoxesKept' /\ ActorsPlaced'
  BY DEF Registered, BoxesKept, ActorsPlaced, TypeOK
<1>3. CallsPlaced'
  BY DEF CallsPlaced, TypeOK
<1>4. CommandsCounted'
  BY DEF CommandsCounted, TypeOK
<1>5. OnlyAgentBehind'
  BY DEF OnlyAgentBehind, TypeOK
<1> QED BY <1>1, <1>2, <1>3, <1>4, <1>5

LEMMA CallerInv ==
  ASSUME Inv, NEW c \in Sending,
         \/ c \in Callers /\ \E ask \in Asks[c] : Call(c, ask[1], ask[2])
         \/ Park(c) \/ Retry(c) \/ GiveUp(c) \/ Close(c)
  PROVE  Inv'
<1> USE BoxesDiffer, OutsideValues DEF CallSet, Places
<1>0. /\ call[c] \in CallSet
      /\ call[c].at # "none" => call[c].id \in Boxes
      /\ \A a \in Actors : c \in actor[a].execs =>
           call[c].at \in {"running", "close", "closing"} /\ call[c].actor = a /\ c \in Callers
      /\ \A a \in Actors : ~Live(a) => actor[a].execs = {}
      /\ c = Stopper => call[c].at \notin {"running", "close", "closing"}
  BY DEF Inv, TypeOK, CallsPlaced, CommandsCounted, ActorsPlaced
<1>1. CASE c \in Callers /\ \E ask \in Asks[c] : Call(c, ask[1], ask[2])
  <2>1. PICK ask \in Asks[c] : Call(c, ask[1], ask[2])
    BY <1>1
  <2>2. ask[1] \in AllKinds /\ ask[2] \in Boxes
    BY <1>1, AsksAssumption
  <2> DEFINE to == [NoCall EXCEPT !.at = "find", !.kind = ask[1], !.id = ask[2]]
  <2>3. to \in CallSet /\ to.at = "find" /\ to.id \in Boxes /\ to.actor = None /\ to.kind \in AllKinds
    BY <2>2, Zenon
  <2>4. call[c] = NoCall
    BY <2>1, Zenon DEF Call
  <2>5. Move(c, to)
    BY <2>1, Zenon DEF Call
  <2> HIDE DEF to
  <2> QED BY <1>0, <1>1, <2>3, <2>4, <2>5, MoveInv
<1>2. CASE Park(c)
  <2>1. CASE Move(c, [call[c] EXCEPT !.at = "send"]) /\ call[c].at = "found"
    BY <1>0, <2>1, MoveInv
  <2>2. CASE Move(c, [call[c] EXCEPT !.at = "closing"]) /\ call[c].at = "close"
    BY <1>0, <2>2, MoveInv
  <2> QED BY <1>2, <2>1, <2>2 DEF Park
<1>3. CASE Retry(c)
  <2>0. call[c].actor \in Actors /\ ~Live(call[c].actor)
    BY <1>0, <1>3 DEF Retry
  <2>1. CASE Move(c, [call[c] EXCEPT !.at = "find", !.actor = None]) /\ call[c].at \in {"found", "send"}
    <3> DEFINE to == [call[c] EXCEPT !.at = "find", !.actor = None]
    <3>1. to \in CallSet /\ to.at = "find" /\ to.id = call[c].id /\ to.actor = None /\ to.kind = call[c].kind
      BY <1>0, Zenon
    <3>2. Move(c, to)
      BY <2>1
    <3> HIDE DEF to
    <3> QED BY <1>0, <2>1, <3>1, <3>2, MoveInv
  <2>2. CASE Move(c, Closed(c)) /\ call[c].at \in {"close", "closing"}
    <3>1. /\ Closed(c) \in CallSet /\ Closed(c).at \in {"find", "none"} /\ Closed(c).actor = None
          /\ Closed(c).at = "find" => Closed(c).id \in Boxes
          /\ Closed(c).kind \in {"exec", "none"}
      BY <1>0, <2>2, Zenon DEF Closed
    <3>2. c \in Callers
      BY <1>0, <2>2
    <3> QED BY <1>0, <2>0, <2>2, <3>1, <3>2, MoveInv
  <2> QED BY <1>3, <2>1, <2>2 DEF Retry
<1>4. CASE GiveUp(c)
  BY <1>0, <1>4, MoveInv DEF GiveUp
<1>5. CASE Close(c)
  <2>1. CASE Move(c, [call[c] EXCEPT !.at = "close"]) /\ call[c].at = "running"
    BY <1>0, <2>1, MoveInv
  <2>2. CASE Move(c, [call[c] EXCEPT !.at = "close", !.dial = 2]) /\ call[c].at = "running"
    <3> DEFINE to == [call[c] EXCEPT !.at = "close", !.dial = 2]
    <3>1. to \in CallSet /\ to.at = "close" /\ to.id = call[c].id /\ to.actor = call[c].actor /\ to.kind = call[c].kind
      BY <1>0, Zenon
    <3>2. Move(c, to)
      BY <2>2
    <3> HIDE DEF to
    <3> QED BY <1>0, <2>2, <3>1, <3>2, MoveInv
  <2> QED BY <1>5, <2>1, <2>2 DEF Close
<1> QED BY <1>1, <1>2, <1>3, <1>4, <1>5

ActorSet == [id : Boxes \cup {None}, at : {"free", "select", "second", "agent", "swap", "done"},
             awake : BOOLEAN, addr : BOOLEAN, execs : SUBSET Callers,
             crashes : 0..CrashLimit, serves : Callers \cup {None}, from : {"select", "second"}]

(* The loop goes on with what a message left, and is about to exit only if  *)
(* there is nothing to look after.                                          *)
LEMMA LoopFacts ==
  ASSUME NEW a \in Actors, actor \in [Actors -> ActorSet], NEW r \in ActorSet, actor' = Loop(a, r)
  PROVE  /\ actor' \in [Actors -> ActorSet]
         /\ \A d \in Actors : d # a => actor'[d] = actor[d]
         /\ actor'[a].at \in {"select", "second"}
         /\ actor'[a].id = r.id /\ actor'[a].awake = r.awake /\ actor'[a].execs = r.execs
         /\ actor'[a].at = "second" => ~r.awake /\ r.execs = {}
BY OutsideValues, Zenon DEF Loop, ActorSet

(* The types of what else a step may change.                                *)
RestTyped ==
  /\ saved \in [Boxes -> 0..CrashLimit]
  /\ box \in [Boxes -> {"off", "on", "old"}] /\ exists \in BOOLEAN
  /\ troubles \in 0..MaxTroubles

(* An actor answers one message: it may start its box, and counts or no     *)
(* longer counts that caller's command.                                     *)
LEMMA ServeInv ==
  ASSUME Inv, NEW a \in Actors, NEW c \in Sending, NEW r \in ActorSet, NEW to \in CallSet,
         actor[a].at \in {"select", "second"}, call[c].actor = a,
         actor' = Loop(a, r), r.id = actor[a].id,
         call' = [call EXCEPT ![c] = to],
         \/ /\ to.at = "running" /\ c \in Callers /\ to.kind \in AllKinds
            /\ to.actor = a /\ to.id = call[c].id
            /\ r.execs = actor[a].execs \cup {c}
         \/ /\ to.at = "none" /\ to.kind = "none" /\ to.actor = None
            /\ r.execs = actor[a].execs \ {c}
         \/ /\ to.at = "served" /\ c = Stopper /\ to.kind = "stop_agent"
            /\ to.actor = a /\ to.id = call[c].id
            /\ r.execs = actor[a].execs
         \/ /\ to.at = "find" /\ c \in Callers /\ to.kind \in AllKinds /\ to.id \in Boxes /\ to.actor = None
            /\ r.execs = actor[a].execs \ {c},
         RestTyped', \A b \in Boxes : b # actor[a].id => box'[b] = box[b],
         box'[actor[a].id] # "off" => r.awake, box'[Env] # "old",
         call[c].at \in {"send", "closing"}, UNCHANGED <<registry, behind>>
  PROVE  Inv'
<1> USE OutsideValues
<1>1. /\ actor \in [Actors -> ActorSet] /\ call \in [Sending -> CallSet]
      /\ registry \in [Boxes -> Actors \cup {None}] /\ behind \subseteq Callers
  BY DEF Inv, TypeOK, ActorSet, CallSet, Places
<1>2. /\ actor' \in [Actors -> ActorSet] /\ call' \in [Sending -> CallSet]
      /\ \A d \in Actors : d # a => actor'[d] = actor[d]
      /\ actor'[a].at \in {"select", "second"} /\ actor'[a].id = actor[a].id
      /\ actor'[a].awake = r.awake /\ actor'[a].execs = r.execs
      /\ actor'[a].at = "second" => ~r.awake /\ r.execs = {}
      /\ call'[c] = to /\ \A d \in Sending : d # c => call'[d] = call[d]
  BY <1>1, LoopFacts
<1>3. TypeOK'
  BY <1>1, <1>2 DEF TypeOK, RestTyped, ActorSet, CallSet, Places
<1>4. Registered'
  BY <1>1, <1>2 DEF Inv, Registered
<1>5. CallsPlaced'
  <2>1. \A d \in Sending : call[d].actor \in Actors \cup {None}
    BY <1>1 DEF CallSet
  <2>2. \A d \in Sending : call'[d].at # "none" => call'[d].id \in Boxes
    BY <1>1, <1>2 DEF Inv, CallsPlaced
  <2>3. actor[a].id = call[c].id
    BY DEF Inv, CallsPlaced
  <2>4. ASSUME NEW d \in Sending, call'[d].actor # None, Live(call[d].actor)'
        PROVE  actor'[call'[d].actor].id = call'[d].id
    <3>1. CASE d = c
      BY <1>2, <2>3, <2>4, <3>1
    <3>2. CASE d # c
      <4>1. call'[d] = call[d] /\ call[d].actor \in Actors
        BY <1>2, <2>1, <2>4, <3>2
      <4>2. Live(call[d].actor) /\ actor'[call[d].actor].id = actor[call[d].actor].id
        BY <1>2, <2>4, <4>1
      <4> QED BY <2>4, <4>1, <4>2 DEF Inv, CallsPlaced
    <3> QED BY <3>1, <3>2
  <2>5. \A d \in Callers : call'[d].at = "running" => call'[d].actor # None
    BY <1>2 DEF Inv, CallsPlaced
  <2>6. /\ call'[Stopper].kind \in {"none", "stop_agent"}
        /\ call'[Stopper].at \notin {"running", "close", "closing"}
        /\ \A d \in Callers : call'[d].kind # "stop_agent"
    BY <1>2 DEF Inv, CallsPlaced
  <2> QED BY <2>2, <2>4, <2>5, <2>6 DEF CallsPlaced
<1>6. ActorsPlaced'
  BY <1>1, <1>2 DEF Inv, ActorsPlaced, Registered
<1>7. BoxesKept'
  BY <1>1, <1>2 DEF Inv, BoxesKept, Registered
<1>8. CommandsCounted'
  <2>1. \A d \in Callers : call[d].at = "running" => call[d].actor \in Actors
    BY <1>1 DEF Inv, CallsPlaced, CallSet
  <2>2. ASSUME NEW d \in Callers, call'[d].at = "running"
        PROVE  Live(call[d].actor)' /\ d \in actor'[call'[d].actor].execs
    <3>1. CASE d = c
      BY <1>2, <2>2, <3>1
    <3>2. CASE d # c
      <4>1. call'[d] = call[d] /\ call[d].actor \in Actors
        BY <1>2, <2>1, <2>2, <3>2
      <4>2. Live(call[d].actor) /\ d \in actor[call[d].actor].execs
        BY <2>2, <4>1 DEF Inv, CommandsCounted
      <4> QED BY <1>2, <3>2, <4>1, <4>2
    <3> QED BY <3>1, <3>2
  <2>3. ASSUME NEW x \in Actors, NEW d \in actor'[x].execs
        PROVE  call'[d].at \in {"running", "close", "closing"} /\ call'[d].actor = x
    <3>1. d \in Callers
      BY <1>2 DEF ActorSet
    <3>2. CASE x = a
      BY <1>2, <3>1, <3>2 DEF Inv, CommandsCounted
    <3>3. CASE x # a
      BY <1>2, <3>1, <3>3 DEF Inv, CommandsCounted
    <3> QED BY <3>2, <3>3
  <2> QED BY <2>2, <2>3 DEF CommandsCounted
<1>9. OnlyAgentBehind'
  BY <1>1, <1>2 DEF Inv, OnlyAgentBehind
<1> QED BY <1>3, <1>4, <1>5, <1>6, <1>7, <1>8, <1>9 DEF Inv

(* An actor stops its box: the commands counted there end, and what else    *)
(* moves is a call that was not at a command.                               *)
Command == {"running", "close", "closing"}
LEMMA StopInv ==
  ASSUME Inv, NEW a \in Actors, NEW s \in ActorSet, Live(a),
         actor' = [actor EXCEPT ![a] = s], s.id = actor[a].id, s.execs = {}, ~s.awake,
         s.at \in {"select", "second", "agent"},
         s.at = "agent" => s.id = Env /\ s.serves \in Callers /\ call'[s.serves].at = "served",
         \A d \in Callers : call[d].at = "served" => call'[d].at = "served",
         call' \in [Sending -> CallSet],
         \A d \in Sending : call[d].at \in Command => call'[d] = Cancelled(a)[d],
         \A d \in Sending : call[d].at \notin Command =>
           /\ call'[d].at \notin Command /\ (call'[d].at # "none" => call'[d].id \in Boxes)
           /\ call'[d].actor = None \/ (call'[d].actor = call[d].actor /\ call'[d].id = call[d].id)
           /\ IF d = Stopper THEN call'[d].kind \in {"none", "stop_agent"} ELSE call'[d].kind # "stop_agent",
         StopBox(a), UNCHANGED <<registry, saved, exists, troubles>>
  PROVE  Inv'
<1> USE OutsideValues
<1>1. /\ actor \in [Actors -> ActorSet] /\ call \in [Sending -> CallSet]
      /\ registry \in [Boxes -> Actors \cup {None}] /\ behind \subseteq Callers
      /\ box \in [Boxes -> {"off", "on", "old"}] /\ actor[a].id \in Boxes
  BY DEF Inv, TypeOK, ActorSet, CallSet, Places, Registered
<1>2. /\ actor' \in [Actors -> ActorSet] /\ actor'[a] = s
      /\ \A d \in Actors : d # a => actor'[d] = actor[d]
      /\ box' \in [Boxes -> {"off", "on", "old"}] /\ box'[actor[a].id] = "off"
      /\ \A b \in Boxes : b # actor[a].id => box'[b] = box[b]
      /\ behind' \subseteq behind /\ \A d \in behind' : d \notin actor[a].execs
  BY <1>1 DEF StopBox
<1>3. ASSUME NEW d \in Sending, call[d].at \in Command
      PROVE  IF d \in actor[a].execs
               THEN /\ call'[d].at \in {"close", "closing"} /\ call'[d].id = call[d].id
                    /\ call'[d].actor = call[d].actor /\ call'[d].kind = call[d].kind
               ELSE call'[d] = call[d]
  <2>1. call[d] \in CallSet
    BY <1>1
  <2>2. call'[d] = IF d \in actor[a].execs /\ call[d].at = "running" THEN [call[d] EXCEPT !.at = "close"] ELSE call[d]
    BY <1>3, Zenon DEF Cancelled
  <2> QED BY <1>3, <2>1, <2>2 DEF Command, CallSet
<1>4. TypeOK'
  BY <1>1, <1>2 DEF Inv, TypeOK, ActorSet, CallSet, Places
<1>5. Registered'
  BY <1>1, <1>2 DEF Inv, Registered
<1>6. ActorsPlaced'
  BY <1>1, <1>2 DEF Inv, ActorsPlaced, Registered
<1>7. BoxesKept'
  BY <1>1, <1>2 DEF Inv, BoxesKept, Registered
<1>8. OnlyAgentBehind'
  BY <1>1, <1>2, <1>3, BoxesDiffer DEF Inv, OnlyAgentBehind, Command
<1>9. CallsPlaced'
  <2>1. \A d \in Sending : call[d].actor \in Actors \cup {None}
    BY <1>1 DEF CallSet
  <2>2. ASSUME NEW d \in Sending
        PROVE  /\ call'[d].at # "none" => call'[d].id \in Boxes
               /\ call'[d].actor = None \/ (call'[d].actor = call[d].actor /\ call'[d].id = call[d].id)
               /\ call'[d].at = "running" => call'[d] = call[d]
               /\ call[d].at \in Command => call'[d].kind = call[d].kind
    BY <1>3 DEF Inv, CallsPlaced, Command
  <2>3. ASSUME NEW d \in Sending, call'[d].actor # None, Live(call[d].actor)'
        PROVE  actor'[call'[d].actor].id = call'[d].id
    <3>1. call'[d].actor = call[d].actor /\ call'[d].id = call[d].id /\ call[d].actor \in Actors
      BY <2>1, <2>2, <2>3
    <3>2. Live(call[d].actor) /\ actor'[call[d].actor].id = actor[call[d].actor].id
      BY <1>2, <2>3, <3>1
    <3> QED BY <3>1, <3>2 DEF Inv, CallsPlaced
  <2>4. \A d \in Callers : call'[d].at = "running" => call'[d].actor # None
    BY <2>2 DEF Inv, CallsPlaced
  <2>5. /\ call'[Stopper].kind \in {"none", "stop_agent"}
        /\ call'[Stopper].at \notin {"running", "close", "closing"}
        /\ \A d \in Callers : call'[d].kind # "stop_agent"
    BY <2>2 DEF Inv, CallsPlaced, Command
  <2> QED BY <2>2, <2>3, <2>4, <2>5 DEF CallsPlaced
<1>10. CommandsCounted'
  <2>1. ASSUME NEW d \in Callers, call'[d].at = "running"
        PROVE  Live(call[d].actor)' /\ d \in actor'[call'[d].actor].execs
    <3>1. call'[d] = call[d] /\ d \notin actor[a].execs
      BY <1>3, <2>1 DEF Command
    <3>2. call[d].actor \in Actors /\ Live(call[d].actor) /\ d \in actor[call[d].actor].execs
      BY <1>1, <2>1, <3>1 DEF Inv, CallsPlaced, CommandsCounted, CallSet
    <3> QED BY <1>2, <3>1, <3>2
  <2>2. ASSUME NEW x \in Actors, NEW d \in actor'[x].execs
        PROVE  call'[d].at \in {"running", "close", "closing"} /\ call'[d].actor = x
    <3>1. x # a /\ d \in Callers /\ actor'[x] = actor[x]
      BY <1>2, <2>2 DEF ActorSet
    <3>2. call[d].at \in Command /\ call[d].actor = x /\ d \notin actor[a].execs
      BY <3>1 DEF Inv, CommandsCounted, Command
    <3> QED BY <1>3, <3>1, <3>2 DEF Command
  <2> QED BY <2>1, <2>2 DEF CommandsCounted
<1> QED BY <1>4, <1>5, <1>6, <1>7, <1>8, <1>9, <1>10 DEF Inv
=============================================================================
