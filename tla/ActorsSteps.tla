---------------------------- MODULE ActorsSteps -----------------------------
(***************************************************************************)
(* An actor keeps the invariant in the steps it takes by itself: a delete  *)
(* or restore that goes on, an idle sleep, its exit.                       *)
(***************************************************************************)
EXTENDS ActorsInvariant

USE DEF Boxes, Sending, AllKinds, Live, Fresh, NoCall
-----------------------------------------------------------------------------
(* The step of an actor whose box is off and that counts no command: it     *)
(* stays so, and calls that are at no command move.                         *)
LEMMA QuietInv ==
  ASSUME Inv, NEW a \in Actors, actor[a].at \in {"agent", "swap"},
         NEW s \in ActorSet, actor' = [actor EXCEPT ![a] = s],
         s.id = Env, s.execs = {}, ~s.awake, s.at \in {"select", "second", "swap"},
         s.at = "swap" => s.serves \in Callers /\ call'[s.serves].at = "served",
         call' \in [Sending -> CallSet], RestTyped', UNCHANGED registry, box'[Env] = "off",
         box'[Agent] = "off" <=> box[Agent] = "off",
         \A d \in Sending : call[d].at \in Command => call'[d] = call[d],
         \A d \in Sending : call'[d] = call[d] \/ (call[d].at \notin Command /\ call'[d] = NoCall),
         behind' \subseteq Callers, \A d \in behind' : call'[d].at = "running" /\ call'[d].id # Env
  PROVE  Inv'
<1> USE OutsideValues, BoxesDiffer DEF Command
<1>1. /\ actor \in [Actors -> ActorSet] /\ call \in [Sending -> CallSet]
      /\ registry \in [Boxes -> Actors \cup {None}]
  BY DEF Inv, TypeOK, ActorSet, CallSet, Places
<1>2. actor[a].id = Env /\ box[Env] = "off" /\ actor[a].execs = {} /\ ~actor[a].awake
  BY DEF Inv, ActorsPlaced
<1>3. /\ actor'[a] = s /\ \A x \in Actors : x # a => actor'[x] = actor[x]
      /\ \A x \in Actors : actor'[x].id = actor[x].id /\ actor'[x].execs = actor[x].execs
  BY <1>1, <1>2, Zenon
<1>4. \A x \in Actors : /\ actor'[x].at \in {"free", "done"} <=> actor[x].at \in {"free", "done"}
                        /\ actor'[x].at \in {"free", "done"} => actor'[x] = actor[x]
  BY <1>1, <1>3
<1>5. TypeOK'
  BY <1>1 DEF TypeOK, ActorSet, CallSet, Places, RestTyped
<1>6. Registered'
  <2>1. \A x \in Actors : Live(x) => actor[x].id \in Boxes /\ registry[actor[x].id] = x
    BY DEF Inv, Registered
  <2>2. \A x \in Actors : actor[x].at = "done" => actor[x].id \in Boxes
    BY DEF Inv, Registered
  <2>3. \A b \in Boxes : registry[b] # None => actor[registry[b]].id = b /\ actor[registry[b]].at # "free"
    BY DEF Inv, Registered
  <2>4. \A b \in Boxes : registry[b] # None => actor'[registry[b]].id = b /\ actor'[registry[b]].at # "free"
    BY <1>1, <1>3, <1>4, <2>3
  <2> QED BY <1>3, <1>4, <2>1, <2>2, <2>4 DEF Registered
<1>7. ActorsPlaced'
  <2>1. ASSUME NEW x \in Actors, x # a, actor[x].at \in {"agent", "swap"}
        PROVE  FALSE
    BY <1>2, <2>1 DEF Inv, ActorsPlaced, Registered
  <2> QED BY <1>3, <2>1 DEF Inv, ActorsPlaced
<1>8. BoxesKept'
  <2>1. ASSUME box'[Agent] # "off"
        PROVE  registry[Agent] \in Actors /\ Live(registry[Agent]) /\ actor[registry[Agent]].awake
    BY <1>1, <2>1 DEF Inv, BoxesKept
  <2>2. ASSUME box'[Agent] # "off"
        PROVE  actor'[registry[Agent]] = actor[registry[Agent]]
    BY <1>2, <1>3, <2>1, <2>2
  <2> QED BY <2>1, <2>2 DEF BoxesKept
<1>9. CallsPlaced'
  <2>1. \A d \in Sending : call'[d].at # "none" => call'[d].id \in Boxes
    BY DEF Inv, CallsPlaced
  <2>2. ASSUME NEW d \in Sending, call'[d].actor # None, Live(call[d].actor)'
        PROVE  actor'[call'[d].actor].id = call'[d].id
    <3>1. call'[d] = call[d] /\ call[d].actor \in Actors
      BY <1>1, <2>2 DEF CallSet
    <3> QED BY <1>3, <1>4, <2>2, <3>1 DEF Inv, CallsPlaced
  <2>3. \A d \in Callers : call'[d].at = "running" => call'[d].actor # None
    BY DEF Inv, CallsPlaced
  <2>4. /\ call'[Stopper].kind \in {"none", "stop_agent"}
        /\ call'[Stopper].at \notin {"running", "close", "closing"}
        /\ \A d \in Callers : call'[d].kind # "stop_agent"
    BY DEF Inv, CallsPlaced
  <2> QED BY <2>1, <2>2, <2>3, <2>4 DEF CallsPlaced
<1>10. CommandsCounted'
  <2>1. ASSUME NEW d \in Callers, call'[d].at = "running"
        PROVE  Live(call[d].actor)' /\ d \in actor'[call'[d].actor].execs
    <3>1. call'[d] = call[d] /\ call[d].actor \in Actors
      BY <1>1, <2>1 DEF Inv, CallsPlaced, CallSet
    <3>2. Live(call[d].actor) /\ d \in actor[call[d].actor].execs
      BY <2>1, <3>1 DEF Inv, CommandsCounted
    <3> QED BY <1>3, <1>4, <3>1, <3>2
  <2>2. ASSUME NEW x \in Actors, NEW d \in actor'[x].execs
        PROVE  call'[d].at \in {"running", "close", "closing"} /\ call'[d].actor = x
    <3>1. d \in actor[x].execs /\ d \in Callers
      BY <1>1, <1>3 DEF ActorSet
    <3>2. call[d].at \in {"running", "close", "closing"} /\ call[d].actor = x
      BY <3>1 DEF Inv, CommandsCounted
    <3> QED BY <3>1, <3>2
  <2> QED BY <2>1, <2>2 DEF CommandsCounted
<1>11. OnlyAgentBehind'
  BY DEF OnlyAgentBehind
<1> QED BY <1>5, <1>6, <1>7, <1>8, <1>9, <1>10, <1>11 DEF Inv

(* What an actor does of itself, and Run's hearing of its exit.             *)
LEMMA ActorInv ==
  ASSUME Inv, NEW a \in Actors, Goes(a) \/ IdleSleep(a) \/ IdleFails(a)
  PROVE  Inv'
<1> USE OutsideValues, BoxesDiffer
<1>1. /\ actor \in [Actors -> ActorSet] /\ call \in [Sending -> CallSet] /\ RestTyped
      /\ actor[a] \in ActorSet /\ registry \in [Boxes -> Actors \cup {None}] /\ NoCall \in CallSet
  BY DEF Inv, TypeOK, ActorSet, CallSet, Places, RestTyped
<1>2. CASE IdleSleep(a)
  <2> DEFINE s == Loop(a, Stopped(Self(a)))[a]
  <2>1. actor[a].at = "select" /\ StopBox(a) /\ actor' = Loop(a, Stopped(Self(a))) /\ call' = Cancelled(a)
        /\ UNCHANGED <<registry, saved, exists, troubles>>
    BY <1>2 DEF IdleSleep, Armed
  <2>2. Self(a) \in ActorSet /\ Self(a).id = actor[a].id
    BY <1>1, <2>1 DEF Self, ActorSet
  <2>3. /\ Stopped(Self(a)) \in ActorSet /\ Stopped(Self(a)).id = actor[a].id
        /\ Stopped(Self(a)).execs = {} /\ ~Stopped(Self(a)).awake
    BY <2>2, Zenon DEF Stopped, ActorSet
  <2>4. /\ actor' = [actor EXCEPT ![a] = s] /\ s \in ActorSet /\ s.id = actor[a].id /\ s.execs = {} /\ ~s.awake
        /\ s.at \in {"select", "second"}
    BY <1>1, <2>1, <2>3, Zenon DEF Loop, ActorSet
  <2>5. \A d \in Sending : Cancelled(a)[d] \in CallSet
    BY <1>1 DEF Cancelled, CallSet, Places
  <2>6. /\ call' \in [Sending -> CallSet]
        /\ \A d \in Sending : call[d].at \notin Command => call'[d] = call[d]
    BY <2>1, <2>5, Zenon DEF Cancelled, Command
  <2> HIDE DEF s
  <2>7. \A d \in Sending : call[d].at \notin Command =>
          /\ call'[d].at \notin Command /\ (call'[d].at # "none" => call'[d].id \in Boxes)
          /\ call'[d].actor = None \/ (call'[d].actor = call[d].actor /\ call'[d].id = call[d].id)
          /\ IF d = Stopper THEN call'[d].kind \in {"none", "stop_agent"} ELSE call'[d].kind # "stop_agent"
    BY <2>6 DEF Inv, CallsPlaced
  <2>8. /\ \A d \in Callers : call[d].at = "served" => call'[d].at = "served"
        /\ \A d \in Sending : call[d].at \in Command => call'[d] = Cancelled(a)[d]
    BY <2>1, <2>6 DEF Command
  <2> QED BY <2>1, <2>4, <2>6, <2>7, <2>8, StopInv, Zenon
<1>3. CASE IdleFails(a)
  <2> USE <1>3 DEF IdleFails, Armed, world
  <2>1. TypeOK'
    <3>1. actor' \in [Actors -> ActorSet]
      BY <1>1, Zenon DEF ActorSet
    <3>2. troubles' \in 0..MaxTroubles
      BY BoundsAssumption DEF Trouble, Inv, TypeOK
    <3> QED BY <3>1, <3>2 DEF Inv, TypeOK, ActorSet
  <2>2. Registered' /\ ActorsPlaced' /\ BoxesKept'
    BY <1>1 DEF Inv, Registered, ActorsPlaced, BoxesKept
  <2>3. CallsPlaced' /\ CommandsCounted' /\ OnlyAgentBehind'
    BY <1>1 DEF Inv, CallsPlaced, CommandsCounted, OnlyAgentBehind
  <2> QED BY <2>1, <2>2, <2>3 DEF Inv
<1>4. CASE Exit(a)
  <2> USE <1>4 DEF Exit, world
  <2>1. TypeOK'
    <3>1. actor' \in [Actors -> ActorSet]
      BY <1>1 DEF ActorSet
    <3> QED BY <3>1 DEF Inv, TypeOK, ActorSet
  <2>2. Registered' /\ ActorsPlaced' /\ BoxesKept'
    BY <1>1 DEF Inv, Registered, ActorsPlaced, BoxesKept
  <2>3. CallsPlaced' /\ CommandsCounted' /\ OnlyAgentBehind'
    BY <1>1 DEF Inv, CallsPlaced, CommandsCounted, OnlyAgentBehind, ActorsPlaced
  <2> QED BY <2>1, <2>2, <2>3 DEF Inv
<1>5. CASE Exited(a)
  <2>1. /\ actor[a].at = "done" /\ actor[a].id \in Boxes /\ actor[a].execs = {}
        /\ UNCHANGED <<call, box, exists, troubles, behind>>
    BY <1>5 DEF Exited, world, Inv, Registered, ActorsPlaced
  <2>2. /\ actor'[a] = Fresh /\ \A x \in Actors : x # a => actor'[x] = actor[x]
        /\ actor' \in [Actors -> ActorSet] /\ saved' \in [Boxes -> 0..CrashLimit]
    BY <1>1, <1>5, <2>1, BoundsAssumption DEF Exited, ActorSet, RestTyped
  <2>3. /\ registry' \in [Boxes -> Actors \cup {None}]
        /\ \A b \in Boxes : registry'[b] = IF registry[b] = a THEN None ELSE registry[b]
    BY <1>1, <1>5, <2>1 DEF Exited, Inv, Registered
  <2>4. TypeOK'
    BY <2>1, <2>2, <2>3 DEF Inv, TypeOK, ActorSet
  <2>5. Registered'
    <3>1. \A x \in Actors : Live(x)' => x # a /\ Live(x) /\ actor'[x] = actor[x]
      BY <2>2
    <3>2. \A b \in Boxes : registry'[b] # None => registry'[b] = registry[b] /\ registry[b] \in Actors \ {a}
      BY <1>1, <2>3
    <3> QED BY <2>2, <2>3, <3>1, <3>2 DEF Inv, Registered
  <2>6. BoxesKept'
    <3>1. \A b \in Boxes : box[b] # "off" => registry[b] \in Actors \ {a} /\ registry'[b] = registry[b]
      BY <1>1, <2>1, <2>3 DEF Inv, BoxesKept
    <3> QED BY <2>1, <2>2, <3>1 DEF Inv, BoxesKept
  <2>7. ActorsPlaced'
    BY <2>1, <2>2 DEF Inv, ActorsPlaced
  <2>8. CallsPlaced'
    <3>1. ASSUME NEW d \in Sending, call[d].actor # None, Live(call[d].actor)'
          PROVE  actor'[call[d].actor].id = call[d].id
      <4>1. call[d].actor \in Actors
        BY <1>1, <3>1 DEF CallSet
      <4>2. actor'[call[d].actor] = actor[call[d].actor] /\ Live(call[d].actor)
        BY <2>1, <2>2, <3>1, <4>1
      <4> QED BY <3>1, <4>2 DEF Inv, CallsPlaced
    <3> QED BY <2>1, <3>1 DEF Inv, CallsPlaced
  <2>9. CommandsCounted'
    <3>1. ASSUME NEW d \in Callers, call[d].at = "running"
          PROVE  Live(call[d].actor)' /\ d \in actor'[call[d].actor].execs
      <4>1. call[d].actor \in Actors /\ Live(call[d].actor) /\ d \in actor[call[d].actor].execs
        BY <1>1, <3>1 DEF Inv, CallsPlaced, CommandsCounted, CallSet
      <4> QED BY <2>1, <2>2, <4>1
    <3>2. \A x \in Actors : actor'[x].execs \subseteq actor[x].execs
      BY <2>2
    <3> QED BY <2>1, <3>1, <3>2 DEF Inv, CommandsCounted
  <2>10. OnlyAgentBehind'
    BY <2>1 DEF Inv, OnlyAgentBehind
  <2> QED BY <2>4, <2>5, <2>6, <2>7, <2>8, <2>9, <2>10 DEF Inv
<1>6. ASSUME actor[a].at \in {"agent", "swap"}
      PROVE  /\ actor[a].id = Env /\ box[Env] = "off" /\ actor[a].execs = {} /\ ~actor[a].awake
             /\ actor[a].serves \in Callers /\ call[actor[a].serves].at = "served" /\ Self(a) = actor[a]
  BY <1>6 DEF Inv, ActorsPlaced, Self
<1>8. CASE AgentStopped(a)
  <2> DEFINE c == actor[a].serves
  <2>1. /\ actor[a].at = "agent" /\ UNCHANGED <<registry, saved, world, troubles, behind>>
        /\ \/ /\ actor' = [actor EXCEPT ![a].at = "swap"]
              /\ call' = [call EXCEPT ![Stopper] = NoCall]
           \/ /\ actor' = Loop(a, actor[a])
              /\ call' = [call EXCEPT ![Stopper] = NoCall, ![c] = NoCall]
    BY <1>6, <1>8 DEF AgentStopped
  <2>2. c \in Callers /\ call[c].at = "served" /\ call[Stopper].at \notin Command
    BY <1>6, <2>1 DEF Inv, CallsPlaced, Command
  <2>3. RestTyped' /\ box' = box /\ behind' \subseteq Callers /\ \A d \in behind' : call[d].at = "running" /\ call[d].id # Env
    BY <1>1, <2>1 DEF RestTyped, world, Inv, TypeOK, OnlyAgentBehind
  <2>4. CASE /\ actor' = [actor EXCEPT ![a].at = "swap"]
             /\ call' = [call EXCEPT ![Stopper] = NoCall]
    <3> DEFINE s == [actor[a] EXCEPT !.at = "swap"]
    <3>1. s \in ActorSet /\ s.at = "swap" /\ s.id = Env /\ s.execs = {} /\ ~s.awake /\ s.serves = c
      BY <1>1, <1>6, <2>1 DEF ActorSet
    <3>2. actor' = [actor EXCEPT ![a] = s]
      BY <1>1, <2>4
    <3>3. /\ call' \in [Sending -> CallSet] /\ call'[Stopper] = NoCall
          /\ \A d \in Sending : d # Stopper => call'[d] = call[d]
      BY <1>1, <2>4
    <3> HIDE DEF s
    <3>4. /\ \A d \in Sending : call[d].at \in Command => call'[d] = call[d]
          /\ \A d \in Sending : call'[d] = call[d] \/ (call[d].at \notin Command /\ call'[d] = NoCall)
          /\ \A d \in behind' : call'[d].at = "running" /\ call'[d].id # Env
          /\ s.serves \in Callers /\ call'[s.serves].at = "served" /\ box'[Env] = "off"
          /\ registry' = registry /\ (box'[Agent] = "off" <=> box[Agent] = "off")
      BY <1>6, <2>1, <2>2, <2>3, <3>1, <3>3
    <3> QED BY <2>1, <2>3, <3>1, <3>2, <3>3, <3>4, QuietInv, Zenon
  <2>5. CASE /\ actor' = Loop(a, actor[a])
             /\ call' = [call EXCEPT ![Stopper] = NoCall, ![c] = NoCall]
    <3> DEFINE s == Loop(a, actor[a])[a]
    <3>1. /\ s \in ActorSet /\ s.at \in {"select", "second"} /\ s.id = Env /\ s.execs = {} /\ ~s.awake
          /\ actor' = [actor EXCEPT ![a] = s]
      BY <1>1, <1>6, <2>1, <2>5, Zenon DEF ActorSet, Loop
    <3>2. /\ call' \in [Sending -> CallSet] /\ call'[Stopper] = NoCall /\ call'[c] = NoCall
          /\ \A d \in Sending : d # Stopper /\ d # c => call'[d] = call[d]
      BY <1>1, <2>2, <2>5
    <3> HIDE DEF s
    <3>3. /\ \A d \in Sending : call[d].at \in Command => call'[d] = call[d]
          /\ \A d \in Sending : call'[d] = call[d] \/ (call[d].at \notin Command /\ call'[d] = NoCall)
          /\ \A d \in behind' : call'[d].at = "running" /\ call'[d].id # Env
          /\ box'[Env] = "off"
      BY <1>6, <2>1, <2>2, <2>3, <3>2 DEF Command
    <3>4. registry' = registry /\ (box'[Agent] = "off" <=> box[Agent] = "off")
      BY <2>1, <2>3
    <3> QED BY <2>1, <2>3, <3>1, <3>2, <3>3, <3>4, QuietInv, Zenon
  <2> QED BY <2>1, <2>4, <2>5
<1>9. CASE Swap(a)
  <2> DEFINE c == actor[a].serves
             s == Loop(a, actor[a])[a]
  <2>1. /\ actor[a].at = "swap" /\ UNCHANGED <<registry, saved, troubles>>
        /\ actor' = Loop(a, actor[a]) /\ call' = [call EXCEPT ![c] = NoCall]
        /\ \/ /\ box' = [b \in Boxes |-> IF box[b] = "on" THEN "old" ELSE box[b]]
              /\ exists' = (call[c].kind = "restore")
              /\ behind' = behind \cup {d \in Callers : call[d].at = "running"}
           \/ UNCHANGED <<world, behind>>
    BY <1>6, <1>9 DEF Swap, Answer
  <2>2. c \in Callers /\ call[c].at = "served"
    BY <1>6, <2>1
  <2>3. /\ s \in ActorSet /\ s.at \in {"select", "second"} /\ s.id = Env /\ s.execs = {} /\ ~s.awake
        /\ actor' = [actor EXCEPT ![a] = s]
    BY <1>1, <1>6, <2>1, Zenon DEF ActorSet, Loop
  <2>4. /\ call' \in [Sending -> CallSet] /\ call'[c] = NoCall
        /\ \A d \in Sending : d # c => call'[d] = call[d]
    BY <1>1, <2>1, <2>2
  <2>5. RestTyped'
    BY <1>1, <2>1, ZenonT(30) DEF RestTyped, world
  <2>6. box'[Env] = "off" /\ (box'[Agent] = "off" <=> box[Agent] = "off")
    BY <1>1, <1>6, <2>1 DEF RestTyped, world
  <2>7. \A d \in Callers : call[d].at = "running" => call[d].id # Env
    (* A command in the services' box would be counted by this actor.       *)
    <3> SUFFICES ASSUME NEW d \in Callers, call[d].at = "running", call[d].id = Env PROVE FALSE
      OBVIOUS
    <3>1. call[d].actor \in Actors /\ Live(call[d].actor) /\ d \in actor[call[d].actor].execs
      BY <1>1 DEF Inv, CommandsCounted, CallsPlaced, CallSet
    <3>2. actor[call[d].actor].id = Env
      BY <3>1 DEF Inv, CallsPlaced
    <3>3. call[d].actor = a
      BY <1>6, <2>1, <3>1, <3>2 DEF Inv, Registered
    <3> QED BY <1>6, <2>1, <3>1, <3>3
  <2>8. behind' \subseteq Callers /\ \A d \in behind' : call'[d].at = "running" /\ call'[d].id # Env
    BY <2>1, <2>2, <2>4, <2>7 DEF Inv, OnlyAgentBehind, TypeOK, world
  <2> HIDE DEF s
  <2>9. /\ \A d \in Sending : call[d].at \in Command => call'[d] = call[d]
        /\ \A d \in Sending : call'[d] = call[d] \/ (call[d].at \notin Command /\ call'[d] = NoCall)
        /\ registry' = registry
    BY <2>1, <2>2, <2>4 DEF Command
  <2> QED BY <2>1, <2>3, <2>4, <2>5, <2>6, <2>8, <2>9, QuietInv, Zenon
<1> QED BY <1>2, <1>3, <1>4, <1>5, <1>8, <1>9 DEF Goes
=============================================================================
