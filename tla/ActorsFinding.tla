--------------------------- MODULE ActorsFinding ----------------------------
(***************************************************************************)
(* Run keeps the invariant when it finds or starts an actor, and so does a *)
(* restart of the daemon.                                                  *)
(***************************************************************************)
EXTENDS ActorsInvariant

USE DEF Boxes, Sending, AllKinds, Live, Fresh, NoCall
-----------------------------------------------------------------------------
(* What an actor starts with.                                               *)
LEMMA StartedFacts ==
  ASSUME NEW b \in Boxes, NEW w \in BOOLEAN, NEW n \in 0..CrashLimit
  PROVE  /\ Started(b, w, n) \in ActorSet /\ Started(b, w, n).id = b /\ Started(b, w, n).at = "select"
         /\ Started(b, w, n).awake = w /\ Started(b, w, n).execs = {}
BY Zenon DEF Started, ActorSet

(* Run answers a find.                                                      *)
LEMMA FindInv ==
  ASSUME Inv, NEW c \in Sending, Find(c)
  PROVE  Inv'
<1> USE OutsideValues, BoxesDiffer, BoundsAssumption
<1> DEFINE b == call[c].id
<1>1. /\ actor \in [Actors -> ActorSet] /\ call \in [Sending -> CallSet]
      /\ registry \in [Boxes -> Actors \cup {None}] /\ saved \in [Boxes -> 0..CrashLimit]
      /\ \A d \in Sending : call[d].actor \in Actors \cup {None}
  BY DEF Inv, TypeOK, ActorSet, CallSet, Places
<1>2. call[c].at = "find" /\ b \in Boxes /\ UNCHANGED <<saved, box, exists, troubles, behind>>
  BY DEF Find, Inv, CallsPlaced, world
<1>3. PICK a \in Actors :
        /\ registry' = [registry EXCEPT ![b] = a]
        /\ call' = [call EXCEPT ![c].at = "found", ![c].actor = a]
        /\ \/ /\ registry[b] = a /\ actor[a].at # "done" /\ actor' = actor
           \/ /\ registry[b] = None \/ actor[registry[b]].at = "done"
              /\ a \in Unused /\ actor' = [actor EXCEPT ![a] = Started(b, FALSE, saved[b])]
  BY <1>1, <1>2, ZenonT(30) DEF Find, Unused
<1>4. /\ call'[c] = [call[c] EXCEPT !.at = "found", !.actor = a] /\ call'[c] \in CallSet
      /\ call'[c].at = "found" /\ call'[c].actor = a /\ call'[c].id = b /\ call'[c].kind = call[c].kind
      /\ \A d \in Sending : d # c => call'[d] = call[d]
      /\ call' \in [Sending -> CallSet]
  <2> DEFINE to == [call[c] EXCEPT !.at = "found", !.actor = a]
  <2>0. call[c] \in CallSet
    BY <1>1
  <2>1. to \in CallSet /\ to.at = "found" /\ to.actor = a /\ to.id = b /\ to.kind = call[c].kind
    BY <2>0, Zenon DEF CallSet, Places
  <2>2. call' = [call EXCEPT ![c] = to]
    BY <1>1, <1>3, Zenon
  <2> HIDE DEF to
  <2> QED BY <1>1, <2>1, <2>2, Zenon DEF to
<1>5. /\ Started(b, FALSE, saved[b]) \in ActorSet /\ Started(b, FALSE, saved[b]).id = b
      /\ Started(b, FALSE, saved[b]).at = "select" /\ Started(b, FALSE, saved[b]).execs = {}
  <2>1. b \in Boxes /\ saved[b] \in 0..CrashLimit
    BY <1>1, <1>2
  <2>2. ASSUME NEW x \in Boxes, NEW n \in 0..CrashLimit
        PROVE  /\ Started(x, FALSE, n) \in ActorSet /\ Started(x, FALSE, n).id = x
               /\ Started(x, FALSE, n).at = "select" /\ Started(x, FALSE, n).execs = {}
    <3>1. FALSE \in BOOLEAN
      BY Zenon
    <3> QED BY <3>1, StartedFacts, ZenonT(30)
  <2> HIDE DEF b
  <2> QED BY <2>1, <2>2, ZenonT(30)
<1>6. /\ actor' \in [Actors -> ActorSet] /\ actor'[a].id = b /\ Live(a)' /\ registry'[b] = a
      /\ \A d \in Actors : d # a => actor'[d] = actor[d]
      /\ actor'[a] # actor[a] => a \in Unused /\ actor'[a].execs = {} /\ actor'[a].at = "select"
      /\ \A x \in Boxes : x # b => registry'[x] = registry[x]
      /\ registry' \in [Boxes -> Actors \cup {None}]
      /\ registry[b] # None /\ registry[b] # a => actor[registry[b]].at = "done"
  <2> DEFINE new == Started(b, FALSE, saved[b])
  <2>1. registry' \in [Boxes -> Actors \cup {None}] /\ registry'[b] = a /\ \A x \in Boxes : x # b => registry'[x] = registry[x]
    BY <1>1, <1>2, <1>3
  <2> HIDE DEF new
  <2>2. CASE registry[b] = a /\ actor[a].at # "done" /\ actor' = actor
    BY <1>1, <1>2, <2>1, <2>2 DEF Inv, Registered
  <2>3. CASE /\ registry[b] = None \/ actor[registry[b]].at = "done"
             /\ a \in Unused /\ actor' = [actor EXCEPT ![a] = new]
    BY <1>1, <1>2, <1>5, <2>1, <2>3, Zenon DEF new
  <2> QED BY <1>3, <2>2, <2>3, Zenon DEF new
<1>7. TypeOK'
  BY <1>2, <1>4, <1>6 DEF Inv, TypeOK, ActorSet, CallSet, Places
<1>8. \A d \in Actors : actor'[d] # actor[d] => d = a /\ actor[a].at = "free" /\ \A e \in Sending : call[e].actor # a
  BY <1>6 DEF Unused
<1>9. Registered'
  BY <1>1, <1>2, <1>6, <1>8 DEF Inv, Registered
<1>10. ActorsPlaced'
  BY <1>1, <1>2, <1>4, <1>6 DEF Inv, ActorsPlaced
<1>11. BoxesKept'
  BY <1>1, <1>2, <1>6, <1>8 DEF Inv, BoxesKept, Registered
<1>12. CallsPlaced'
  <2>1. ASSUME NEW d \in Sending, call'[d].actor # None, Live(call[d].actor)'
        PROVE  actor'[call'[d].actor].id = call'[d].id
    <3>1. CASE d = c
      BY <1>4, <1>6, <3>1, Zenon
    <3>2. CASE d # c
      <4>1. call'[d] = call[d] /\ call[d].actor \in Actors
        BY <1>1, <1>4, <2>1, <3>2
      <4>2. actor'[call[d].actor] = actor[call[d].actor]
        BY <1>8, <4>1
      <4> QED BY <2>1, <4>1, <4>2 DEF Inv, CallsPlaced
    <3> QED BY <3>1, <3>2
  <2>2. \A d \in Sending : call'[d].at # "none" => call'[d].id \in Boxes
    BY <1>2, <1>4, Zenon DEF Inv, CallsPlaced
  <2>3. \A d \in Callers : call'[d].at = "running" => call'[d].actor # None
    BY <1>4, ZenonT(30) DEF Inv, CallsPlaced
  <2>4. /\ call'[Stopper].kind \in {"none", "stop_agent"}
        /\ call'[Stopper].at \notin {"running", "close", "closing"}
        /\ \A d \in Callers : call'[d].kind # "stop_agent"
    <3>1. \A d \in Sending : call'[d].kind = call[d].kind /\ (call'[d].at = call[d].at \/ call'[d].at = "found")
      BY <1>4, Zenon
    <3> QED BY <3>1, SMTT(30) DEF Inv, CallsPlaced
  <2> QED BY <2>1, <2>2, <2>3, <2>4 DEF CallsPlaced
<1>13. CommandsCounted'
  <2>1. \A x \in Actors : actor'[x].execs = actor[x].execs
    BY <1>6, <1>8, Zenon DEF Inv, ActorsPlaced
  <2>2. \A d \in Callers : call[d].at \in {"running", "close", "closing"} => d # c /\ call'[d] = call[d]
    BY <1>2, <1>4
  <2>3. ASSUME NEW d \in Callers, call'[d].at = "running"
        PROVE  Live(call[d].actor)' /\ d \in actor'[call'[d].actor].execs
    <3>1. call'[d] = call[d] /\ call[d].actor \in Actors
      BY <1>1, <1>4, <2>3, Zenon DEF Inv, CallsPlaced
    <3>2. actor'[call[d].actor] = actor[call[d].actor]
      BY <1>8, <3>1
    <3> QED BY <2>3, <3>1, <3>2 DEF Inv, CommandsCounted
  <2> QED BY <1>1, <2>1, <2>2, <2>3 DEF Inv, CommandsCounted, ActorSet
<1>14. OnlyAgentBehind'
  BY <1>2, <1>4 DEF Inv, OnlyAgentBehind, TypeOK
<1> QED BY <1>7, <1>9, <1>10, <1>11, <1>12, <1>13, <1>14 DEF Inv

(* A restart leaves one actor for each box that runs, and no call.          *)
LEMMA RestartInv ==
  ASSUME Inv, Restart
  PROVE  Inv'
<1> USE OutsideValues, BoxesDiffer, BoundsAssumption
<1>1. PICK of \in [Boxes -> Actors \cup {None}] :
        /\ \A b \in Boxes : (of[b] = None) <=> (box[b] = "off")
        /\ \A b, d \in Boxes : of[b] = of[d] => b = d \/ of[b] = None
        /\ registry' = of
        /\ actor' = [a \in Actors |-> IF \E b \in Boxes : of[b] = a
                                         THEN Started(CHOOSE b \in Boxes : of[b] = a, TRUE, 0) ELSE Fresh]
  BY Zenon DEF Restart
<1>2. /\ troubles' \in 0..MaxTroubles /\ saved' = [b \in Boxes |-> 0]
      /\ call' = [c \in Sending |-> NoCall] /\ behind' = {}
      /\ box' = box /\ exists' = exists
  BY DEF Restart, Trouble, world, Inv, TypeOK
<1>3. \A a \in Actors :
        IF \E b \in Boxes : of[b] = a
          THEN \E b \in Boxes : of[b] = a /\ actor'[a] = Started(b, TRUE, 0)
          ELSE actor'[a] = Fresh
  BY <1>1, Zenon
<1>4. ASSUME NEW b \in Boxes
      PROVE  /\ Started(b, TRUE, 0) \in ActorSet /\ Started(b, TRUE, 0).id = b /\ Started(b, TRUE, 0).at = "select"
             /\ Started(b, TRUE, 0).awake /\ Started(b, TRUE, 0).execs = {}
  <2>1. 0 \in 0..CrashLimit
    OBVIOUS
  <2> QED BY <2>1, StartedFacts, ZenonT(30)
<1>5. Fresh \in ActorSet /\ Fresh.at = "free" /\ Fresh.execs = {} /\ ~Fresh.awake
  BY DEF ActorSet
<1>6. ASSUME NEW a \in Actors
      PROVE  /\ actor'[a] \in ActorSet /\ actor'[a].execs = {} /\ actor'[a].at \in {"free", "select"}
             /\ actor'[a].at = "free" => ~actor'[a].awake /\ \A b \in Boxes : of[b] # a
             /\ actor'[a].at = "select" => actor'[a].id \in Boxes /\ of[actor'[a].id] = a /\ actor'[a].awake
  <2>1. CASE \E b \in Boxes : of[b] = a
    <3>1. PICK b \in Boxes : of[b] = a /\ actor'[a] = Started(b, TRUE, 0)
      BY <1>3, <2>1, Zenon
    <3> QED BY <1>4, <3>1, Zenon
  <2>2. CASE ~\E b \in Boxes : of[b] = a
    <3>1. actor'[a] = Fresh
      BY <1>3, <2>2, Zenon
    <3> QED BY <1>5, <2>2, <3>1
  <2> QED BY <2>1, <2>2
<1>7. actor' \in [Actors -> ActorSet]
  BY <1>1, <1>6, Zenon
<1> HIDE DEF Fresh
<1>8. TypeOK'
  <2>1. saved' \in [Boxes -> 0..CrashLimit] /\ behind' \subseteq Callers
    BY <1>2
  <2>2. call' \in [Sending -> CallSet]
    BY <1>2 DEF CallSet, Places
  <2> QED BY <1>1, <1>2, <1>7, <2>1, <2>2, Zenon DEF Inv, TypeOK, ActorSet, CallSet, Places
<1>9. Registered'
  <2>1. \A b \in Boxes : registry'[b] # None => registry'[b] \in Actors /\ actor'[registry'[b]].id = b
    <3> SUFFICES ASSUME NEW b \in Boxes, of[b] # None PROVE of[b] \in Actors /\ actor'[of[b]].id = b
      BY <1>1, Zenon
    <3>1. of[b] \in Actors
      OBVIOUS
    <3>2. actor'[of[b]].id \in Boxes /\ of[actor'[of[b]].id] = of[b]
      BY <1>6, <3>1
    <3> QED BY <1>1, <3>1, <3>2, Zenon
  <2> QED BY <1>1, <1>6, <2>1, Zenon DEF Registered
<1>10. ActorsPlaced' /\ CallsPlaced' /\ CommandsCounted'
  BY <1>2, <1>6 DEF ActorsPlaced, CallsPlaced, CommandsCounted
<1>11. BoxesKept'
  BY <1>1, <1>2, <1>6, ZenonT(30) DEF BoxesKept
<1>12. OnlyAgentBehind'
  BY <1>2 DEF Inv, OnlyAgentBehind
<1> QED BY <1>8, <1>9, <1>10, <1>11, <1>12 DEF Inv
=============================================================================
