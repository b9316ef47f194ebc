-------------------------- MODULE ActorsHandling ----------------------------
(***************************************************************************)
(* An actor keeps the invariant when it handles a message.                 *)
(***************************************************************************)
EXTENDS ActorsInvariant

USE DEF Boxes, Sending, AllKinds, Live, Fresh, NoCall
----------------------------------------------------------------------------
(* What holds of an actor and of the message it takes.                      *)
LEMMA TakenFacts ==
  ASSUME Inv, NEW a \in Actors, NEW c \in Sending, actor[a].at \in {"select", "second"}, c \in Waiting(a)
  PROVE  /\ actor \in [Actors -> ActorSet] /\ call \in [Sending -> CallSet] /\ RestTyped
         /\ call[c] \in CallSet /\ actor[a] \in ActorSet /\ NoCall \in CallSet
         /\ call[c].actor = a /\ call[c].at \in {"send", "closing"}
         /\ actor[a].id \in Boxes /\ call[c].id = actor[a].id
         /\ call[c].at = "closing" => c \in Callers
         /\ Self(a) \in ActorSet /\ Self(a).id = actor[a].id /\ Self(a).awake = actor[a].awake
         /\ Self(a).execs = actor[a].execs /\ Self(a).addr = actor[a].addr
         /\ Self(a).crashes = actor[a].crashes
         /\ box[actor[a].id] # "off" => actor[a].awake
         /\ box[Env] # "old"
         /\ call[c].at = "send" => actor[a].execs = actor[a].execs \ {c}
<1> USE OutsideValues
<1>1. /\ actor \in [Actors -> ActorSet] /\ call \in [Sending -> CallSet] /\ RestTyped
      /\ call[c] \in CallSet /\ actor[a] \in ActorSet
  BY DEF Inv, TypeOK, ActorSet, CallSet, Places, RestTyped
<1>2. /\ call[c].actor = a /\ call[c].at \in {"send", "closing"}
      /\ actor[a].id \in Boxes /\ call[c].id = actor[a].id
      /\ call[c].at = "closing" => c \in Callers
  BY DEF Waiting, Inv, Registered, CallsPlaced
<1>3. /\ Self(a) \in ActorSet /\ Self(a).id = actor[a].id /\ Self(a).awake = actor[a].awake
      /\ Self(a).execs = actor[a].execs /\ Self(a).addr = actor[a].addr
      /\ Self(a).crashes = actor[a].crashes
  BY <1>1 DEF Self, ActorSet
<1>4. /\ box[actor[a].id] # "off" => actor[a].awake
      /\ box[Env] # "old"
      /\ call[c].at = "send" => actor[a].execs = actor[a].execs \ {c}
  BY <1>1, <1>2 DEF Inv, BoxesKept, Registered, OnlyAgentBehind, CommandsCounted
<1>5. NoCall \in CallSet
  BY DEF CallSet, Places
<1> QED BY <1>1, <1>2, <1>3, <1>4, <1>5

(* The call of a command ends.                                              *)
LEMMA EndExecInv ==
  ASSUME Inv, NEW a \in Actors, NEW c \in Sending, EndExec(a, c)
  PROVE  Inv'
<1> USE OutsideValues
<1>1. actor[a].at \in {"select", "second"} /\ c \in Waiting(a) /\ call[c].at = "closing"
  BY DEF EndExec
<1> DEFINE r == [Self(a) EXCEPT !.execs = @ \ {c}]
<1>2. r \in ActorSet /\ r.id = actor[a].id /\ r.execs = actor[a].execs \ {c} /\ r.awake = actor[a].awake
  BY <1>1, TakenFacts DEF ActorSet
<1>3. /\ Closed(c) \in CallSet /\ Closed(c).actor = None
      /\ \/ Closed(c).at = "none" /\ Closed(c).kind = "none"
         \/ Closed(c).at = "find" /\ Closed(c).kind = "exec" /\ Closed(c).id = call[c].id
  BY <1>1, TakenFacts, ZenonT(30) DEF Closed, CallSet, Places
<1>4. /\ actor' = Loop(a, r) /\ call' = [call EXCEPT ![c] = Closed(c)]
      /\ UNCHANGED <<registry, saved, box, exists, troubles, behind>>
  BY DEF EndExec, Answer, world
<1>5. RestTyped'
  BY <1>1, <1>4, TakenFacts, Zenon DEF RestTyped
<1> HIDE DEF r
<1>6. /\ call[c].actor = a /\ call[c].id \in Boxes /\ (box[actor[a].id] # "off" => actor[a].awake)
      /\ box[Env] # "old" /\ c \in Callers
  BY <1>1, TakenFacts
<1> QED BY <1>1, <1>2, <1>3, <1>4, <1>5, <1>6, ServeInv, Zenon

(* A message is answered, and no command begins.                            *)
LEMMA AnswerInv ==
  ASSUME Inv, NEW a \in Actors, NEW c \in Sending, actor[a].at \in {"select", "second"}, c \in Waiting(a),
         call[c].at = "send", NEW r \in ActorSet, actor' = Loop(a, r), r.id = actor[a].id,
         r.execs = actor[a].execs, call' = [call EXCEPT ![c] = NoCall],
         RestTyped', \A b \in Boxes : b # actor[a].id => box'[b] = box[b],
         box'[actor[a].id] # "off" => r.awake, box'[Env] # "old", UNCHANGED <<registry, behind>>
  PROVE  Inv'
<1> USE OutsideValues
<1>1. /\ call[c].actor = a /\ r.execs = actor[a].execs \ {c}
  BY TakenFacts
<1>2. NoCall \in CallSet /\ NoCall.at = "none" /\ NoCall.kind = "none" /\ NoCall.actor = None
  BY DEF CallSet, Places
<1> QED BY <1>1, <1>2, ServeInv, Zenon

(* What an actor that read its record goes on with.                         *)
LEMMA AskedFacts ==
  ASSUME NEW a \in Actors, NEW c \in Sending, actor[a].id \in Boxes, RestTyped, Self(a) \in ActorSet
  PROVE  /\ Asked(a, c) \in ActorSet /\ Asked(a, c).id = Self(a).id
         /\ Asked(a, c).execs = Self(a).execs /\ Asked(a, c).awake = Self(a).awake
BY BoundsAssumption DEF Asked, ActorSet, RestTyped

(* A message is refused, creates the environment, or its stop fails.        *)
LEMMA PlainInv ==
  ASSUME Inv, NEW a \in Actors, NEW c \in Sending, Refuse(a, c) \/ Create(a, c) \/ StopFails(a, c)
  PROVE  Inv'
<1> USE BoundsAssumption
<1>1. actor[a].at \in {"select", "second"} /\ c \in Waiting(a) /\ call[c].at = "send"
  BY DEF Refuse, Create, StopFails, Takes
<1>2. /\ RestTyped /\ actor[a].id \in Boxes
      /\ Self(a) \in ActorSet /\ Self(a).id = actor[a].id /\ Self(a).awake = actor[a].awake
      /\ Self(a).execs = actor[a].execs /\ (box[actor[a].id] # "off" => actor[a].awake) /\ box[Env] # "old"
  BY <1>1, TakenFacts
<1>3. CASE Refuse(a, c)
  <2>1. /\ actor' = Loop(a, Asked(a, c)) /\ call' = [call EXCEPT ![c] = NoCall]
        /\ UNCHANGED <<registry, saved, box, exists, troubles, behind>>
    BY <1>3 DEF Refuse, Answer, world
  <2> QED BY <1>1, <1>2, <2>1, AskedFacts, AnswerInv, Zenon DEF RestTyped
<1>4. CASE Create(a, c)
  BY <1>1, <1>2, <1>4, AnswerInv, Zenon DEF Create, Answer, RestTyped
<1>5. CASE StopFails(a, c)
  <2> DEFINE r == [Self(a) EXCEPT !.addr = FALSE]
  <2>1. r \in ActorSet /\ r.id = actor[a].id /\ r.execs = actor[a].execs /\ r.awake = actor[a].awake
    <3>1. Self(a).awake \in BOOLEAN
      BY <1>2 DEF ActorSet
    <3> QED BY <1>2, <3>1, Zenon DEF ActorSet
  <2>2. /\ actor' = Loop(a, r) /\ call' = [call EXCEPT ![c] = NoCall]
        /\ UNCHANGED <<registry, saved, box, exists, troubles, behind>>
    BY <1>5 DEF StopFails, Answer, world
  <2> HIDE DEF r
  <2> QED BY <1>1, <1>2, <2>1, <2>2, AnswerInv, Zenon DEF RestTyped
<1> QED BY <1>3, <1>4, <1>5

(* A message for an awake box is answered; the command it asks for begins.  *)
LEMMA WokenInv ==
  ASSUME Inv, NEW a \in Actors, NEW c \in Sending, Takes(a, c, {"exec", "job", "wake"}),
         NEW r \in ActorSet, r.id = actor[a].id, r.execs = actor[a].execs,
         actor' = Loop(a, Counted(r, c)), Answer(c, Woken(c)),
         RestTyped', \A b \in Boxes : b # actor[a].id => box'[b] = box[b],
         box'[actor[a].id] # "off" => r.awake, box'[Env] # "old", UNCHANGED <<registry, behind>>
  PROVE  Inv'
<1> USE OutsideValues
<1>1. /\ actor[a].at \in {"select", "second"} /\ c \in Waiting(a) /\ call[c].at = "send"
      /\ call[c].kind \in {"exec", "job", "wake"}
  BY DEF Takes
<1>2. CASE call[c].kind \in {"exec", "job"}
  <2>1. call[c] \in CallSet /\ call[c].actor = a
    BY <1>1, TakenFacts
  <2>2. c \in Callers
    BY <1>2 DEF Inv, CallsPlaced
  <2> DEFINE to == [call[c] EXCEPT !.at = "running"]
             q  == [r EXCEPT !.execs = @ \cup {c}]
  <2>3. /\ to \in CallSet /\ to.at = "running" /\ to.kind \in AllKinds /\ to.actor = a /\ to.id = call[c].id
        /\ call' = [call EXCEPT ![c] = to]
    BY <1>2, <2>1 DEF CallSet, Places, Answer, Woken
  <2>4. /\ q \in ActorSet /\ q.id = actor[a].id /\ q.execs = actor[a].execs \cup {c} /\ q.awake = r.awake
        /\ actor' = Loop(a, q)
    BY <1>2, <2>2 DEF ActorSet, Counted
  <2> HIDE DEF to, q
  <2> QED BY <1>1, <2>1, <2>2, <2>3, <2>4, ServeInv, Zenon
<1>3. CASE call[c].kind \notin {"exec", "job"}
  <2>1. actor' = Loop(a, r) /\ call' = [call EXCEPT ![c] = NoCall]
    BY <1>3 DEF Answer, Woken, Counted
  <2> QED BY <1>1, <2>1, AnswerInv, Zenon
<1> QED BY <1>2, <1>3

(* The agent or a person wakes a box that is awake as far as its actor     *)
(* knows.                                                                   *)
LEMMA WakeKnownInv ==
  ASSUME Inv, NEW a \in Actors, NEW c \in Sending, WakeKnown(a, c)
  PROVE  Inv'
<1>1. /\ Takes(a, c, {"exec", "job", "wake"}) /\ actor' = Loop(a, Counted(Asked(a, c), c))
      /\ Answer(c, Woken(c)) /\ UNCHANGED <<registry, saved, box, exists, troubles, behind>>
  BY DEF WakeKnown, world
<1>2. actor[a].at \in {"select", "second"} /\ c \in Waiting(a)
  BY <1>1 DEF Takes
<1>3. /\ RestTyped /\ actor[a].id \in Boxes /\ Self(a) \in ActorSet
      /\ Self(a).id = actor[a].id /\ Self(a).awake = actor[a].awake /\ Self(a).execs = actor[a].execs
      /\ (box[actor[a].id] # "off" => actor[a].awake) /\ box[Env] # "old"
  BY <1>2, TakenFacts
<1>4. RestTyped'
  BY <1>1, <1>3 DEF RestTyped
<1>5. /\ Asked(a, c) \in ActorSet /\ Asked(a, c).id = actor[a].id
      /\ Asked(a, c).execs = actor[a].execs /\ Asked(a, c).awake = actor[a].awake
  BY <1>3, AskedFacts
<1> QED BY <1>1, <1>3, <1>4, <1>5, WokenInv

(* A failed wake leaves the actor awake, one crash further.                 *)
LEMMA FailedFacts ==
  ASSUME NEW q \in ActorSet
  PROVE  Failed(q) \in ActorSet /\ Failed(q).id = q.id /\ Failed(q).execs = q.execs /\ Failed(q).awake
<1> USE BoundsAssumption
<1>1. Capped(q.crashes + 1) \in 0..CrashLimit
  BY DEF Capped, ActorSet
<1> QED BY <1>1, Zenon DEF Failed, ActorSet

(* A box is woken, or the wake is refused or fails.                         *)
LEMMA WakeInv ==
  ASSUME Inv, NEW a \in Actors, NEW c \in Sending, Wake(a, c)
  PROVE  Inv'
<1> USE BoundsAssumption
<1> DEFINE died == IF Stale(c) THEN 1 ELSE 0
           now  == Capped(Asked(a, c).crashes + died)
           r    == [Self(a) EXCEPT !.crashes = now]
           up   == [r EXCEPT !.awake = TRUE, !.addr = TRUE]
<1>1. /\ Takes(a, c, {"exec", "job", "wake"}) /\ UNCHANGED <<registry, saved, exists, behind>>
      /\ \/ /\ actor' = Loop(a, r) /\ Answer(c, NoCall)
            /\ UNCHANGED <<box, troubles>>
         \/ /\ box' = [box EXCEPT ![actor[a].id] = IF @ = "off" THEN "on" ELSE @]
            /\ actor' = Loop(a, Counted(up, c)) /\ Answer(c, Woken(c))
            /\ UNCHANGED troubles
         \/ /\ Trouble
            /\ \E half \in {"on", "off"} :
                 box' = [box EXCEPT ![actor[a].id] = IF @ = "old" /\ half = "on" THEN "old" ELSE half]
            /\ actor' = Loop(a, Failed(r)) /\ Answer(c, NoCall)
  BY Zenon DEF Wake
<1>2. actor[a].at \in {"select", "second"} /\ c \in Waiting(a) /\ call[c].at = "send"
  BY <1>1 DEF Takes
<1>3. /\ RestTyped /\ actor[a].id \in Boxes /\ Self(a) \in ActorSet
      /\ Self(a).id = actor[a].id /\ Self(a).awake = actor[a].awake /\ Self(a).execs = actor[a].execs
      /\ (box[actor[a].id] # "off" => actor[a].awake) /\ box[Env] # "old"
  BY <1>2, TakenFacts
<1>4. now \in 0..CrashLimit
  <2>1. Asked(a, c) \in ActorSet
    BY <1>3, AskedFacts
  <2> QED BY <2>1 DEF Capped, ActorSet
<1> HIDE DEF now
<1>5. r \in ActorSet /\ r.id = actor[a].id /\ r.execs = actor[a].execs /\ r.awake = actor[a].awake
  BY <1>3, <1>4 DEF ActorSet
<1> HIDE DEF r
<1>6. up \in ActorSet /\ up.id = actor[a].id /\ up.execs = actor[a].execs /\ up.awake
  BY <1>5, Zenon DEF ActorSet
<1>7. /\ Failed(r) \in ActorSet /\ Failed(r).id = actor[a].id /\ Failed(r).execs = actor[a].execs
      /\ Failed(r).awake
  BY <1>5, FailedFacts
<1> HIDE DEF up
<1>8. CASE actor' = Loop(a, r) /\ Answer(c, NoCall) /\ UNCHANGED <<box, troubles>>
  <2>1. RestTyped' /\ call' = [call EXCEPT ![c] = NoCall]
    BY <1>1, <1>3, <1>8 DEF RestTyped, Answer
  <2> QED BY <1>1, <1>2, <1>3, <1>5, <1>8, <2>1, AnswerInv, Zenon
<1>9. CASE /\ box' = [box EXCEPT ![actor[a].id] = IF @ = "off" THEN "on" ELSE @]
           /\ actor' = Loop(a, Counted(up, c)) /\ Answer(c, Woken(c))
           /\ UNCHANGED troubles
  <2>1. RestTyped' /\ (\A b \in Boxes : b # actor[a].id => box'[b] = box[b]) /\ box'[Env] # "old"
    BY <1>1, <1>3, <1>9 DEF RestTyped
  <2> QED BY <1>1, <1>6, <1>9, <2>1, WokenInv
<1>10. CASE /\ Trouble
            /\ \E half \in {"on", "off"} :
                 box' = [box EXCEPT ![actor[a].id] = IF @ = "old" /\ half = "on" THEN "old" ELSE half]
            /\ actor' = Loop(a, Failed(r)) /\ Answer(c, NoCall)
  <2>1. RestTyped' /\ (\A b \in Boxes : b # actor[a].id => box'[b] = box[b]) /\ box'[Env] # "old"
    BY <1>1, <1>3, <1>10 DEF RestTyped, Trouble
  <2>2. call' = [call EXCEPT ![c] = NoCall]
    BY <1>10 DEF Answer
  <2> QED BY <1>1, <1>2, <1>7, <1>10, <2>1, <2>2, AnswerInv, Zenon
<1> QED BY <1>1, <1>8, <1>9, <1>10

(* What stopping its box leaves of an actor and of the calls.               *)
LEMMA StoppedFacts ==
  ASSUME NEW a \in Actors, actor \in [Actors -> ActorSet], call \in [Sending -> CallSet],
         Self(a) \in ActorSet, Self(a).id = actor[a].id
  PROVE  /\ Stopped(Self(a)) \in ActorSet /\ Stopped(Self(a)).id = actor[a].id
         /\ Stopped(Self(a)).execs = {} /\ ~Stopped(Self(a)).awake
         /\ Loop(a, Stopped(Self(a))) = [actor EXCEPT ![a] = Loop(a, Stopped(Self(a)))[a]]
         /\ Loop(a, Stopped(Self(a)))[a] \in ActorSet /\ Loop(a, Stopped(Self(a)))[a].id = actor[a].id
         /\ Loop(a, Stopped(Self(a)))[a].execs = {} /\ ~Loop(a, Stopped(Self(a)))[a].awake
         /\ Loop(a, Stopped(Self(a)))[a].at \in {"select", "second"}
         /\ Cancelled(a) \in [Sending -> CallSet]
         /\ \A d \in Sending : call[d].at \notin Command => Cancelled(a)[d] = call[d]
<1> USE OutsideValues
<1>1. /\ Stopped(Self(a)) \in ActorSet /\ Stopped(Self(a)).id = actor[a].id
      /\ Stopped(Self(a)).execs = {} /\ ~Stopped(Self(a)).awake
  BY Zenon DEF Stopped, ActorSet
<1>2. ASSUME NEW r \in ActorSet
      PROVE  /\ Loop(a, r) = [actor EXCEPT ![a] = Loop(a, r)[a]]
             /\ Loop(a, r)[a] \in ActorSet /\ Loop(a, r)[a].id = r.id
             /\ Loop(a, r)[a].execs = r.execs /\ Loop(a, r)[a].awake = r.awake
             /\ Loop(a, r)[a].at \in {"select", "second"}
  BY Zenon DEF Loop, ActorSet
<1>3. \A d \in Sending : Cancelled(a)[d] \in CallSet
  BY DEF Cancelled, CallSet, Places
<1>4. Cancelled(a) \in [Sending -> CallSet] /\ \A d \in Sending : call[d].at \notin Command => Cancelled(a)[d] = call[d]
  BY <1>3, Zenon DEF Cancelled, Command
<1> QED BY <1>1, <1>2, <1>4

(* A call that is at no command, as StopInv asks of it.                     *)
LEMMA CallFacts ==
  ASSUME Inv, NEW d \in Sending, call[d].at \notin Command
  PROVE  /\ call[d].at # "none" => call[d].id \in Boxes
         /\ IF d = Stopper THEN call[d].kind \in {"none", "stop_agent"} ELSE call[d].kind # "stop_agent"
BY OutsideValues DEF Inv, CallsPlaced

(* Sleep, Restore and Delete stop the actor's box; those of the environment *)
(* go on to the agent box.                                                  *)
LEMMA StopCallInv ==
  ASSUME Inv, NEW a \in Actors, NEW c \in Sending, Stop(a, c)
  PROVE  Inv'
<1> USE OutsideValues, BoxesDiffer
<1>1. /\ actor[a].at \in {"select", "second"} /\ c \in Waiting(a) /\ call[c].at = "send"
      /\ call[c].kind \in {"sleep", "restore", "delete"} /\ StopBox(a) /\ UNCHANGED <<registry, saved, exists, troubles>>
  BY DEF Stop, Takes
<1>2. c \in Callers
  BY <1>1 DEF Inv, CallsPlaced
<1>3. /\ actor \in [Actors -> ActorSet] /\ call \in [Sending -> CallSet] /\ call[c] \in CallSet
      /\ Self(a) \in ActorSet /\ Self(a).id = actor[a].id /\ call[c].id = actor[a].id
      /\ actor[a].id \in Boxes /\ NoCall \in CallSet
  BY <1>1, TakenFacts, Zenon
<1>4. /\ Cancelled(a) \in [Sending -> CallSet]
      /\ \A d \in Sending : call[d].at \notin Command => Cancelled(a)[d] = call[d]
  BY <1>3, StoppedFacts
<1>5. Cancelled(a)[c] = call[c] /\ call[c].at \notin Command
  BY <1>1, <1>4 DEF Command
<1>6. CASE call[c].id = Agent
  <2>1. actor' = Loop(a, Stopped(Self(a))) /\ call' = [Cancelled(a) EXCEPT ![c] = NoCall]
    BY <1>6 DEF Stop
  <2>2. PICK s \in ActorSet :
          /\ actor' = [actor EXCEPT ![a] = s] /\ s.id = actor[a].id /\ s.execs = {} /\ ~s.awake
          /\ s.at \in {"select", "second"}
    BY <1>3, <2>1, StoppedFacts
  <2>3. /\ call' \in [Sending -> CallSet] /\ call'[c] = NoCall
        /\ \A d \in Sending : d # c => call'[d] = Cancelled(a)[d]
    BY <1>3, <1>4, <2>1
  <2>4. /\ \A d \in Sending : call[d].at \in Command => call'[d] = Cancelled(a)[d]
        /\ \A d \in Callers : call[d].at = "served" => call'[d].at = "served"
    BY <1>1, <1>4, <1>5, <2>3 DEF Command
  <2>5. \A d \in Sending : call[d].at \notin Command =>
          /\ call'[d].at \notin Command /\ (call'[d].at # "none" => call'[d].id \in Boxes)
          /\ call'[d].actor = None \/ (call'[d].actor = call[d].actor /\ call'[d].id = call[d].id)
          /\ IF d = Stopper THEN call'[d].kind \in {"none", "stop_agent"} ELSE call'[d].kind # "stop_agent"
    <3>1. NoCall.at \notin Command /\ NoCall.at = "none" /\ NoCall.actor = None /\ NoCall.kind = "none"
      BY DEF Command
    <3> QED BY <1>4, <2>3, <3>1, CallFacts
  <2> QED BY <1>1, <2>2, <2>3, <2>4, <2>5, StopInv, Zenon
<1>7. CASE call[c].id # Agent
  <2> DEFINE q  == [Stopped(Self(a)) EXCEPT !.at = "agent", !.serves = c]
             to == [call[c] EXCEPT !.at = "served"]
             st == [NoCall EXCEPT !.at = "find", !.kind = "stop_agent", !.id = Agent]
  <2>1. /\ q \in ActorSet /\ q.id = Env /\ q.at = "agent" /\ q.serves = c /\ q.execs = {} /\ ~q.awake
    <3>1. /\ Stopped(Self(a)) \in ActorSet /\ Stopped(Self(a)).id = Env
          /\ Stopped(Self(a)).execs = {} /\ ~Stopped(Self(a)).awake
      BY <1>3, <1>7, StoppedFacts
    <3> QED BY <1>2, <3>1, Zenon DEF ActorSet
  <2>2. /\ to \in CallSet /\ to.at = "served" /\ to.id = call[c].id /\ to.kind = call[c].kind
        /\ to.actor = call[c].actor
    BY <1>3 DEF CallSet, Places
  <2>3. st \in CallSet /\ st.at = "find" /\ st.id = Agent /\ st.kind = "stop_agent" /\ st.actor = None
    BY Zenon DEF CallSet, Places
  <2>4. actor' = [actor EXCEPT ![a] = q]
    BY <1>7 DEF Stop
  <2>5. call' = [Cancelled(a) EXCEPT ![c].at = "served", ![Stopper] = st]
    BY <1>7 DEF Stop
  <2> HIDE DEF st, q
  <2>6. /\ call' \in [Sending -> CallSet] /\ call'[c] = to /\ call'[Stopper] = st
        /\ \A d \in Sending : d # c /\ d # Stopper => call'[d] = Cancelled(a)[d]
    BY <1>2, <1>4, <1>5, <2>2, <2>3, <2>5
  <2> HIDE DEF to
  <2>7. \A d \in Sending : call[d].at \in Command => call'[d] = Cancelled(a)[d]
    BY <1>5, <2>6 DEF Command, Inv, CallsPlaced
  <2>8. \A d \in Sending : call[d].at \notin Command =>
          /\ call'[d].at \notin Command /\ (call'[d].at # "none" => call'[d].id \in Boxes)
          /\ call'[d].actor = None \/ (call'[d].actor = call[d].actor /\ call'[d].id = call[d].id)
          /\ IF d = Stopper THEN call'[d].kind \in {"none", "stop_agent"} ELSE call'[d].kind # "stop_agent"
    <3>1. to.at \notin Command /\ st.at \notin Command
      BY <2>2, <2>3 DEF Command
    <3> QED BY <1>1, <1>2, <1>3, <1>4, <2>2, <2>3, <2>6, <3>1, CallFacts
  <2>9. /\ q.id = actor[a].id /\ call'[q.serves].at = "served"
        /\ \A d \in Callers : call[d].at = "served" => call'[d].at = "served"
    BY <1>2, <1>3, <1>4, <1>7, <2>1, <2>2, <2>6 DEF Command
  <2> QED BY <1>1, <1>2, <2>1, <2>4, <2>6, <2>7, <2>8, <2>9, StopInv, Zenon
<1> QED BY <1>6, <1>7

(* The agent's actor serves stopAgent.                                      *)
LEMMA StopAgentInv ==
  ASSUME Inv, NEW a \in Actors, StopAgent(a)
  PROVE  Inv'
<1> USE OutsideValues, BoxesDiffer
<1>1. /\ actor[a].at \in {"select", "second"} /\ Stopper \in Waiting(a) /\ call[Stopper].at = "send"
      /\ call[Stopper].kind = "stop_agent" /\ UNCHANGED <<registry, saved, exists, troubles>>
  BY DEF StopAgent, Takes
<1>2. /\ actor \in [Actors -> ActorSet] /\ call \in [Sending -> CallSet] /\ RestTyped
      /\ call[Stopper] \in CallSet /\ call[Stopper].actor = a
      /\ Self(a) \in ActorSet /\ Self(a).id = actor[a].id /\ Self(a).awake = actor[a].awake
      /\ Self(a).execs = actor[a].execs /\ (box[actor[a].id] # "off" => actor[a].awake) /\ box[Env] # "old"
  BY <1>1, TakenFacts, Zenon
<1> DEFINE to == [call[Stopper] EXCEPT !.at = "served"]
<1>3. /\ to \in CallSet /\ to.at = "served" /\ to.id = call[Stopper].id /\ to.kind = "stop_agent" /\ to.actor = a
  BY <1>1, <1>2 DEF CallSet, Places
<1>4. CASE actor[a].awake
  <2>1. /\ actor' = Loop(a, Stopped(Self(a))) /\ call' = [Cancelled(a) EXCEPT ![Stopper].at = "served"]
        /\ StopBox(a)
    BY <1>4 DEF StopAgent
  <2>2. PICK s \in ActorSet :
          /\ actor' = [actor EXCEPT ![a] = s] /\ s.id = actor[a].id /\ s.execs = {} /\ ~s.awake
          /\ s.at \in {"select", "second"}
    BY <1>2, <2>1, StoppedFacts
  <2>3. /\ Cancelled(a) \in [Sending -> CallSet]
        /\ \A d \in Sending : call[d].at \notin Command => Cancelled(a)[d] = call[d]
    BY <1>2, StoppedFacts
  <2>4. Cancelled(a)[Stopper] = call[Stopper] /\ call[Stopper].at \notin Command
    BY <1>1, <2>3 DEF Command
  <2>5. /\ call' \in [Sending -> CallSet] /\ call'[Stopper] = to
        /\ \A d \in Sending : d # Stopper => call'[d] = Cancelled(a)[d]
    BY <1>3, <2>1, <2>3, <2>4
  <2> HIDE DEF to
  <2>6. /\ \A d \in Sending : call[d].at \in Command => call'[d] = Cancelled(a)[d]
        /\ \A d \in Callers : call[d].at = "served" => call'[d].at = "served"
    BY <2>3, <2>4, <2>5 DEF Command
  <2>7. \A d \in Sending : call[d].at \notin Command =>
          /\ call'[d].at \notin Command /\ (call'[d].at # "none" => call'[d].id \in Boxes)
          /\ call'[d].actor = None \/ (call'[d].actor = call[d].actor /\ call'[d].id = call[d].id)
          /\ IF d = Stopper THEN call'[d].kind \in {"none", "stop_agent"} ELSE call'[d].kind # "stop_agent"
    <3>1. to.at \notin Command /\ (call[Stopper].at # "none")
      BY <1>1, <1>3 DEF Command
    <3> QED BY <1>2, <1>3, <2>3, <2>5, <3>1, CallFacts
  <2> QED BY <1>1, <2>1, <2>2, <2>5, <2>6, <2>7, StopInv, Zenon
<1>5. CASE ~actor[a].awake
  <2>1. /\ actor' = Loop(a, Self(a)) /\ call' = [call EXCEPT ![Stopper].at = "served"]
        /\ UNCHANGED <<box, behind>>
    BY <1>5 DEF StopAgent
  <2>2. call' = [call EXCEPT ![Stopper] = to]
    BY <1>2, <2>1
  <2>3. RestTyped'
    BY <1>1, <1>2, <2>1 DEF RestTyped
  <2> HIDE DEF to
  <2>4. /\ \A b \in Boxes : b # actor[a].id => box'[b] = box[b]
        /\ box'[actor[a].id] # "off" => Self(a).awake
        /\ box'[Env] # "old" /\ UNCHANGED <<registry, behind>>
    BY <1>1, <1>2, <2>1
  <2>5. Self(a) \in ActorSet /\ Self(a).id = actor[a].id /\ Self(a).execs = actor[a].execs /\ call[Stopper].actor = a
    BY <1>2
  <2>6. ASSUME NEW c \in Sending, c = Stopper
        PROVE  Inv'
    BY <1>1, <1>3, <2>1, <2>2, <2>3, <2>4, <2>5, <2>6, ServeInv, ZenonT(30)
  <2> QED BY <2>6
<1> QED BY <1>4, <1>5

(* Every message is served.                                                 *)
LEMMA HandleInv ==
  ASSUME Inv, NEW c \in Sending, Handle(c)
  PROVE  Inv'
<1>1. PICK a \in Actors :
        \/ EndExec(a, c) \/ Refuse(a, c) \/ Create(a, c) \/ WakeKnown(a, c) \/ Wake(a, c)
        \/ Stop(a, c) \/ StopFails(a, c) \/ (c = Stopper /\ StopAgent(a))
  BY DEF Handle
<1> QED BY <1>1, EndExecInv, PlainInv, WakeKnownInv, WakeInv, StopCallInv, StopAgentInv
=============================================================================
