--------------------------- MODULE ActorsProofs -----------------------------
(***************************************************************************)
(* Proofs about Actors for any number of callers, actors and troubles,     *)
(* and any crash limit.                                                    *)
(***************************************************************************)
EXTENDS ActorsHandling, ActorsSteps, ActorsFinding

USE DEF Boxes, Sending, AllKinds, Live, Fresh, NoCall
-----------------------------------------------------------------------------
(* Every step keeps the invariant.                                          *)
LEMMA StepInv == Inv /\ [Next]_vars => Inv'
<1> SUFFICES ASSUME Inv, [Next]_vars PROVE Inv'
  OBVIOUS
<1>1. CASE \E c \in Callers : \E ask \in Asks[c] : Call(c, ask[1], ask[2])
  BY <1>1, CallerInv
<1>2. CASE \E c \in Sending : Find(c) \/ Park(c) \/ Retry(c) \/ GiveUp(c) \/ Close(c) \/ Handle(c)
  BY <1>2, CallerInv, FindInv, HandleInv
<1>3. CASE \E a \in Actors : Goes(a) \/ IdleSleep(a) \/ IdleFails(a)
  BY <1>3, ActorInv
<1>4. CASE \E b \in Boxes : BoxDies(b)
  <2>1. PICK b \in Boxes : /\ Trouble /\ box' = [box EXCEPT ![b] = "off"]
                          /\ UNCHANGED <<registry, saved, actor, call, exists, behind>>
    BY <1>4, Zenon DEF BoxDies, group
  <2>2. TypeOK'
    BY <2>1, BoundsAssumption DEF Trouble, Inv, TypeOK
  <2>3. Registered' /\ CallsPlaced' /\ CommandsCounted'
    BY <2>1 DEF Inv, Registered, CallsPlaced, CommandsCounted
  <2>4. ActorsPlaced' /\ BoxesKept' /\ OnlyAgentBehind'
    BY <2>1 DEF Inv, TypeOK, ActorsPlaced, BoxesKept, OnlyAgentBehind
  <2> QED BY <2>2, <2>3, <2>4 DEF Inv
<1>5. CASE Restart
  BY <1>5, RestartInv
<1>6. CASE UNCHANGED vars
  <2>1. UNCHANGED <<registry, saved, actor, call, box, exists, troubles, behind>>
    BY <1>6 DEF vars, group, world
  <2>2. TypeOK' /\ Registered' /\ CallsPlaced'
    BY <2>1 DEF Inv, TypeOK, Registered, CallsPlaced
  <2>3. ActorsPlaced' /\ BoxesKept' /\ CommandsCounted' /\ OnlyAgentBehind'
    BY <2>1 DEF Inv, ActorsPlaced, BoxesKept, CommandsCounted, OnlyAgentBehind
  <2> QED BY <2>2, <2>3 DEF Inv
<1> QED BY <1>1, <1>2, <1>3, <1>4, <1>5, <1>6 DEF Next

(* The registry, the callers, the actors and the boxes agree at every step. *)
THEOREM InvHolds == Spec => []Inv
<1> QED BY InitInv, StepInv, PTL DEF Spec

(* No box ever has two actors that handle messages, however Run's finds and *)
(* the actors' exits interleave.                                            *)
THEOREM OneActorSafe == Spec => []OneActor
<1>1. Inv => OneActor
  BY DEF Inv, Registered, OneActor
<1> QED BY <1>1, InvHolds, PTL

(* A running box always has an actor that will put it to sleep, also after  *)
(* failed wakes and restarts of the daemon.                                 *)
THEOREM BoxHasActorSafe == Spec => []BoxHasActor
<1>1. Inv => BoxHasActor
  BY OutsideValues DEF Inv, TypeOK, Registered, BoxesKept, BoxHasActor
<1> QED BY <1>1, InvHolds, PTL

(* endExec and stopBox keep an actor's count of the commands in its box     *)
(* exact.                                                                   *)
THEOREM CommandsCountedSafe == Spec => []CommandsCounted
<1>1. Inv => CommandsCounted
  BY DEF Inv
<1> QED BY <1>1, InvHolds, PTL

(* Restore leaves neither the services' box nor a command in it on the old  *)
(* disk.                                                                    *)
THEOREM NewDiskSafe == Spec => []ServicesOnNewDisk
<1>1. Inv => ServicesOnNewDisk
  BY DEF Inv, OnlyAgentBehind, ServicesOnNewDisk
<1> QED BY <1>1, InvHolds, PTL

(* The fields of Run, the actors and the calls keep their types.            *)
THEOREM TypeCorrect == Spec => []TypeOK
<1>1. Inv => TypeOK
  BY DEF Inv
<1> QED BY <1>1, InvHolds, PTL
=============================================================================
