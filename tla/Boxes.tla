------------------------------- MODULE Boxes -------------------------------
(***************************************************************************)
(* internal/runsc: a box on the node, made and removed by commands that    *)
(* each may fail, be cut off by a deadline, or be the daemon's last.       *)
(*                                                                         *)
(* The actors call Wake and Sleep, one call at a time for a box and many   *)
(* boxes at once; they share the addresses.  A box outlives the daemon,    *)
(* whose next start reconciles what it finds: the bundles and runsc's      *)
(* state are on a tmpfs, a box's /tmp and log in the pool.  The unit says  *)
(* KillMode=process, so a command the dead daemon ran may end later.       *)
(***************************************************************************)
EXTENDS Naturals, FiniteSetsExt

CONSTANTS
  Boxes,
  MaxBoxes,  \* how many addresses there are
  MaxOdd,    \* a bound: boxes with a stray create, a late box or a cut-off stop
  None

ASSUME BoxesAssumption == MaxBoxes \in Nat \ {0} /\ MaxOdd \in Nat /\ None \notin Nat

Nums == 0 .. MaxBoxes - 1

VARIABLES
  phase,   \* the daemon: "down", "prepare" (Prepare's reconcile) or "serving"
  todo,    \* boxes reconcile has still to stop
  lock,    \* the box whose allocation holds d.mu
  op,      \* the driver's call for each box
  ended,   \* what the last one returned since the daemon started
  addr,    \* the address the last Wake returned
  files,   \* the node's files of each box
  link,    \* its namespace and veth: their number, or None
  box,     \* its container, as runsc lists it
  stray,   \* boxes with a create left by a daemon that died
  late,    \* boxes such a create has made and no stop has deleted
  cut      \* boxes whose network the last stop did not remove (CutOff)

vars == <<phase, todo, lock, op, ended, addr, files, link, box, stray, late, cut>>
node == <<files, link, box, stray, late, cut>>
calls == <<op, ended, addr>>

(* A call's step: stop's are list to rmdata, then Wake's.                   *)
StopSteps == {"list", "ask", "wait", "delete", "net", "unmount", "rmdir", "rmdata"}
WakeSteps == {"running", "glob", "write", "netup", "mount", "create", "start", "ready"}
NoOp == [kind |-> "none", at |-> "idle"]

(* dir and data: the two folders; net: the number in the first; mounts: how *)
(* many overlays are mounted on its rootfs.                                 *)
NoFiles == [dir |-> FALSE, net |-> None, data |-> FALSE, mounts |-> 0]
NoBox == [is |-> "none", addr |-> None]
StoppedBox == [is |-> "stopped", addr |-> None]

TypeOK ==
  /\ phase \in {"down", "prepare", "serving"}
  /\ {todo, stray, late, cut} \subseteq SUBSET Boxes
  /\ lock \in Boxes \cup {None}
  /\ op \in [Boxes -> [kind : {"none", "wake", "sleep", "clear"},
                       at : {"idle"} \cup StopSteps \cup WakeSteps]]
  /\ ended \in [Boxes -> {"none", "woken", "slept", "failed"}]
  /\ addr \in [Boxes -> Nums \cup {None}]
  /\ files \in [Boxes -> [dir : BOOLEAN, net : Nums \cup {None}, data : BOOLEAN, mounts : 0 .. 1]]
  /\ link \in [Boxes -> Nums \cup {None}]
  /\ box \in [Boxes -> [is : {"none", "created", "running", "ready", "stopped"},
                        addr : Nums \cup {None}]]

Init ==
  /\ phase = "down" /\ todo = {} /\ lock = None /\ stray = {} /\ late = {} /\ cut = {}
  /\ op = [b \in Boxes |-> NoOp]
  /\ ended = [b \in Boxes |-> "none"] /\ addr = [b \in Boxes |-> None]
  /\ files = [b \in Boxes |-> NoFiles]
  /\ link = [b \in Boxes |-> None] /\ box = [b \in Boxes |-> NoBox]

-----------------------------------------------------------------------------
(* Steps of a call.                                                         *)

At(b, s) == op[b].at = s
Go(b, s) == op' = [op EXCEPT ![b].at = s] /\ UNCHANGED <<ended, addr>>
Done(b, how) == /\ op' = [op EXCEPT ![b] = NoOp]
                /\ ended' = [ended EXCEPT ![b] = how]

(* What a call does when it can go on no longer: a command failed, its      *)
(* deadline passed, no address was left.  The lock goes with the step.      *)
Failed(b) ==
  /\ Done(b, "failed")
  /\ addr' = [addr EXCEPT ![b] = None]
  /\ lock' = IF lock = b THEN None ELSE lock

(* Every step may fail and then leaves the node as the steps before left    *)
(* it; if reconcile's does, Prepare fails, and the daemon with it.          *)
Fail(b) ==
  /\ op[b].at \in StopSteps \cup WakeSteps
  /\ Failed(b)
  /\ phase' = IF op[b].kind = "clear" THEN "down" ELSE phase
  /\ todo' = IF op[b].kind = "clear" THEN {} ELSE todo
  /\ UNCHANGED node

(* linkAddrs: the number in the box's folder, or None.                      *)
Claimed(b) == files[b].net

(* The boxes States reports Running; fern-init may or may not be ready.     *)
RunningBoxes == {b \in Boxes : box[b].is \in {"running", "ready"}}

(* Mutant: any box runsc lists is kept.                                     *)
Kept_Listed(b) == box[b].is # "none" /\ Claimed(b) # None

(* running: the box's address, if it runs and fern-init says it is ready.   *)
Kept(b) == box[b].is = "ready" /\ Claimed(b) # None

(* Wake, Sleep; the actor forgets the address first.                        *)
Call(b) ==
  /\ phase = "serving" /\ op[b] = NoOp
  /\ \/ op' = [op EXCEPT ![b] = [kind |-> "wake", at |-> "running"]]
     \/ op' = [op EXCEPT ![b] = [kind |-> "sleep", at |-> "list"]]
  /\ ended' = [ended EXCEPT ![b] = "none"] /\ addr' = [addr EXCEPT ![b] = None]
  /\ UNCHANGED <<phase, todo, lock, node>>

(* A box that is kept ends the wake.  Any other is stopped first, and so is *)
(* a ready one that runsc's list or fern-init failed to report.             *)
Running(b) ==
  /\ At(b, "running")
  /\ \/ /\ Kept(b)
        /\ Done(b, "woken")
        /\ addr' = [addr EXCEPT ![b] = Claimed(b)]
     \/ Go(b, "list")
  /\ UNCHANGED <<phase, todo, lock, node>>

-----------------------------------------------------------------------------
(* stop.                                                                    *)

(* The containers of this bundle: there is at most one.                     *)
List(b) ==
  /\ At(b, "list")
  /\ Go(b, IF box[b] = NoBox THEN "net" ELSE "ask")
  /\ UNCHANGED <<phase, todo, lock, node>>

(* askStop asks fern-init, or sends the box SIGTERM: it may exit now.       *)
AskStop(b) ==
  /\ At(b, "ask")
  /\ Go(b, "wait")
  /\ UNCHANGED <<phase, todo, lock, node>>

(* Mutant: the wait for the box to exit has no end.                         *)
Wait_Forever(b) ==
  /\ At(b, "wait")
  /\ box[b].is = "stopped"
  /\ Go(b, "delete")
  /\ UNCHANGED <<phase, todo, lock, node>>

(* runsc wait; a box that has not exited after stopGrace is killed.         *)
Wait(b) ==
  /\ At(b, "wait")
  /\ box' = [box EXCEPT ![b] = StoppedBox]
  /\ Go(b, "delete")
  /\ UNCHANGED <<phase, todo, lock, files, link, stray, late, cut>>

Delete(b) ==
  /\ At(b, "delete")
  /\ box' = [box EXCEPT ![b] = NoBox]
  /\ late' = late \ {b}
  /\ Go(b, "net")
  /\ UNCHANGED <<phase, todo, lock, files, link, stray, cut>>

(* netDown's batch; what it finds gone already is no error.                 *)
Unlinked(b) == [link EXCEPT ![b] = None]

NetDown(b) ==
  /\ At(b, "net")
  /\ link' = Unlinked(b)
  /\ cut' = cut \ {b}
  /\ Go(b, "unmount")
  /\ UNCHANGED <<phase, todo, lock, files, box, stray, late>>

OddWithin(S) == Cardinality(stray \cup late \cup cut \cup S) <= MaxOdd

(* The batch's error is dropped, also that of a batch that never ran: the   *)
(* call's deadline may have passed.  The steps after it have no deadline.   *)
CutOff(b) ==
  /\ At(b, "net") /\ link[b] # None /\ OddWithin({b})
  /\ cut' = cut \cup {b}
  /\ Go(b, "unmount")
  /\ UNCHANGED <<phase, todo, lock, files, link, box, stray, late>>

Unmount(b) ==
  /\ At(b, "unmount")
  /\ files' = [files EXCEPT ![b].mounts = IF @ = 0 THEN 0 ELSE @ - 1]
  /\ Go(b, "rmdir")
  /\ UNCHANGED <<phase, todo, lock, link, box, stray, late, cut>>

(* The bundle's folder goes, and with it the claim to its address.          *)
RmDir(b) ==
  /\ At(b, "rmdir")
  /\ files' = [files EXCEPT ![b].dir = FALSE, ![b].net = None]
  /\ Go(b, "rmdata")
  /\ UNCHANGED <<phase, todo, lock, link, box, stray, late, cut>>

(* The last step of a stop; a wake goes on.                                 *)
RmData(b) ==
  /\ At(b, "rmdata")
  /\ files' = [files EXCEPT ![b].data = FALSE]
  /\ \/ op[b].kind = "wake" /\ Go(b, "glob")
     \/ op[b].kind = "sleep" /\ Done(b, "slept") /\ UNCHANGED addr
     \/ /\ op[b].kind = "clear"
        /\ op' = [op EXCEPT ![b] = NoOp] /\ UNCHANGED <<ended, addr>>
  /\ UNCHANGED <<phase, todo, lock, link, box, stray, late, cut>>

-----------------------------------------------------------------------------
(* The rest of Wake.                                                        *)

(* The numbers in boxes' folders.                                           *)
Taken == {Claimed(c) : c \in Boxes} \ {None}

(* Mutant: allocate without the lock.                                       *)
Glob_Unlocked(b) ==
  /\ At(b, "glob")
  /\ Nums \ Taken # {}
  /\ addr' = [addr EXCEPT ![b] = Min(Nums \ Taken)]
  /\ op' = [op EXCEPT ![b].at = "write"]
  /\ files' = [files EXCEPT ![b].dir = TRUE]
  /\ UNCHANGED <<phase, todo, ended, lock, link, box, stray, late, cut>>

(* allocate: the lowest number no box holds; addr keeps it until the wake   *)
(* ends.                                                                    *)
Glob(b) ==
  /\ At(b, "glob") /\ lock = None
  /\ Nums \ Taken # {}
  /\ lock' = b
  /\ addr' = [addr EXCEPT ![b] = Min(Nums \ Taken)]
  /\ op' = [op EXCEPT ![b].at = "write"]
  /\ files' = [files EXCEPT ![b].dir = TRUE]
  /\ UNCHANGED <<phase, todo, ended, link, box, stray, late, cut>>

Write(b) ==
  /\ At(b, "write")
  /\ files' = [files EXCEPT ![b].net = addr[b]]
  /\ lock' = IF lock = b THEN None ELSE lock
  /\ Go(b, "netup")
  /\ UNCHANGED <<phase, todo, link, box, stray, late, cut>>

(* Mutant: a command that finds its object there already is no failure.     *)
NetUp_Tolerant(b) ==
  /\ At(b, "netup")
  /\ link' = [link EXCEPT ![b] = IF @ = None THEN addr[b] ELSE @]
  /\ \/ Go(b, "mount") /\ UNCHANGED lock
     \/ Failed(b)
  /\ UNCHANGED <<phase, todo, files, box, stray, late, cut>>

(* netUp's commands, with the number allocated.                             *)
Linked(b) == [link EXCEPT ![b] = addr[b]]

(* The namespace must not be there yet.  A command may fail after the first *)
(* ones have run.                                                           *)
NetUp(b) ==
  /\ At(b, "netup") /\ link[b] = None
  /\ link' = Linked(b)
  /\ \/ Go(b, "mount") /\ UNCHANGED lock
     \/ Failed(b)
  /\ UNCHANGED <<phase, todo, files, box, stray, late, cut>>

(* start, up to runsc create: the folders, a fresh /tmp, the overlay.       *)
Mount(b) ==
  /\ At(b, "mount")
  /\ files' = [files EXCEPT ![b].data = TRUE, ![b].mounts = @ + 1]
  /\ Go(b, "create")
  /\ UNCHANGED <<phase, todo, lock, link, box, stray, late, cut>>

(* runsc create takes the namespace's addresses; it fails if the name is    *)
(* taken.                                                                   *)
Create(b) ==
  /\ At(b, "create") /\ box[b] = NoBox
  /\ box' = [box EXCEPT ![b] = [is |-> "created", addr |-> link[b]]]
  /\ Go(b, "start")
  /\ UNCHANGED <<phase, todo, lock, files, link, stray, late, cut>>

Start(b) ==
  /\ At(b, "start") /\ box[b].is = "created"
  /\ box' = [box EXCEPT ![b].is = "running"]
  /\ Go(b, "ready")
  /\ UNCHANGED <<phase, todo, lock, files, link, stray, late, cut>>

WaitReady(b) ==
  /\ At(b, "ready") /\ box[b].is = "ready"
  /\ Done(b, "woken")
  /\ UNCHANGED <<phase, todo, lock, addr, node>>

-----------------------------------------------------------------------------
(* Boxes, the daemon and the node.                                          *)

(* fern-init says that its services are ready; it exits.                    *)
Ready(b) ==
  /\ box[b].is = "running"
  /\ box' = [box EXCEPT ![b].is = "ready"]
  /\ UNCHANGED <<phase, todo, lock, calls, files, link, stray, late, cut>>

Exit(b) ==
  /\ b \in RunningBoxes
  /\ box' = [box EXCEPT ![b] = StoppedBox]
  /\ UNCHANGED <<phase, todo, lock, calls, files, link, stray, late, cut>>

(* Mutant: only the bundles are looked through.                             *)
Left_Bundles == {b \in Boxes : files[b].dir} \ RunningBoxes

(* reconcile: the boxes with a folder and no box running.                   *)
Left == {b \in Boxes : files[b].dir \/ files[b].data} \ RunningBoxes

Prepare ==
  /\ phase = "down"
  /\ phase' = "prepare" /\ todo' = Left
  /\ ended' = [b \in Boxes |-> "none"] /\ addr' = [b \in Boxes |-> None]
  /\ UNCHANGED <<lock, op, node>>

(* reconcile stops them one after another.                                  *)
Clear(b) ==
  /\ phase = "prepare" /\ b \in todo /\ \A c \in Boxes : op[c] = NoOp
  /\ todo' = todo \ {b}
  /\ op' = [op EXCEPT ![b] = [kind |-> "clear", at |-> "list"]]
  /\ UNCHANGED <<phase, lock, ended, addr, node>>

Serve ==
  /\ phase = "prepare" /\ todo = {} /\ \A b \in Boxes : op[b] = NoOp
  /\ phase' = "serving"
  /\ UNCHANGED <<todo, lock, calls, node>>

Down ==
  /\ phase' = "down" /\ todo' = {} /\ lock' = None
  /\ op' = [b \in Boxes |-> NoOp]
  /\ ended' = [b \in Boxes |-> "none"] /\ addr' = [b \in Boxes |-> None]

(* The daemon dies.  A runsc create that it had begun goes on without it.   *)
Crash ==
  /\ phase # "down"
  /\ Down
  /\ \E S \in SUBSET {b \in Boxes : At(b, "create") /\ box[b] = NoBox} :
       OddWithin(S) /\ stray' = stray \cup S
  /\ UNCHANGED <<files, link, box, late, cut>>

(* Such a create ends: with a box, if what it needs is still there.         *)
StrayEnds(b) ==
  /\ b \in stray /\ stray' = stray \ {b}
  /\ \/ /\ files[b].mounts > 0 /\ link[b] # None /\ box[b] = NoBox
        /\ box' = [box EXCEPT ![b] = [is |-> "created", addr |-> link[b]]]
        /\ late' = late \cup {b}
     \/ UNCHANGED <<box, late>>
  /\ UNCHANGED <<phase, todo, lock, calls, files, link, cut>>

(* The node restarts: of a box, what is in the pool remains.                *)
Reboot ==
  /\ Down
  /\ files' = [b \in Boxes |-> [NoFiles EXCEPT !.data = files[b].data]]
  /\ link' = [b \in Boxes |-> None] /\ box' = [b \in Boxes |-> NoBox]
  /\ stray' = {} /\ late' = {} /\ cut' = {}

Step(b) ==
  \/ Running(b) \/ List(b) \/ AskStop(b) \/ Wait(b) \/ Delete(b) \/ NetDown(b) \/ Unmount(b)
  \/ RmDir(b) \/ RmData(b) \/ Glob(b) \/ Write(b) \/ NetUp(b) \/ Mount(b)
  \/ Create(b) \/ Start(b) \/ WaitReady(b)

Next ==
  \/ \E b \in Boxes : Call(b) \/ Step(b) \/ Fail(b) \/ CutOff(b) \/ Clear(b)
                      \/ Ready(b) \/ Exit(b) \/ StrayEnds(b)
  \/ Prepare \/ Serve \/ Crash \/ Reboot

Spec == Init /\ [][Next]_vars

(* Every command ends.  A wake whose box does not become ready ends by      *)
(* wakeTimeout; where a command cannot succeed (no address is left, the     *)
(* namespace or the name is taken, the box exited), it fails.               *)
Ends(b) == op[b].at \in {"glob", "netup", "create", "start", "ready"} /\ Fail(b)

FairSpec == Spec /\ \A b \in Boxes : WF_vars(Step(b) \/ Ends(b))

-----------------------------------------------------------------------------
(* Properties.                                                              *)

(* Two boxes whose networks are up have addresses of their own, so that a   *)
(* command reaches the box it is for, whatever wakes, stops and restarts    *)
(* run at once.  Not so next to a network whose removal was cut off: the    *)
(* folder that claims its address is removed all the same.                  *)
AddressesApart ==
  \A b, c \in Boxes \ cut : b # c /\ link[b] # None => link[b] # link[c]

(* "any other left from before [...] is stopped first, so a wake starts     *)
(* clean": when runsc create runs, the overlay is the only one, the network *)
(* is the one this wake made, and no older box is there.  The state is      *)
(* well-formed; of its overlays, a box never has two.                       *)
CleanStart ==
  TypeOK /\ \A b \in Boxes : At(b, "create") =>
    /\ files[b].mounts = 1 /\ files[b].data
    /\ link[b] = addr[b] /\ files[b].net = addr[b]
    /\ box[b] = NoBox \/ b \in late

Gone(b) == files[b] = NoFiles /\ link[b] = None /\ box[b] = NoBox

(* "Sleep stops box id and waits until it is gone", and reconcile "finishes *)
(* what a crash cut short": once the daemon serves, a box that slept, or    *)
(* that nobody called since and that was not running, holds nothing on the  *)
(* node, neither a folder nor an address.                                   *)
SleptIsGone ==
  phase = "serving" =>
    \A b \in Boxes \ (cut \cup late) : op[b] = NoOp =>
      \/ Gone(b)
      \/ ended[b] \in {"woken", "failed"}
      \/ ended[b] = "none" /\ box[b].is \in {"running", "ready", "stopped"}

(* Wake returns the address of a box that was started and has this address, *)
(* also for a box that outlived a daemon.                                   *)
WokenIsUp ==
  \A b \in Boxes : op[b] = NoOp /\ ended[b] = "woken" =>
    /\ addr[b] # None /\ link[b] = addr[b]
    /\ box[b] \in {[is |-> "ready", addr |-> addr[b]], StoppedBox}

(* Every Wake and Sleep returns, also when the box neither becomes ready    *)
(* nor exits, and whatever an earlier call or an earlier daemon left.       *)
CallsEnd == \A b \in Boxes : []<>(op[b] = NoOp)
=============================================================================
