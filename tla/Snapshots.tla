----------------------------- MODULE Snapshots -----------------------------
(***************************************************************************)
(* The snapshots of one environment: internal/store/snapshot.go and        *)
(* retention.go, the part of Reconcile (recover.go) that repairs them, and *)
(* the handlers of internal/actor/changes.go that call them.               *)
(*                                                                         *)
(* The environment's actor makes one change at a time, so pc is the place  *)
(* of the one change in flight.  A step is one system call or one SQLite   *)
(* statement: between two steps the daemon can die (Crash), the change can *)
(* end in an error with the daemon still up (Fail), the machine can lose   *)
(* power (PowerCut), and a box, if it runs, can write to the workspace.  An *)
(* environment can have two: its own, which only its actor starts and       *)
(* stops, and its agent's, which mounts the same workspace (runsc/spec.go)  *)
(* and has an actor of its own, so that it may be woken in the middle of a  *)
(* restore.                                                                 *)
(***************************************************************************)
EXTENDS Naturals, FiniteSets

CONSTANTS
  Turns,        \* names callers give: a turn's snapshot, a golden's, a backup's
  PreRestores,  \* names pre-restore-<time>; a restore takes an unused one
  Contents,     \* what a workspace can hold
  Gone,         \* no subvolume there
  KeepTurns,    \* Store.keepTurns
  MaxCrashes,   \* bound on Crash and PowerCut together
  PowerCuts     \* whether the machine may lose power

Names == Turns \cup PreRestores

ASSUME NamesFinite == IsFiniteSet(Turns) /\ IsFiniteSet(PreRestores)
ASSUME NamesDisjoint == Turns \cap PreRestores = {}
ASSUME ContentsAssumption == Contents # {} /\ Gone \notin Contents
ASSUME KeepTurnsAssumption == KeepTurns \in Nat \ {0}
ASSUME BoundsAssumption == MaxCrashes \in Nat /\ PowerCuts \in BOOLEAN

VARIABLES
  \* The pool, a btrfs filesystem.
  live,         \* content of the workspace subvolume
  next,         \* content of live.new, or Gone
  disk,         \* content of snaps/<name>, or Gone
  committed,    \* [live, next, disk] as of btrfs's last commit (PowerCuts only)
  \* The index, SQLite: every statement is durable at once.
  age,          \* 0: no row; n: the row is the n-th newest of the environment's
  aged,         \* names whose row is older than preRestoreKeep
  \* The boxes and the daemon.
  box,          \* the environment's box runs
  agent,        \* the agent's box: "off", or runs on the "live" workspace or the "old" one
  pc,           \* place of the change in flight; "idle", or "down"
  arg,          \* the snapshot the change was asked for
  todo,         \* snapshots the DeleteSnapshot loop has still to delete
  after,        \* where the change goes on once todo is empty
  cur,          \* the snapshot between its subvolume's step and its row's
  crashes,      \* crashes so far
  \* History, read by the properties only.
  acked,        \* content of a snapshot its taker was told of, until asked to go
  deleted,      \* names never taken, or deleted since for good
  goal,         \* content of arg when its Restore began
  unkept        \* the agent's box wrote to the workspace since it was last in a snapshot

pool    == <<live, next, disk>>
index   == <<age, aged>>
boxes   == <<box, agent, unkept>>
history == <<acked, deleted, goal>>
vars    == <<pool, committed, index, boxes, pc, arg, todo, after, cur, crashes, history>>

Places ==
  {"idle", "down", "deleting", "removed", "take", "taken", "prune", "beyond",
   "clear", "copy", "copied", "keeping", "kept", "swapped",
   "recover", "reindex", "reprune", "listen"}

(* Reconcile runs: the daemon does not listen yet, and an error ends it.    *)
Recovering ==
  \/ pc \in {"recover", "reindex", "reprune", "listen"}
  \/ pc \in {"deleting", "removed"} /\ after = "listen"

OrGone(S) == S \cup {Gone}

TypeOK ==
  /\ live \in Contents
  /\ next \in OrGone(Contents)
  /\ disk \in [Names -> OrGone(Contents)]
  /\ committed \in [live : Contents, next : OrGone(Contents), disk : [Names -> OrGone(Contents)]]
  /\ age \in [Names -> Nat]
  /\ aged \subseteq Names
  /\ box \in BOOLEAN
  /\ agent \in {"off", "live", "old"}
  /\ pc \in Places
  /\ arg \in OrGone(Names)
  /\ todo \subseteq Names
  /\ after \in Places
  /\ cur \in OrGone(Names)
  /\ crashes \in 0..MaxCrashes
  /\ acked \in [Names -> OrGone(Contents)]
  /\ deleted \subseteq Names
  /\ goal \in OrGone(Contents)
  /\ unkept \in BOOLEAN

Init ==
  /\ live \in Contents
  /\ next = Gone
  /\ disk = [s \in Names |-> Gone]
  /\ committed = [live |-> live, next |-> next, disk |-> disk]
  /\ age = [s \in Names |-> 0]
  /\ aged = {}
  /\ box = FALSE
  /\ agent = "off"
  /\ pc = "idle"
  /\ arg = Gone
  /\ todo = {}
  /\ after = "idle"
  /\ cur = Gone
  /\ crashes = 0
  /\ acked = disk
  /\ deleted = Names
  /\ goal = Gone
  /\ unkept = FALSE

----------------------------------------------------------------------------
(* The index.                                                               *)

HasSnapshot(s) == age[s] # 0

(* INSERT OR REPLACE: s gets a new row, the newest.                         *)
ReplaceSnapshot(s) ==
  /\ age' = [t \in Names |->
       IF t = s THEN 1
       ELSE IF HasSnapshot(t) /\ (age[s] = 0 \/ age[t] < age[s]) THEN age[t] + 1
       ELSE age[t]]
  /\ aged' = aged \ {s}

(* INSERT OR IGNORE: a row that exists stays as it is.                      *)
KeepSnapshot(s) == IF HasSnapshot(s) THEN UNCHANGED index ELSE ReplaceSnapshot(s)

RemoveRow(s) ==
  /\ age' = [t \in Names |->
       IF t = s THEN 0
       ELSE IF HasSnapshot(s) /\ age[t] > age[s] THEN age[t] - 1
       ELSE age[t]]
  /\ aged' = aged \ {s}

(* Faulty: the snapshot to keep is not excepted.                            *)
SnapshotsBefore_All(keep) == {p \in PreRestores : HasSnapshot(p) /\ p \in aged}

SnapshotsBefore(keep) == {p \in PreRestores : HasSnapshot(p) /\ p \in aged /\ p # keep}

SnapshotsBeyond ==
  {t \in Turns : HasSnapshot(t) /\
     Cardinality({u \in Turns : HasSnapshot(u) /\ age[u] < age[t]}) >= KeepTurns}

(* The snapshot ioctl is synchronous: it commits the whole filesystem.      *)
Commit ==
  committed' = IF PowerCuts THEN [live |-> live', next |-> next', disk |-> disk']
               ELSE committed

----------------------------------------------------------------------------
(* The DeleteSnapshot loop, shared by DeleteSnapshot, a replacing Snapshot, *)
(* Prune, Restore and Reconcile.                                            *)

(* The change is over, and its variables with it.                           *)
Finish(place) ==
  /\ pc' = place
  /\ arg' = Gone /\ todo' = {} /\ after' = "idle" /\ cur' = Gone /\ goal' = Gone

Deleting(S, then, s, content) ==
  /\ IF S = {} /\ then = "idle"
       THEN Finish("idle")
       ELSE /\ pc' = IF S = {} THEN then ELSE "deleting"
            /\ todo' = S
            /\ after' = then
            /\ arg' = s /\ cur' = Gone /\ goal' = content
  /\ acked' = [t \in Names |-> IF t \in S THEN Gone ELSE acked[t]]

(* Faulty: the row goes first, and the subvolume is left to later.          *)
RemoveSubvolume_Late(s) ==
  /\ pc = "deleting"
  /\ s \in todo
  /\ cur' = s
  /\ pc' = "removed"
  /\ UNCHANGED <<pool, committed, index, boxes, arg, todo, after, crashes, history>>

RemoveSubvolume(s) ==
  /\ pc = "deleting"
  /\ s \in todo
  /\ disk' = [disk EXCEPT ![s] = Gone]
  /\ cur' = s
  /\ pc' = "removed"
  /\ UNCHANGED <<live, next, committed, index, boxes, arg, todo, after, crashes, history>>

Unindex ==
  /\ pc = "removed"
  /\ RemoveRow(cur)
  /\ deleted' = deleted \cup {cur}
  /\ IF todo = {cur} /\ after = "idle"
       THEN Finish("idle")
       ELSE /\ todo' = todo \ {cur}
            /\ pc' = IF todo = {cur} THEN after ELSE "deleting"
            /\ cur' = Gone
            /\ UNCHANGED <<arg, after, goal>>
  /\ UNCHANGED <<pool, committed, boxes, crashes, acked>>

DeleteSnapshot(s) ==
  /\ pc = "idle"
  /\ Deleting({s}, "idle", s, Gone)
  /\ UNCHANGED <<pool, committed, index, boxes, crashes, deleted>>

----------------------------------------------------------------------------
(* Group.Snapshot: delete the old one if it is to be replaced, take the     *)
(* snapshot, prune.                                                         *)

Snapshot(s, replace) ==
  /\ pc = "idle"
  /\ Deleting(IF replace THEN {s} ELSE {}, "take", s, Gone)
  /\ UNCHANGED <<pool, committed, index, boxes, crashes, deleted>>

(* Faulty: the path is not looked at.                                       *)
Exists_Never(s) == FALSE

(* os.Lstat of a snapshot's path.                                           *)
Exists(s) == disk[s] # Gone

(* A retry, or one a change that failed had taken: it only gets a row.      *)
KeepTaken ==
  /\ pc = "take"
  /\ Exists(arg)
  /\ KeepSnapshot(arg)
  /\ acked' = [acked EXCEPT ![arg] = disk[arg]]
  /\ pc' = "prune"
  /\ UNCHANGED <<pool, committed, boxes, arg, todo, after, cur, crashes, deleted, goal>>

Take ==
  /\ pc = "take"
  /\ ~Exists(arg)
  /\ disk' = [disk EXCEPT ![arg] = live]
  /\ UNCHANGED <<live, next>>
  /\ Commit
  /\ unkept' = FALSE
  /\ deleted' = deleted \ {arg}
  /\ pc' = "taken"
  /\ UNCHANGED <<index, box, agent, arg, todo, after, cur, crashes, acked, goal>>

IndexTaken ==
  /\ pc = "taken"
  /\ ReplaceSnapshot(arg)
  /\ acked' = [acked EXCEPT ![arg] = disk[arg]]
  /\ pc' = "prune"
  /\ UNCHANGED <<pool, committed, boxes, arg, todo, after, cur, crashes, deleted, goal>>

(* Store.Prune: first the old pre-restore snapshots ...                     *)
PrunePreRestores ==
  /\ pc = "prune"
  /\ Deleting(SnapshotsBefore(Gone), "beyond", Gone, Gone)
  /\ UNCHANGED <<pool, committed, index, boxes, crashes, deleted>>

(* ... then those beyond the newest keepTurns.                              *)
PruneBeyond ==
  /\ pc = "beyond"
  /\ Deleting(SnapshotsBeyond, "idle", Gone, Gone)
  /\ UNCHANGED <<pool, committed, index, boxes, crashes, deleted>>

----------------------------------------------------------------------------
(* Group.Restore: the boxes are stopped, its own and then the agent's, and  *)
(* the workspace is swapped.                                                *)

Restore(s) ==
  /\ pc = "idle"
  /\ HasSnapshot(s)
  /\ box' = FALSE /\ agent' = "off"
  /\ Deleting(SnapshotsBefore(s), "clear", s, disk[s])
  /\ UNCHANGED <<pool, committed, index, unkept, crashes, deleted>>

ClearNext ==
  /\ pc = "clear"
  /\ next' = Gone
  /\ pc' = "copy"
  /\ UNCHANGED <<live, disk, committed, index, boxes, arg, todo, after, cur, crashes, history>>

CopySnapshot ==
  /\ pc = "copy"
  /\ disk[arg] # Gone
  /\ next' = disk[arg]
  /\ UNCHANGED <<live, disk>>
  /\ Commit
  /\ pc' = "copied"
  /\ UNCHANGED <<index, boxes, arg, todo, after, cur, crashes, history>>

(* Faulty: the copy is kept, not the workspace it will replace.             *)
TakePreRestore_Copy(p) ==
  /\ pc = "copied"
  /\ disk[p] = Gone /\ ~HasSnapshot(p)
  /\ disk' = [disk EXCEPT ![p] = next]
  /\ UNCHANGED <<live, next>>
  /\ Commit
  /\ unkept' = FALSE
  /\ deleted' = deleted \ {p}
  /\ cur' = p
  /\ pc' = "keeping"
  /\ UNCHANGED <<index, box, agent, arg, todo, after, crashes, acked, goal>>

(* A name with the time to the nanosecond is new.                           *)
TakePreRestore(p) ==
  /\ pc = "copied"
  /\ disk[p] = Gone /\ ~HasSnapshot(p)
  /\ disk' = [disk EXCEPT ![p] = live]
  /\ UNCHANGED <<live, next>>
  /\ Commit
  /\ unkept' = FALSE
  /\ deleted' = deleted \ {p}
  /\ cur' = p
  /\ pc' = "keeping"
  /\ UNCHANGED <<index, box, agent, arg, todo, after, crashes, acked, goal>>

IndexPreRestore ==
  /\ pc = "keeping"
  /\ ReplaceSnapshot(cur)
  /\ acked' = [acked EXCEPT ![cur] = disk[cur]]
  /\ pc' = "kept"
  /\ UNCHANGED <<pool, committed, boxes, arg, todo, after, cur, crashes, deleted, goal>>

(* RENAME_EXCHANGE of live.new and the workspace.  A box that mounted the   *)
(* workspace stays on the old one.                                          *)
Swap ==
  /\ pc = "kept"
  /\ live' = next
  /\ next' = live
  /\ agent' = IF agent = "live" THEN "old" ELSE agent
  /\ unkept' = FALSE
  /\ pc' = "swapped"
  /\ UNCHANGED <<disk, committed, index, box, arg, todo, after, cur, crashes, history>>

DropReplaced ==
  /\ pc = "swapped"
  /\ next' = Gone
  /\ Finish("idle")
  /\ UNCHANGED <<live, disk, committed, index, boxes, crashes, acked, deleted>>

----------------------------------------------------------------------------
(* The change ends in an error: the pool is full, a call failed, or the     *)
(* change's ten minutes are over.  What it had done stays.                  *)
Fail ==
  /\ pc \notin {"idle", "down"} /\ ~Recovering
  /\ Finish("idle")
  /\ UNCHANGED <<pool, committed, index, boxes, crashes, acked, deleted>>

(* The daemon dies, or Reconcile returns an error, which ends it too; the   *)
(* disk and the box go on as they are.                                      *)
Crash ==
  /\ crashes < MaxCrashes
  /\ pc # "down"
  /\ crashes' = crashes + 1
  /\ Finish("down")
  /\ UNCHANGED <<pool, committed, index, boxes, acked, deleted>>

(* Everything btrfs had not committed is undone; the index is not.          *)
PowerCut ==
  /\ PowerCuts
  /\ crashes < MaxCrashes
  /\ crashes' = crashes + 1
  /\ live' = committed.live /\ next' = committed.next /\ disk' = committed.disk
  /\ box' = FALSE /\ agent' = "off"
  /\ deleted' = {s \in deleted : committed.disk[s] = Gone}
  /\ Finish("down")
  /\ UNCHANGED <<committed, index, unkept, acked>>

(* Reconcile, of an environment with a row, before the daemon listens.      *)
Reconcile ==
  /\ pc = "down"
  /\ pc' = "recover"
  /\ UNCHANGED <<pool, committed, index, boxes, arg, todo, after, cur, crashes, history>>

ClearLeftovers ==
  /\ pc = "recover"
  /\ next' = Gone
  /\ pc' = "reindex"
  /\ UNCHANGED <<live, disk, committed, index, boxes, arg, todo, after, cur, crashes, history>>

(* Faulty: the rows are taken to be right.                                  *)
ReconcileSnapshots_Trusting ==
  /\ pc = "reindex"
  /\ pc' = "reprune"
  /\ UNCHANGED <<pool, committed, index, boxes, arg, todo, after, cur, crashes, history>>

(* One transaction: the subvolumes without a row get one, as the newest and *)
(* in the order of their names; the rows without a subvolume go.            *)
ReconcileSnapshots ==
  LET missing == {s \in Names : disk[s] # Gone /\ ~HasSnapshot(s)}
      found   == {s \in Names : disk[s] # Gone /\ HasSnapshot(s)}
      newer(s) == Cardinality(missing) + Cardinality({t \in found : age[t] < age[s]})
      orders  == {f \in [missing -> 1..Cardinality(missing)] :
                    \A s, t \in missing : f[s] = f[t] => s = t}
  IN /\ pc = "reindex"
     /\ \E order \in orders :
          age' = [s \in Names |-> IF s \in missing THEN order[s]
                                  ELSE IF s \in found THEN newer(s) + 1
                                  ELSE 0]
     /\ aged' = aged \cap found
     /\ pc' = "reprune"
     /\ UNCHANGED <<pool, committed, boxes, arg, todo, after, cur, crashes, history>>

ReconcilePrune ==
  /\ pc = "reprune"
  /\ Deleting(SnapshotsBefore(Gone), "listen", Gone, Gone)
  /\ UNCHANGED <<pool, committed, index, boxes, crashes, deleted>>

Listen ==
  /\ pc = "listen"
  /\ Finish("idle")
  /\ UNCHANGED <<pool, committed, index, boxes, crashes, acked, deleted>>

----------------------------------------------------------------------------
(* The world around the store.                                              *)

Wake ==
  /\ pc = "idle" /\ ~box
  /\ box' = TRUE
  /\ UNCHANGED <<pool, committed, index, agent, unkept, pc, arg, todo, after, cur, crashes, history>>

Sleep ==
  /\ pc = "idle" /\ box
  /\ box' = FALSE
  /\ UNCHANGED <<pool, committed, index, agent, unkept, pc, arg, todo, after, cur, crashes, history>>

BoxWrites(c) ==
  /\ box
  /\ c # live
  /\ live' = c
  /\ UNCHANGED <<next, disk, committed, index, boxes, pc, arg, todo, after, cur, crashes, history>>

(* The agent box's own actor starts it, whatever the environment's does.    *)
WakeAgent ==
  /\ pc # "down" /\ ~Recovering
  /\ agent = "off"
  /\ agent' = "live"
  /\ UNCHANGED <<pool, committed, index, box, unkept, pc, arg, todo, after, cur, crashes, history>>

StopAgent ==
  /\ agent # "off"
  /\ agent' = "off"
  /\ UNCHANGED <<pool, committed, index, box, unkept, pc, arg, todo, after, cur, crashes, history>>

(* What it writes to the old workspace goes with live.new.                  *)
AgentWrites(c) ==
  /\ agent = "live"
  /\ c # live
  /\ live' = c
  /\ unkept' = TRUE
  /\ UNCHANGED <<next, disk, committed, index, box, agent, pc, arg, todo, after, cur, crashes, history>>

(* btrfs commits by itself every half minute.                               *)
BackgroundCommit ==
  /\ PowerCuts
  /\ UNCHANGED <<live, next, disk>>
  /\ Commit
  /\ UNCHANGED <<index, boxes, pc, arg, todo, after, cur, crashes, history>>

(* preRestoreKeep passes.                                                   *)
DayPasses ==
  /\ aged' = {p \in PreRestores : HasSnapshot(p)}
  /\ UNCHANGED <<pool, committed, age, boxes, pc, arg, todo, after, cur, crashes, history>>

----------------------------------------------------------------------------
(* Callers may ask for anything at any time.                                *)
Call ==
  \/ \E s \in Names : DeleteSnapshot(s) \/ Restore(s)
  \/ \E s \in Turns, replace \in BOOLEAN : Snapshot(s, replace)

(* The steps of a change, or of Reconcile, that has begun.                  *)
Step ==
  \/ \E s \in Names : RemoveSubvolume(s)
  \/ Unindex
  \/ KeepTaken \/ Take \/ IndexTaken \/ PrunePreRestores \/ PruneBeyond
  \/ ClearNext \/ CopySnapshot \/ IndexPreRestore \/ Swap \/ DropReplaced
  \/ \E p \in PreRestores : TakePreRestore(p)
  \/ Reconcile \/ ClearLeftovers \/ ReconcileSnapshots \/ ReconcilePrune \/ Listen

Environment ==
  \/ Fail \/ Crash \/ PowerCut
  \/ Wake \/ Sleep \/ WakeAgent \/ StopAgent \/ DayPasses \/ BackgroundCommit
  \/ \E c \in Contents : BoxWrites(c) \/ AgentWrites(c)

Next == Call \/ Step \/ Environment

Spec == Init /\ [][Next]_vars

(* systemd starts the daemon again, and a change that has begun goes on or  *)
(* ends in an error: none hangs, for changeTimeout bounds it.               *)
FairSpec == Spec /\ WF_vars(Step \/ Fail)

----------------------------------------------------------------------------
(* A snapshot whose taker was told it exists, a restore's included, has its *)
(* row and its subvolume, with the content of that moment, until someone    *)
(* asks for its deletion or Prune's rules let it go: no crash, error or     *)
(* power cut between the subvolume's step and the row's loses or changes it.*)
AckedIsKept ==
  \A s \in Names : acked[s] # Gone => HasSnapshot(s) /\ disk[s] = acked[s]

(* What Restore(s) puts in place is s as it was when the restore began: the *)
(* restore's own pruning (prunePreRestores with keep) never removes s, and  *)
(* a live.new left by an earlier restore is never swapped in.  (After the   *)
(* swap an agent's box woken on the new workspace may write to it.)         *)
RestoreDeliversSource ==
  /\ pc \in {"clear", "copy"} => disk[arg] = goal
  /\ pc \in {"copied", "keeping", "kept"} => next = goal
  /\ pc = "swapped" => live = goal \/ unkept

(* "A replaced workspace is kept": whenever the workspace changes and it is *)
(* not by a box's own write, which leaves the change in flight where it is, *)
(* or a power cut, the content it had is in an acknowledged pre-restore     *)
(* snapshot.  What is lost is only what the agent's box, woken again after  *)
(* stopAgent, writes between that snapshot and the swap.                    *)
ReplacedIsKept ==
  [][live' # live => \/ pc' = pc
                     \/ pc' = "down"
                     \/ unkept
                     \/ \E p \in PreRestores : acked'[p] = live]_vars

(* DeleteSnapshot's "a snapshot on disk without a row is always one that    *)
(* was being taken": one whose deletion was done is never listed again, not *)
(* even by reconcileSnapshots, unless a power cut undid the deletion.       *)
DeletedStaysDeleted ==
  \A s \in deleted : ~HasSnapshot(s)

(* A daemon that went down serves again, with its rows and its subvolumes   *)
(* in agreement, once it stops crashing; no change hangs.                   *)
Recovers ==
  /\ pc = "down" ~> (pc = "idle" /\ \A s \in Names : HasSnapshot(s) <=> disk[s] # Gone)
  /\ pc # "idle" ~> pc = "idle"

(* The store implements atomic checkpoints: taking, deleting and restoring  *)
(* each happen at one step, whatever fails around it, and a power cut goes  *)
(* back to the state btrfs committed last, with every snapshot taken.       *)
Abstract ==
  INSTANCE Checkpoints WITH snaps <- disk,
                            agent <- agent = "live",
                            safe <- [live |-> committed.live, snaps |-> committed.disk]
ImplementsCheckpoints == Abstract!Spec
============================================================================
