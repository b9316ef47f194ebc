---------------------------- MODULE Environments ----------------------------
(***************************************************************************)
(* Making and removing environments: internal/store/create.go and          *)
(* recover.go.  An environment has a row in the index, a directory with    *)
(* its own data, and a workspace: live/ in that directory, or a worktree   *)
(* at a path, which T3 makes and removes as a plain directory behind the   *)
(* daemon's back and the store adopts, turning it into a subvolume.        *)
(*                                                                         *)
(* Each environment's actor makes one change at a time; those of different *)
(* environments interleave.  A step is one system call or one statement.   *)
(***************************************************************************)
EXTENDS Naturals, FiniteSets

CONSTANTS
  Envs,         \* environments; e also names e's own place, live/
  Paths,        \* worktree paths below <pool>/worktrees
  Asks,         \* pairs <<e, p>>: callers create e at path p
  Works,        \* what a tree can hold
  Empty,        \* the content of a new subvolume
  Gits,         \* git folders a worktree can name; NoGit: it names none
  NoGit,
  Absent,       \* nothing is there; for a marker, no file
  None,         \* no row; for a marker, a create's, which names no workspace
  MaxCrashes,   \* bound on Crash and PowerCut together
  MaxFaults,    \* bound on Fail
  PowerCuts     \* whether the machine may lose power

Places == Paths \cup Envs
Trees  == [sub : BOOLEAN, work : Works \cup {Empty}, git : Gits \cup {NoGit}]

ASSUME PlacesDisjoint == Paths \cap Envs = {}
ASSUME AsksAssumption == Asks \subseteq Envs \X Paths
ASSUME OutsideValues ==
  /\ {Absent, None} \cap (Places \cup Trees) = {}
  /\ Absent # None /\ NoGit \notin Gits /\ Empty \notin Works
ASSUME BoundsAssumption == {MaxCrashes, MaxFaults} \subseteq Nat /\ PowerCuts \in BOOLEAN

VARIABLES
  fs,           \* the pool: [tree, adopt, marker, data], see TypeOK
  committed,    \* fs as of btrfs's last commit (PowerCuts only)
  row,          \* the workspace in e's row, or None
  git,          \* the git folder in e's row
  op,           \* the change e's actor makes
  daemon,       \* "up", "recover" (Reconcile runs) or "down"
  left,         \* environments Reconcile has still to look at
  crashes, faults,
  \* History, read by the properties only.
  taken         \* paths whose tree T3 has removed since it was last made

disk == <<fs, committed>>
bounds == <<crashes, faults>>
vars == <<disk, row, git, op, daemon, left, bounds, taken>>

Stages == {"live", "adopt", "named", "snaps"}  \* of removeDisk's deleteSubvolumes
Steps  == {"mark", "make", "copy", "swap", "drop", "insert", "unmark", "setgit", "unindex", "tidy",
           "remake", "dir"}

Idle == [at |-> "idle", kind |-> "none", place |-> Absent, src |-> Absent, golden |-> FALSE]

TypeOK ==
  /\ {fs, committed} \subseteq
       [tree   : [Places -> Trees \cup {Absent}],  \* worktrees and live/
        adopt  : [Envs -> Trees \cup {Absent}],    \* adopt.new
        marker : [Envs -> Places \cup {None, Absent}],
        data   : [Envs -> SUBSET {"snaps", "claude"}]]  \* folders that hold something
  /\ row \in [Envs -> Places \cup {None}]
  /\ git \in [Envs -> Gits \cup {NoGit}]
  /\ op \in [Envs -> [at : Stages \cup Steps \cup {"idle"},
                      kind : {"none", "create", "readopt", "delete", "reconcile"},
                      place : Places \cup {Absent}, src : Places \cup {Absent},
                      golden : BOOLEAN]]
  /\ daemon \in {"up", "recover", "down"}
  /\ left \subseteq Envs
  /\ crashes \in 0..MaxCrashes /\ faults \in 0..MaxFaults
  /\ taken \subseteq Paths

Init ==
  /\ fs = [tree |-> [p \in Places |-> Absent], adopt |-> [e \in Envs |-> Absent],
           marker |-> [e \in Envs |-> Absent], data |-> [e \in Envs |-> {}]]
  /\ committed = fs
  /\ row = [e \in Envs |-> None]
  /\ git = [e \in Envs |-> NoGit]
  /\ op = [e \in Envs |-> Idle]
  /\ daemon = "up" /\ left = {}
  /\ crashes = 0 /\ faults = 0
  /\ taken = {}

----------------------------------------------------------------------------
(* Mutant: any directory passes for a subvolume.                            *)
IsSubvolume_Any(tree) == tree # Absent

IsSubvolume(tree) == tree # Absent /\ tree.sub

(* An environment's directory holds data: its index row must not be lost.   *)
HoldsData(e) == fs.tree[e] # Absent \/ fs.data[e] # {}

(* Nothing of e is on disk, so clearLeftovers has nothing to do.            *)
NoDir(e) == ~HoldsData(e) /\ fs.adopt[e] = Absent /\ fs.marker[e] = Absent

(* clearLeftovers refuses an unmarked directory that holds data.            *)
Unindexed(e) == fs.marker[e] = Absent /\ HoldsData(e)

Go(e, at) == op' = [op EXCEPT ![e].at = at]
Finish(e) == op' = [op EXCEPT ![e] = Idle]

(* The new content of the pool; the snapshot ioctl and syncfs commit it     *)
(* all.                                                                     *)
Write(f)  == fs' = f /\ UNCHANGED committed
Commit(f) == fs' = f /\ committed' = IF PowerCuts THEN f ELSE committed

Begin(e, kind, at, place, src, golden) ==
  op' = [op EXCEPT ![e] = [at |-> at, kind |-> kind, place |-> place, src |-> src, golden |-> golden]]

----------------------------------------------------------------------------
(* Calls.                                                                   *)

(* Store.Create of an environment without a row: checkWorkspace, and        *)
(* clearLeftovers from its first stage.                                     *)
CreateNew(e, p, src, golden) ==
  /\ row[e] = None
  /\ p \in Paths => \A f \in Envs : row[f] # p
  /\ ~Unindexed(e)
  /\ Begin(e, "create", IF NoDir(e) THEN "mark" ELSE "live", p, src, golden)

(* Store.Create of one that exists: readopt.                                *)
Readopt(e, p) ==
  /\ row[e] = p
  /\ IF p = e \/ IsSubvolume(fs.tree[p])
       THEN Finish(e)
       ELSE Begin(e, "readopt", "make", p, Absent, FALSE)

Calling(e) ==
  /\ daemon = "up" /\ op[e] = Idle
  /\ UNCHANGED <<disk, row, git, daemon, left, bounds, taken>>

(* golden: a golden snapshot was found, and the workspace starts from it.   *)
Create(e, p, golden) ==
  /\ Calling(e)
  /\ CreateNew(e, p, Absent, golden) \/ Readopt(e, p)

(* A fork of another environment's workspace.                               *)
Fork(e, f) ==
  /\ Calling(e)
  /\ e # f /\ row[f] # None
  /\ CreateNew(e, e, row[f], FALSE) \/ Readopt(e, e)

(* Mutant: the disk goes before the rows.                                   *)
Delete_DiskFirst(e) ==
  /\ daemon = "up" /\ op[e] = Idle
  /\ row[e] # None
  /\ Begin(e, "delete", "live", row[e], Absent, FALSE)
  /\ Write([fs EXCEPT !.marker[e] = row[e]])
  /\ UNCHANGED <<row, git, daemon, left, bounds, taken>>

(* Group.Delete asks the store only about an environment with a row.        *)
Delete(e) ==
  /\ daemon = "up" /\ op[e] = Idle
  /\ row[e] # None
  /\ Begin(e, "delete", "unindex", row[e], Absent, FALSE)
  /\ Write([fs EXCEPT !.marker[e] = row[e]])
  /\ UNCHANGED <<row, git, daemon, left, bounds, taken>>

----------------------------------------------------------------------------
(* Steps.                                                                   *)

At(e, step) ==
  /\ op[e].at = step
  /\ UNCHANGED <<daemon, left, bounds>>

NextStage == [live |-> "adopt", adopt |-> "named", named |-> "snaps", snaps |-> "dir"]

(* What the pool holds after one stage of deleteSubvolumes: it deletes      *)
(* subvolumes only.                                                         *)
Cleared(e, stage) ==
  LET named == fs.marker[e]
  IN CASE stage = "live"  -> [fs EXCEPT !.tree[e] = Absent]
       [] stage = "adopt" -> [fs EXCEPT !.adopt[e] = IF IsSubvolume(@) THEN Absent ELSE @]
       [] stage = "named" -> IF named \in Paths /\ IsSubvolume(fs.tree[named])
                               THEN [fs EXCEPT !.tree[named] = Absent]
                               ELSE fs
       [] stage = "snaps" -> [fs EXCEPT !.data[e] = @ \ {"snaps"}]

Clear(e) ==
  \E stage \in Stages :
    /\ At(e, stage)
    /\ Write(Cleared(e, stage))
    /\ Go(e, NextStage[stage])
    /\ UNCHANGED <<row, git, taken>>

(* os.RemoveAll of the directory: what is left goes, the marker with it, in *)
(* no promised order.                                                       *)
RemoveAll(e) ==
  /\ At(e, "dir")
  /\ \/ fs.marker[e] # Absent /\ Write([fs EXCEPT !.marker[e] = Absent]) /\ UNCHANGED op
     \/ fs.data[e] # {} /\ Write([fs EXCEPT !.data[e] = {}]) /\ UNCHANGED op
     \/ fs.adopt[e] # Absent /\ Write([fs EXCEPT !.adopt[e] = Absent]) /\ UNCHANGED op
     \/ /\ NoDir(e)
        /\ IF op[e].kind = "create" THEN Go(e, "mark") ELSE Finish(e)
        /\ UNCHANGED disk
  /\ UNCHANGED <<row, git, taken>>

(* Mutant: a create goes on unmarked.                                       *)
Mark_Skipped(e) == At(e, "mark") /\ Go(e, "make") /\ UNCHANGED <<disk, row, git, taken>>

Mark(e) ==
  /\ At(e, "mark")
  /\ Write([fs EXCEPT !.marker[e] = None])
  /\ Go(e, "make")
  /\ UNCHANGED <<row, git, taken>>

(* createSubvolume.                                                         *)
NewSubvolume == [sub |-> TRUE, work |-> Empty, git |-> NoGit]

(* Where a change goes on once makeWorkspace has returned.                  *)
Made(e) == Go(e, IF op[e].kind = "readopt" THEN "setgit" ELSE "insert")

(* forkWorkspace: a snapshot of the source's workspace.                     *)
MakeFork(e) ==
  /\ At(e, "make")
  /\ op[e].src # Absent
  /\ IsSubvolume(fs.tree[op[e].src]) /\ fs.tree[e] = Absent
  /\ Commit([fs EXCEPT !.tree[e] = fs.tree[op[e].src]])
  /\ Made(e)
  /\ UNCHANGED <<row, git, taken>>

(* makeWorkspace where nothing is: an empty subvolume.                      *)
MakeNew(e) ==
  LET p == op[e].place
  IN /\ At(e, "make")
     /\ op[e].src = Absent
     /\ fs.tree[p] = Absent
     /\ Write([fs EXCEPT !.tree[p] = NewSubvolume])
     /\ taken' = taken \ {p}
     /\ Made(e)
     /\ UNCHANGED <<row, git>>

(* makeWorkspace where a subvolume is: it stays.                            *)
MakeKept(e) ==
  /\ At(e, "make")
  /\ op[e].src = Absent
  /\ IsSubvolume(fs.tree[op[e].place])
  /\ Made(e)
  /\ UNCHANGED <<disk, row, git, taken>>

(* adopt of a plain directory: a new subvolume, adopt.new ...               *)
Adopt(e) ==
  LET tree == fs.tree[op[e].place]
  IN /\ At(e, "make")
     /\ op[e].src = Absent
     /\ tree # Absent /\ ~tree.sub
     /\ fs.adopt[e] = Absent
     /\ Write([fs EXCEPT !.adopt[e] = NewSubvolume])
     /\ Go(e, "copy")
     /\ UNCHANGED <<row, git, taken>>

(* ... that gets the directory's files ...                                  *)
AdoptCopy(e) ==
  /\ At(e, "copy")
  /\ fs.tree[op[e].place] # Absent
  /\ Write([fs EXCEPT !.adopt[e] = [fs.tree[op[e].place] EXCEPT !.sub = TRUE]])
  /\ Go(e, "swap")
  /\ UNCHANGED <<row, git, taken>>

(* ... and takes its place; adopt.new is then the old directory ...         *)
AdoptSwap(e) ==
  LET p == op[e].place
  IN /\ At(e, "swap")
     /\ fs.tree[p] # Absent
     /\ Write([fs EXCEPT !.tree[p] = fs.adopt[e], !.adopt[e] = fs.tree[p]])
     /\ Go(e, "drop")
     /\ UNCHANGED <<row, git, taken>>

(* ... and goes.                                                            *)
AdoptDrop(e) ==
  /\ At(e, "drop")
  /\ Write([fs EXCEPT !.adopt[e] = Absent])
  /\ Made(e)
  /\ UNCHANGED <<row, git, taken>>

(* The caller's archive is unpacked into a new workspace, and synced.       *)
Seed(e, w) ==
  LET p == op[e].place
  IN /\ At(e, "insert")
     /\ p = e /\ op[e].src = Absent
     /\ fs.tree[p].work = Empty
     /\ Commit([fs EXCEPT !.tree[p].work = w])
     /\ UNCHANGED <<row, git, op, taken>>

RepoGitDir(p) == IF fs.tree[p] = Absent THEN NoGit ELSE fs.tree[p].git

(* InsertEnv; a workspace is UNIQUE.                                        *)
Insert(e) ==
  LET p == op[e].place
  IN /\ At(e, "insert")
     /\ \A f \in Envs : row[f] # p
     /\ row' = [row EXCEPT ![e] = p]
     /\ git' = [git EXCEPT ![e] = RepoGitDir(p)]
     /\ Go(e, "unmark")
     /\ UNCHANGED <<disk, taken>>

Unmark(e) ==
  /\ At(e, "unmark")
  /\ Write([fs EXCEPT !.marker[e] = Absent])
  /\ IF op[e].kind = "reconcile" THEN Go(e, "remake") ELSE Finish(e)
  /\ UNCHANGED <<row, git, taken>>

SetGit(e) ==
  /\ At(e, "setgit")
  /\ git' = [git EXCEPT ![e] = RepoGitDir(op[e].place)]
  /\ Finish(e)
  /\ UNCHANGED <<disk, row, taken>>

(* DeleteEnv; clearLeftovers follows.                                       *)
Unindex(e) ==
  /\ At(e, "unindex")
  /\ row' = [row EXCEPT ![e] = None]
  /\ git' = [git EXCEPT ![e] = NoGit]
  /\ Go(e, "live")
  /\ UNCHANGED <<disk, taken>>

(* Reconcile of one with a row: adopt.new and the marker are leftovers.     *)
Tidy(e) ==
  /\ At(e, "tidy")
  /\ Write([fs EXCEPT !.adopt[e] = Absent])
  /\ Go(e, "unmark")
  /\ UNCHANGED <<row, git, taken>>

(* Mutant: Reconcile leaves a missing live/ as it is.                       *)
Remake_Never(e) == At(e, "remake") /\ Finish(e) /\ UNCHANGED <<disk, row, git, taken>>

(* ... and a live/ that is not there is made again.                         *)
Remake(e) ==
  /\ At(e, "remake")
  /\ Write(IF row[e] = e /\ fs.tree[e] = Absent THEN [fs EXCEPT !.tree[e] = NewSubvolume] ELSE fs)
  /\ Finish(e)
  /\ UNCHANGED <<row, git, taken>>

----------------------------------------------------------------------------
(* Faults.                                                                  *)

(* The next step cannot be taken: a fork's source or place is not there or  *)
(* taken, adopt.new exists, the workspace has another row, or it is gone.   *)
Blocked(e) ==
  LET place == IF op[e].place = Absent THEN Absent ELSE fs.tree[op[e].place]
      fork  == op[e].src # Absent
  IN \/ op[e].at = "make" /\ fork /\ ~(IsSubvolume(fs.tree[op[e].src]) /\ place = Absent)
     \/ op[e].at = "make" /\ ~fork /\ place # Absent /\ ~place.sub /\ fs.adopt[e] # Absent
     \/ op[e].at \in {"copy", "swap"} /\ place = Absent
     \/ op[e].at = "insert" /\ \E f \in Envs : row[f] = op[e].place

(* The change ends in an error, and what it had done stays.  Group.Create   *)
(* makes one from a golden snapshot that fails again, without; that may     *)
(* fail too.                                                                *)
Fail(e) ==
  /\ daemon = "up" /\ op[e] # Idle
  /\ \/ Finish(e)
     \/ op[e].golden /\ (CreateNew(e, op[e].place, Absent, FALSE) \/ Readopt(e, op[e].place))
  /\ UNCHANGED <<disk, row, git, daemon, left, crashes, taken>>

(* The step is refused; or, up to MaxFaults times, a possible one fails.    *)
Refuse(e) == Blocked(e) /\ Fail(e) /\ UNCHANGED faults
Fault(e)  == ~Blocked(e) /\ faults < MaxFaults /\ Fail(e) /\ faults' = faults + 1

Stop ==
  /\ crashes < MaxCrashes
  /\ crashes' = crashes + 1
  /\ op' = [e \in Envs |-> Idle]
  /\ daemon' = "down" /\ left' = {}
  /\ UNCHANGED <<committed, row, git, faults>>

(* The daemon dies, or Reconcile returns an error.                          *)
Crash == Stop /\ daemon # "down" /\ UNCHANGED <<fs, taken>>

(* Everything btrfs had not committed is undone; the index is not.  T3's    *)
(* own directories go too.                                                  *)
PowerCut ==
  /\ Stop
  /\ PowerCuts
  /\ fs' = committed
  /\ taken' = taken \cup {p \in Paths : /\ fs.tree[p] # Absent /\ ~fs.tree[p].sub
                                        /\ committed.tree[p] = Absent}

(* Mutant: Reconcile goes by the index, not by the directories.             *)
Start_Indexed ==
  /\ daemon = "down"
  /\ daemon' = "recover" /\ left' = {e \in Envs : row[e] # None}
  /\ UNCHANGED <<disk, row, git, op, bounds, taken>>

(* The daemon starts: Reconcile takes the directories one by one.           *)
Start ==
  /\ daemon = "down"
  /\ daemon' = "recover" /\ left' = Envs
  /\ UNCHANGED <<disk, row, git, op, bounds, taken>>

Reconcile(e) ==
  /\ daemon = "recover" /\ e \in left
  /\ \A f \in Envs : op[f] = Idle
  /\ left' = left \ {e}
  /\ IF row[e] # None THEN Begin(e, "reconcile", "tidy", Absent, Absent, FALSE)
     ELSE IF NoDir(e) \/ Unindexed(e) THEN UNCHANGED op
     ELSE Begin(e, "reconcile", "live", Absent, Absent, FALSE)
  /\ UNCHANGED <<disk, row, git, daemon, bounds, taken>>

Listen ==
  /\ daemon = "recover" /\ left = {}
  /\ \A e \in Envs : op[e] = Idle
  /\ daemon' = "up"
  /\ UNCHANGED <<disk, row, git, op, left, bounds, taken>>

----------------------------------------------------------------------------
(* The world around the store.                                              *)

World == UNCHANGED <<row, git, op, daemon, left, bounds>>

(* T3 waits for the answer to a Create before it goes on with the worktree. *)
InCreate(p) == \E e \in Envs : op[e].kind \in {"create", "readopt"} /\ op[e].place = p

(* git worktree add, by T3.                                                 *)
T3Makes(p, w, g) ==
  /\ World
  /\ ~InCreate(p)
  /\ fs.tree[p] = Absent
  /\ Write([fs EXCEPT !.tree[p] = [sub |-> FALSE, work |-> w, git |-> g]])
  /\ taken' = taken \ {p}

(* T3 removes a deleted thread's worktree.                                  *)
T3Removes(p) ==
  /\ World
  /\ ~InCreate(p)
  /\ fs.tree[p] # Absent
  /\ Write([fs EXCEPT !.tree[p] = Absent])
  /\ taken' = taken \cup {p}

(* The agent works: files in the workspace, snapshots, Claude's folder.     *)
AgentWorks(e, w, folder) ==
  /\ World
  /\ op[e] = Idle /\ row[e] # None
  /\ IsSubvolume(fs.tree[row[e]])
  /\ Write([fs EXCEPT !.tree[row[e]].work = w, !.data[e] = @ \cup {folder}])
  /\ UNCHANGED taken

BackgroundCommit ==
  /\ World
  /\ PowerCuts /\ committed # fs
  /\ Commit(fs)
  /\ UNCHANGED taken

----------------------------------------------------------------------------
Call ==
  \/ \E ask \in Asks, golden \in BOOLEAN : Create(ask[1], ask[2], golden)
  \/ \E e \in Envs : Create(e, e, FALSE) \/ Delete(e)
  \/ \E e, f \in Envs : Fork(e, f)

Step(e) ==
  \/ Clear(e) \/ RemoveAll(e) \/ Mark(e) \/ MakeFork(e) \/ MakeNew(e) \/ MakeKept(e)
  \/ Adopt(e) \/ AdoptCopy(e) \/ AdoptSwap(e) \/ AdoptDrop(e)
  \/ Insert(e) \/ Unmark(e) \/ SetGit(e) \/ Unindex(e) \/ Tidy(e) \/ Remake(e) \/ Refuse(e)
  \/ \E w \in Works : Seed(e, w)

Environment ==
  \/ \E e \in Envs : Fault(e)
  \/ Crash \/ PowerCut \/ BackgroundCommit
  \/ \E p \in Paths : T3Removes(p) \/ \E w \in Works, g \in Gits : T3Makes(p, w, g)
  \/ \E e \in Envs, w \in Works, folder \in {"snaps", "claude"} : AgentWorks(e, w, folder)

Next ==
  \/ Call \/ Environment
  \/ Start \/ Listen
  \/ \E e \in Envs : Step(e) \/ Reconcile(e)

Spec == Init /\ [][Next]_vars

(* systemd starts the daemon again, Reconcile goes through every directory, *)
(* and each actor goes on with its change.                                  *)
FairSpec ==
  /\ Spec
  /\ WF_vars(Start) /\ WF_vars(Listen)
  /\ \A e \in Envs : WF_vars(Step(e)) /\ WF_vars(Reconcile(e))

----------------------------------------------------------------------------
(* "It is never listed without its workspace": an environment with a row    *)
(* has the tree its row names, unless T3 itself removed it.                 *)
ListedHasWorkspace ==
  \A e \in Envs : row[e] # None /\ row[e] \notin taken => fs.tree[row[e]] # Absent

(* The work in a tree outlives every step of the daemon: adopting, making   *)
(* and reconciling keep it as it is, and only the subvolume of an           *)
(* environment that has no row any more is ever removed.                    *)
WorkIsKept ==
  [][(op' # op /\ daemon' # "down") =>
       \A p \in Places : fs.tree[p] # Absent =>
         \/ fs'.tree[p] # Absent /\ fs'.tree[p].work = fs.tree[p].work
         \/ fs'.tree[p] = Absent /\ fs.tree[p].sub /\ \A e \in Envs : row[e] # p]_vars

(* Reconcile and Create never find that "the index has lost" a workspace or *)
(* a snapshot: whatever stops, a directory that holds one has its row or    *)
(* its marker.  (Claude's files may be left without either, by a Delete     *)
(* that stops inside os.RemoveAll once the marker is gone.)  The state is   *)
(* well-formed.                                                             *)
NothingLost ==
  /\ TypeOK
  /\ \A e \in Envs :
       row[e] = None /\ fs.marker[e] = Absent => fs.tree[e] = Absent /\ "snaps" \notin fs.data[e]

(* Creates and deletes that a crash stops half-way are finished: once the   *)
(* daemon is back, a directory that has a marker and no row goes, or, if    *)
(* its marker went before the rest did (by os.RemoveAll, or undone by a     *)
(* power cut), is reported as lost.                                         *)
LeftoversGo ==
  \A e \in Envs :
    (daemon = "down" /\ row[e] = None /\ fs.marker[e] # Absent)
      ~> (NoDir(e) \/ row[e] # None \/ Unindexed(e))

(* A power cut can undo a createSubvolume but not the row of the create it  *)
(* belongs to.  Once the daemon serves again every listed environment whose *)
(* workspace is its own live/ has one all the same: Reconcile makes it.     *)
ServedHasLive ==
  daemon = "up" => \A e \in Envs : row[e] = e => fs.tree[e] # Absent
=============================================================================
