-------------------------- MODULE SnapshotsProofs --------------------------
(***************************************************************************)
(* Proofs about Snapshots for any number of snapshots, contents, crashes   *)
(* and power cuts.                                                         *)
(***************************************************************************)
EXTENDS FiniteSetTheorems, TLAPS, Snapshots

(* More time for the solver than it takes, on a slow machine.              *)
USE SMTT(30)

(* Where a Restore is, once it has the snapshot's copy.                     *)
Copied == {"copied", "keeping", "kept"}

InLoop == pc \in {"deleting", "removed"}

(* The variables of the change in flight name what its place needs.         *)
Locals ==
  /\ InLoop => after \in {"idle", "take", "beyond", "clear", "listen"}
  /\ pc = "removed" => cur \in todo
  /\ pc \in {"take", "taken"} \/ (InLoop /\ after = "take") => arg \in Turns
  /\ pc \in {"clear", "copy", "swapped"} \cup Copied \/ (InLoop /\ after = "clear") =>
       arg \in Names /\ ~box
  /\ pc \in {"keeping", "kept"} => cur \in PreRestores /\ cur # arg

(* A snapshot that is to go is no longer promised to anyone.                *)
TodoUnacked == InLoop => \A s \in todo : acked[s] = Gone

(* A snapshot on disk survives a power cut.                                 *)
DiskCommitted ==
  PowerCuts => \A s \in Names : disk[s] # Gone => committed.disk[s] = disk[s]

(* The source of a Restore stays what it was until the swap.                *)
SourceKept ==
  /\ pc \in {"clear", "copy"} \cup Copied \/ (InLoop /\ after = "clear") => disk[arg] = goal
  /\ InLoop /\ after = "clear" => arg \notin todo
  /\ pc \in Copied => next = goal /\ goal # Gone
  /\ pc = "swapped" => live = goal \/ unkept

(* The workspace is in a snapshot before it is swapped out, but for what    *)
(* the agent's box has written since.                                       *)
WorkspaceKept ==
  /\ pc = "keeping" => disk[cur] # Gone /\ (disk[cur] = live \/ unkept)
  /\ pc = "kept" => acked[cur] # Gone /\ (acked[cur] = live \/ unkept)

(* A name that is deleted is gone from the disk before its row goes.        *)
DeletedGone ==
  /\ pc = "removed" => disk[cur] = Gone
  /\ pc = "taken" => disk[arg] # Gone
  /\ \A s \in deleted : disk[s] = Gone /\ ~HasSnapshot(s)

Inv ==
  /\ TypeOK
  /\ AckedIsKept
  /\ Locals
  /\ TodoUnacked
  /\ DiskCommitted
  /\ SourceKept
  /\ WorkspaceKept
  /\ DeletedGone
----------------------------------------------------------------------------
(* What the statements on the index do to the set of rows.                  *)

(* A replaced row is there afterwards, and no other row comes or goes.      *)
LEMMA ReplaceRow ==
  ASSUME TypeOK, NEW s \in Names, ReplaceSnapshot(s)
  PROVE  /\ age' \in [Names -> Nat] /\ aged' \subseteq Names
         /\ \A t \in Names : age'[t] # 0 <=> (t = s \/ age[t] # 0)
BY DEF TypeOK, ReplaceSnapshot, HasSnapshot

(* The same of INSERT OR IGNORE.                                            *)
LEMMA KeepRow ==
  ASSUME TypeOK, NEW s \in Names, KeepSnapshot(s)
  PROVE  /\ age' \in [Names -> Nat] /\ aged' \subseteq Names
         /\ \A t \in Names : age'[t] # 0 <=> (t = s \/ age[t] # 0)
<1>1. CASE HasSnapshot(s)
  BY <1>1 DEF TypeOK, KeepSnapshot, HasSnapshot, index
<1>2. CASE ~HasSnapshot(s)
  BY <1>2, ReplaceRow DEF KeepSnapshot
<1> QED BY <1>1, <1>2

(* A removed row is gone afterwards, and no other row comes or goes.        *)
LEMMA DropRow ==
  ASSUME TypeOK, NEW s \in Names, RemoveRow(s)
  PROVE  /\ age' \in [Names -> Nat] /\ aged' \subseteq Names
         /\ \A t \in Names : age'[t] # 0 <=> (t # s /\ age[t] # 0)
BY DEF TypeOK, RemoveRow, HasSnapshot

(* After reconcileSnapshots a name has a row if and only if it has a        *)
(* subvolume.                                                               *)
LEMMA ReindexRows ==
  ASSUME TypeOK, ReconcileSnapshots
  PROVE  /\ age' \in [Names -> Nat] /\ aged' \subseteq Names
         /\ \A s \in Names : age'[s] # 0 <=> disk[s] # Gone
<1> DEFINE missing == {s \in Names : disk[s] # Gone /\ ~HasSnapshot(s)}
           found   == {s \in Names : disk[s] # Gone /\ HasSnapshot(s)}
           below(s) == {t \in found : age[t] < age[s]}
<1>1. IsFiniteSet(Names)
  BY NamesFinite, FS_Union, Zenon DEF Names
<1>2. Cardinality(missing) \in Nat
  BY <1>1, FS_Subset, FS_CardinalityType
<1>3. \A s \in Names : Cardinality(below(s)) \in Nat
  BY <1>1, FS_Subset, FS_CardinalityType
<1>4. PICK order \in [missing -> 1..Cardinality(missing)] :
        age' = [s \in Names |-> IF s \in missing THEN order[s]
                                ELSE IF s \in found
                                  THEN (Cardinality(missing) + Cardinality(below(s))) + 1
                                ELSE 0]
  BY Zenon DEF ReconcileSnapshots
<1>5. aged' \subseteq Names
  BY DEF ReconcileSnapshots
<1> HIDE DEF below
<1>6. age' \in [Names -> Nat]
  BY <1>2, <1>3, <1>4
<1>7. ASSUME NEW s \in Names PROVE age'[s] # 0 <=> disk[s] # Gone
  BY <1>2, <1>3, <1>4
<1> QED BY <1>5, <1>6, <1>7
----------------------------------------------------------------------------
(* The invariant holds initially and every step preserves it.               *)

LEMMA InitInv == Init => Inv
<1> SUFFICES ASSUME Init PROVE Inv
  OBVIOUS
<1>1. box \in BOOLEAN /\ ~box /\ unkept \in BOOLEAN
  BY Zenon DEF Init
<1> QED BY <1>1, ContentsAssumption, BoundsAssumption
        DEF Init, Inv, TypeOK, OrGone, Places, AckedIsKept, Locals, InLoop, Copied, TodoUnacked,
                 DiskCommitted, SourceKept, WorkspaceKept, DeletedGone, HasSnapshot

LEMMA StepInv == Inv /\ [Next]_vars => Inv'
<1> SUFFICES ASSUME Inv, [Next]_vars PROVE Inv'
  OBVIOUS
<1> USE NamesDisjoint, ContentsAssumption, BoundsAssumption
    DEF Inv, TypeOK, OrGone, Places, AckedIsKept, HasSnapshot, Locals, InLoop, Copied,
        TodoUnacked, DiskCommitted, SourceKept, WorkspaceKept, DeletedGone, Names, pool, index, boxes, history
<1>1. ASSUME NEW s \in Names, DeleteSnapshot(s) PROVE Inv'
  BY <1>1 DEF DeleteSnapshot, Deleting, Finish
<1>2. ASSUME NEW s \in Names, Restore(s) PROVE Inv'
  <2>1. box' \in BOOLEAN /\ ~box'
    BY <1>2, Zenon DEF Restore
  <2> QED BY <1>2, <2>1 DEF Restore, Deleting, Finish, SnapshotsBefore
<1>3. ASSUME NEW s \in Turns, NEW replace \in BOOLEAN, Snapshot(s, replace) PROVE Inv'
  BY <1>3 DEF Snapshot, Deleting, Finish
<1>4. ASSUME NEW s \in Names, RemoveSubvolume(s) PROVE Inv'
  BY <1>4 DEF RemoveSubvolume
<1>5. CASE Unindex
  BY <1>5, DropRow DEF Unindex, Finish
<1>6. CASE KeepTaken
  BY <1>6, KeepRow DEF KeepTaken, Exists
<1>7. CASE Take
  <2>1. unkept' \in BOOLEAN
    BY <1>7, Zenon DEF Take
  <2> QED BY <1>7, <2>1 DEF Take, Exists, Commit
<1>8. CASE IndexTaken
  BY <1>8, ReplaceRow DEF IndexTaken
<1>9. CASE PrunePreRestores
  BY <1>9 DEF PrunePreRestores, Deleting, Finish, SnapshotsBefore
<1>10. CASE PruneBeyond
  BY <1>10, Zenon DEF PruneBeyond, Deleting, Finish, SnapshotsBeyond
<1>11. CASE ClearNext
  BY <1>11 DEF ClearNext
<1>12. CASE CopySnapshot
  BY <1>12 DEF CopySnapshot, Commit
<1>13. ASSUME NEW p \in PreRestores, TakePreRestore(p) PROVE Inv'
  <2>1. unkept' \in BOOLEAN
    BY <1>13, Zenon DEF TakePreRestore
  <2> QED BY <1>13, <2>1 DEF TakePreRestore, Commit
<1>14. CASE IndexPreRestore
  BY <1>14, ReplaceRow DEF IndexPreRestore
<1>15. CASE Swap
  <2>1. unkept' \in BOOLEAN
    BY <1>15, Zenon DEF Swap
  <2> QED BY <1>15, <2>1 DEF Swap
<1>16. CASE DropReplaced
  BY <1>16 DEF DropReplaced, Finish
<1>17. CASE Reconcile
  BY <1>17 DEF Reconcile
<1>18. CASE ClearLeftovers
  BY <1>18 DEF ClearLeftovers
<1>19. CASE ReconcileSnapshots
  <2>1. /\ pc = "reindex" /\ pc' = "reprune"
        /\ UNCHANGED <<pool, committed, boxes, arg, todo, after, cur, crashes, history>>
    BY <1>19 DEF ReconcileSnapshots
  <2> QED BY <1>19, <2>1, ReindexRows
<1>20. CASE ReconcilePrune
  BY <1>20 DEF ReconcilePrune, Deleting, Finish, SnapshotsBefore
<1>21. CASE Listen
  BY <1>21 DEF Listen, Finish
<1>22. CASE Fail
  BY <1>22 DEF Fail, Finish, Recovering
<1>23. CASE Crash
  BY <1>23 DEF Crash, Finish
<1>24. CASE PowerCut
  <2>1. box' \in BOOLEAN
    BY <1>24, Zenon DEF PowerCut
  <2> QED BY <1>24, <2>1 DEF PowerCut, Finish
<1>25. CASE Wake
  BY <1>25 DEF Wake
<1>26. CASE Sleep
  <2>1. box' \in BOOLEAN /\ ~box'
    BY <1>26, Zenon DEF Sleep
  <2> QED BY <1>26, <2>1 DEF Sleep
<1>27. CASE DayPasses
  BY <1>27 DEF DayPasses
<1>28. CASE BackgroundCommit
  BY <1>28 DEF BackgroundCommit, Commit
<1>29. ASSUME NEW c \in Contents, BoxWrites(c) PROVE Inv'
  BY <1>29 DEF BoxWrites
<1>30. CASE WakeAgent
  BY <1>30 DEF WakeAgent
<1>31. CASE StopAgent
  BY <1>31 DEF StopAgent
<1>32. ASSUME NEW c \in Contents, AgentWrites(c) PROVE Inv'
  <2>1. unkept' \in BOOLEAN /\ unkept'
    BY <1>32, Zenon DEF AgentWrites
  <2> QED BY <1>32, <2>1 DEF AgentWrites
<1>33. CASE UNCHANGED vars
  BY <1>33 DEF vars
<1> HIDE DEF Inv
<1> QED
  BY <1>1, <1>2, <1>3, <1>4, <1>5, <1>6, <1>7, <1>8, <1>9, <1>10, <1>11, <1>12, <1>13, <1>14, <1>15, <1>16, <1>17, <1>18, <1>19, <1>20, <1>21, <1>22, <1>23, <1>24, <1>25, <1>26, <1>27, <1>28, <1>29, <1>30, <1>31, <1>32, <1>33
     DEF Next, Call, Step, Environment

(* Every reachable state satisfies the inductive invariant.                 *)
THEOREM InvHolds == Spec => []Inv
BY InitInv, StepInv, PTL DEF Spec

----------------------------------------------------------------------------
(* Type correctness.                                                        *)
THEOREM TypeCorrect == Spec => []TypeOK
<1>1. Inv => TypeOK
  BY DEF Inv
<1> QED BY InvHolds, <1>1, PTL

(* An acknowledged snapshot survives crashes, errors and power cuts of any  *)
(* number and at any step.                                                  *)
THEOREM AckedSafe == Spec => []AckedIsKept
<1>1. Inv => AckedIsKept
  BY DEF Inv
<1> QED BY InvHolds, <1>1, PTL

(* A restore puts in place the snapshot it was asked for.                   *)
THEOREM RestoreCorrect == Spec => []RestoreDeliversSource
<1>1. Inv => RestoreDeliversSource
  BY DEF Inv, SourceKept, Copied, RestoreDeliversSource
<1> QED BY InvHolds, <1>1, PTL

(* A restore loses nothing of the workspace it replaces, but for what the   *)
(* agent's box wrote after the pre-restore snapshot.                        *)
THEOREM ReplacedSafe == Spec => ReplacedIsKept
<1> DEFINE Kept == live' # live => \/ pc' = pc
                                   \/ pc' = "down"
                                   \/ unkept
                                   \/ \E p \in PreRestores : acked'[p] = live
<1>1. Inv /\ [Next]_vars => [Kept]_vars
  <2> SUFFICES ASSUME Inv, Next, live' # live PROVE Kept
    OBVIOUS
  <2>1. CASE Swap
    BY <2>1 DEF Swap, Inv, WorkspaceKept, Locals, history
  <2>2. CASE PowerCut
    BY <2>2 DEF PowerCut, Finish
  <2>3. CASE \E c \in Contents : BoxWrites(c) \/ AgentWrites(c)
    BY <2>3 DEF BoxWrites, AgentWrites
  <2> QED
    BY <2>1, <2>2, <2>3, Zenon
       DEF Next, Call, Step, Environment, DeleteSnapshot, Restore, Snapshot, RemoveSubvolume,
           Unindex, KeepTaken, Take, IndexTaken, PrunePreRestores, PruneBeyond, ClearNext,
           CopySnapshot, TakePreRestore, IndexPreRestore, DropReplaced, Reconcile,
           ClearLeftovers, ReconcileSnapshots, ReconcilePrune, Listen, Fail, Crash, Wake,
           Sleep, WakeAgent, StopAgent, DayPasses, BackgroundCommit, pool
<1> QED BY InvHolds, <1>1, PTL DEF Spec, ReplacedIsKept

(* A snapshot deleted for good is never listed again.                       *)
THEOREM DeletedSafe == Spec => []DeletedStaysDeleted
<1>1. Inv => DeletedStaysDeleted
  BY DEF Inv, DeletedGone, DeletedStaysDeleted
<1> QED BY InvHolds, <1>1, PTL

----------------------------------------------------------------------------
(* Every step of the store is a step of Checkpoints, or changes nothing     *)
(* that Checkpoints sees: each operation takes effect at one step, whatever *)
(* fails or crashes around it, and a power cut loses no snapshot taken.     *)
THEOREM Refinement == Spec => ImplementsCheckpoints
<1> DEFINE on == agent = "live"
<1>1. Init => Abstract!Init
  BY DEF Init, Abstract!Init, Abstract!Now, Names
<1>2. Inv /\ [Next]_vars => [Abstract!Next]_(Abstract!vars)
  <2> SUFFICES ASSUME Inv, [Next]_vars
               PROVE  Abstract!Next \/ UNCHANGED <<live, disk, boxes, committed>>
    BY DEF Abstract!vars, boxes
  <2> USE DEF pool, boxes, Abstract!Lazily
  <2>0. box \in BOOLEAN /\ on \in BOOLEAN
    BY Zenon DEF Inv, TypeOK
  <2>1. ASSUME NEW s \in Names, Restore(s) PROVE Abstract!Next
    <3>1. Abstract!Power(FALSE, FALSE)
      BY <2>1 DEF Restore, Abstract!Power
    <3> QED BY <3>1, Zenon DEF Abstract!Next
  <2>2. CASE Wake \/ Sleep \/ WakeAgent \/ StopAgent
    <3>1. box' \in BOOLEAN /\ on' \in BOOLEAN
      BY <2>0, <2>2, Zenon DEF Wake, Sleep, WakeAgent, StopAgent
    <3>2. Abstract!Power(box', on')
      BY <2>2 DEF Wake, Sleep, WakeAgent, StopAgent, Abstract!Power
    <3> QED BY <3>1, <3>2, Zenon DEF Abstract!Next
  <2>3. ASSUME NEW c \in Contents, BoxWrites(c) PROVE Abstract!Next
    BY <2>3 DEF BoxWrites, Abstract!Next, Abstract!Write
  <2>4. ASSUME NEW c \in Contents, AgentWrites(c) PROVE Abstract!Next
    BY <2>4 DEF AgentWrites, Abstract!Next, Abstract!AgentWrites
  <2>5. ASSUME NEW s \in Names, RemoveSubvolume(s) PROVE Abstract!Next
    BY <2>5, Zenon DEF RemoveSubvolume, Abstract!Next, Abstract!Delete
  <2>6. CASE Take
    <3>1. arg \in Names
      BY <2>6 DEF Take, Inv, Locals, Names
    <3>2. Abstract!Take(arg)
      BY <2>6 DEF Take, Exists, Commit, Abstract!Take, Abstract!Now
    <3> QED BY <3>1, <3>2 DEF Abstract!Next
  <2>7. ASSUME NEW p \in PreRestores, TakePreRestore(p) PROVE Abstract!Next
    <3>1. Abstract!Take(p)
      BY <2>7 DEF TakePreRestore, Commit, Abstract!Take, Abstract!Now
    <3> QED BY <3>1 DEF Names, Abstract!Next
  <2>8. CASE Swap
    <3>1. arg \in Names /\ cur \in Names /\ cur # arg /\ ~box
      BY <2>8 DEF Swap, Inv, Locals, Copied, Names
    <3>2. disk[arg] = next /\ disk[arg] # Gone
      BY <2>8 DEF Swap, Inv, SourceKept, Copied
    <3>3. disk[cur] = live \/ (unkept /\ disk[cur] # Gone)
      BY <2>8, <3>1 DEF Swap, Inv, WorkspaceKept, AckedIsKept
    <3>4. Abstract!Restore(arg, cur)
      BY <2>8, <3>1, <3>2, <3>3 DEF Swap, Abstract!Restore
    <3> QED BY <3>1, <3>4 DEF Abstract!Next
  <2>9. CASE CopySnapshot \/ BackgroundCommit
    <3>1. Abstract!Sync \/ UNCHANGED <<live, disk, boxes, committed>>
      BY <2>9 DEF CopySnapshot, BackgroundCommit, Commit, Abstract!Sync, Abstract!Now
    <3> QED BY <3>1 DEF Abstract!Next
  <2>10. CASE PowerCut
    BY <2>10 DEF PowerCut, Abstract!Next, Abstract!PowerLoss
  <2> QED
    BY <2>1, <2>2, <2>3, <2>4, <2>5, <2>6, <2>7, <2>8, <2>9, <2>10, Zenon
       DEF Next, Call, Step, Environment, DeleteSnapshot, Snapshot, Unindex, KeepTaken,
           IndexTaken, PrunePreRestores, PruneBeyond, ClearNext,
           IndexPreRestore, DropReplaced, Reconcile, ClearLeftovers, ReconcileSnapshots,
           ReconcilePrune, Listen, Fail, Crash, DayPasses, vars
<1> QED BY InvHolds, <1>1, <1>2, PTL DEF Spec, ImplementsCheckpoints, Abstract!Spec
============================================================================
