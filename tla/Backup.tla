------------------------------- MODULE Backup -------------------------------
(***************************************************************************)
(* Backups: internal/backup.  Once snapshots every environment whose       *)
(* workspace changed, sends the snapshot to the bucket, incrementally from *)
(* the one before, saves the manifest after each, archives the state with  *)
(* the index, saves the manifest again and sweeps the bucket.  What is     *)
(* checked is what Restore would find.                                     *)
(*                                                                         *)
(* Snapshots, objects and archives are known by the time in their names.   *)
(* Compression, encryption and the archive's other files are left out.     *)
(***************************************************************************)
EXTENDS Naturals, Sequences, SequencesExt

CONSTANTS
  Envs, Backers,  \* Backers: the hourly Run, and fern backup
  MaxChain,
  MaxTime,        \* bound on the snapshots and archives made
  MaxChanges,     \* bound on writes, creates and deletes
  MaxFaults       \* bound on failures and crashes

Times == 1..MaxTime

ASSUME BoundsAssumption == {MaxChain, MaxTime, MaxChanges, MaxFaults} \subseteq Nat

VARIABLES
  work,     \* each environment's workspace: its content's version and its generation
  tx,       \* btrfs's last transaction
  changes,  \* versions so far
  snaps,    \* the backup snapshots on the node, of each environment
  made,     \* what each time's snapshot or archive was of
  now,      \* the last time used
  bucket,   \* the objects
  manifest,
  backer,   \* each Once: where it is and its locals
  faults,
  kept      \* History: parents whose DeleteSnapshot failed with a warning

node == <<work, tx, changes, snaps>>
vars == <<node, made, now, bucket, manifest, backer, faults, kept>>

Gone     == [ver |-> 0, gen |-> 0]
Listed   == {e \in Envs : work[e] # Gone}
NoBackup == [gen |-> 0, chain |-> <<>>]
Nothing  == [env |-> {}, ver |-> 0, at |-> 0, parent |-> 0]

(* at: "idle", "next" (at the loop over the environments), "look",          *)
(* "clean", "snap", "send", "record", "save", "state", "last", "sweep",     *)
(* "ok" or "failed".  seen is history: the versions when it began.          *)
Idle == [at |-> "idle", m |-> [state |-> 0, envs |-> [e \in Envs |-> NoBackup]], todo |-> {}, live |-> {},
         env |-> {}, name |-> 0, parent |-> 0, clean |-> {}, errs |-> FALSE, seen |-> [e \in Envs |-> 0]]

EnvBackups == [gen : 0..(MaxTime + MaxChanges), chain : Seq(Times)]
Manifests  == [state : Times \cup {0}, envs : [Envs -> EnvBackups]]

TypeOK ==
  /\ work \in [Envs -> [ver : 0..MaxChanges, gen : 0..(MaxTime + MaxChanges)]]
  /\ snaps \in [Envs -> SUBSET Times] /\ bucket \subseteq Times /\ kept \subseteq Times
  /\ made \in [Times -> [env : SUBSET Envs, ver : 0..MaxChanges, at : 0..(MaxTime + MaxChanges), parent : Times \cup {0}]]
  /\ manifest \in Manifests
  /\ \A b \in Backers : backer[b].m \in Manifests /\ backer[b].todo \subseteq backer[b].live
  /\ now \in 0..MaxTime /\ tx <= now + changes

Init ==
  /\ work = [e \in Envs |-> Gone] /\ tx = 0 /\ changes = 0
  /\ snaps = [e \in Envs |-> {}] /\ made = [t \in Times |-> Nothing] /\ now = 0
  /\ bucket = {} /\ manifest = Idle.m
  /\ backer = [b \in Backers |-> Idle]
  /\ faults = 0 /\ kept = {}

----------------------------------------------------------------------------
Set(b, r) == backer' = [backer EXCEPT ![b] = r]
At(b, pc) == backer[b].at = pc
Fault     == faults < MaxFaults /\ faults' = faults + 1

(* Once begins: it reads the manifest and lists the environments.           *)
Begin(b) ==
  /\ At(b, "idle")
  /\ Set(b, [Idle EXCEPT !.at = "next", !.m = manifest, !.todo = Listed, !.live = Listed,
                         !.seen = [e \in Envs |-> work[e].ver]])
  /\ UNCHANGED <<node, made, now, bucket, manifest, faults, kept>>

(* The backup snapshots of an environment that are not the next's parent.   *)
Leftover(e, p) == snaps[e] \ {p}

(* env: nothing to do if the generation is that of the last send; else      *)
(* which snapshot is the parent, and which are left over.                   *)
Look(b, e) ==
  LET r  == backer[b]
      eb == r.m.envs[e]
      n  == Len(eb.chain)
      p  == IF n > 0 /\ n < MaxChain THEN eb.chain[n] ELSE 0
  IN /\ At(b, "next") /\ e \in r.todo /\ work[e] # Gone
     /\ Set(b, IF n > 0 /\ work[e].gen = eb.gen
                 THEN [r EXCEPT !.at = "save", !.todo = @ \ {e}]
               ELSE [r EXCEPT !.at = "clean", !.todo = @ \ {e}, !.env = {e},
                              !.parent = IF p \in snaps[e] THEN p ELSE 0, !.clean = Leftover(e, p)])
     /\ UNCHANGED <<node, made, now, bucket, manifest, faults, kept>>

(* A step of env failed: the error is kept, and the next environment's turn. *)
Fails(b) ==
  /\ \/ backer[b].at \in {"clean", "snap", "record"} /\ Fault
     \/ At(b, "next") /\ backer[b].todo \ Listed # {} /\ UNCHANGED faults
  /\ Set(b, [backer[b] EXCEPT !.at = "next", !.todo = @ \cap Listed, !.errs = TRUE])
  /\ UNCHANGED <<node, made, now, bucket, manifest, kept>>

(* One leftover goes; the actor deletes one that is gone already as well.   *)
Clean(b) ==
  LET r == backer[b]
  IN /\ At(b, "clean")
     /\ IF r.clean = {} THEN Set(b, [r EXCEPT !.at = "snap"]) /\ UNCHANGED snaps
        ELSE \E t \in r.clean : /\ Set(b, [r EXCEPT !.clean = @ \ {t}])
                                /\ snaps' = [e \in Envs |-> snaps[e] \ {t}]
     /\ UNCHANGED <<work, tx, changes, made, now, bucket, manifest, faults, kept>>

(* The snapshot moves the workspace's generation to its own.                *)
Snapshot(b) ==
  LET r == backer[b]
      t == now + 1
  IN /\ At(b, "snap") /\ now < MaxTime
     /\ \E e \in r.env :
          IF work[e] = Gone
            THEN /\ Set(b, [r EXCEPT !.at = "next", !.errs = TRUE])
                 /\ UNCHANGED <<node, made, now>>
          ELSE /\ now' = t /\ tx' = tx + 1
               /\ work' = [work EXCEPT ![e].gen = tx + 1]
               /\ snaps' = [snaps EXCEPT ![e] = @ \cup {t}]
               /\ made' = [made EXCEPT ![t] = [env |-> {e}, ver |-> work[e].ver, at |-> tx + 1, parent |-> r.parent]]
               /\ Set(b, [r EXCEPT !.at = "send", !.name = t])
               /\ UNCHANGED changes
     /\ UNCHANGED <<bucket, manifest, faults, kept>>

(* btrfs send into the bucket.  It needs the snapshot and its parent.  One  *)
(* that fails takes its snapshot away, unless that fails too, and may leave *)
(* a part of the object.                                                    *)
Send(b) ==
  LET r   == backer[b]
      e   == CHOOSE x \in r.env : TRUE
      can == {r.name, r.parent} \ {0} \subseteq snaps[e]
  IN /\ At(b, "send")
     /\ \/ /\ can
           /\ bucket' = bucket \cup {r.name}
           /\ Set(b, [r EXCEPT !.at = "record"])
           /\ UNCHANGED <<snaps, faults>>
        \/ /\ IF can THEN Fault ELSE UNCHANGED faults
           /\ bucket' \in {bucket, bucket \cup {r.name}}
           /\ snaps' \in {snaps, [snaps EXCEPT ![e] = @ \ {r.name}]}
           /\ Set(b, [r EXCEPT !.at = "next", !.errs = TRUE])
     /\ UNCHANGED <<work, tx, changes, made, now, manifest, kept>>

(* Mutant: the generation is the workspace's by now, not the snapshot's.    *)
Taken_Late(e, t) == work[e].gen

(* createdAt.                                                               *)
Taken(e, t) == made[t].at

(* Mutant: a full send goes on with the old chain.                          *)
Chained_Always(chain, parent, t) == Append(chain, t)

Chained(chain, parent, t) == IF parent = 0 THEN <<t>> ELSE Append(chain, t)

(* Mutant: the parent stays, for the next backup to remove.                 *)
Needed_Parent(e, parent) == snaps[e]

(* The snapshots left once one was sent from parent, which goes.            *)
Needed(e, parent) == snaps[e] \ {parent}

(* The send becomes the environment's last, and its parent goes, or stays   *)
(* with a warning.                                                          *)
Record(b) ==
  LET r == backer[b]
      e == CHOOSE x \in r.env : TRUE
  IN /\ At(b, "record")
     /\ IF r.name \in snaps[e]
          THEN /\ Set(b, [r EXCEPT !.at = "save",
                            !.m.envs[e] = [gen |-> Taken(e, r.name), chain |-> Chained(@.chain, r.parent, r.name)]])
               /\ \/ snaps' = [snaps EXCEPT ![e] = Needed(e, r.parent)] /\ UNCHANGED <<faults, kept>>
                  \/ r.parent # 0 /\ Fault /\ kept' = kept \cup {r.parent} /\ UNCHANGED snaps
        ELSE /\ Set(b, [r EXCEPT !.at = "next", !.errs = TRUE])
             /\ UNCHANGED <<snaps, faults, kept>>
     /\ UNCHANGED <<work, tx, changes, made, now, bucket, manifest>>

(* The manifest, after each environment and at the end.                     *)
Save(b) ==
  /\ At(b, "save") \/ At(b, "last")
  /\ manifest' = backer[b].m
  /\ Set(b, [backer[b] EXCEPT !.at = IF At(b, "save") THEN "next" ELSE "sweep"])
  /\ UNCHANGED <<node, made, now, bucket, faults, kept>>

(* The archive, with the index as it is now.  Environments no longer listed *)
(* leave the manifest.                                                      *)
State(b) ==
  LET r == backer[b]
      t == now + 1
  IN /\ At(b, "next") /\ r.todo = {} /\ now < MaxTime
     /\ now' = t /\ made' = [made EXCEPT ![t] = [Nothing EXCEPT !.env = Listed]]
     /\ bucket' = bucket \cup {t}
     /\ Set(b, [r EXCEPT !.at = "last", !.m = [state |-> t, envs |-> [e \in Envs |-> IF e \in r.live THEN @.envs[e] ELSE NoBackup]]])
     /\ UNCHANGED <<node, manifest, faults, kept>>

(* The objects a manifest names.                                            *)
Named(m) == {m.state} \cup UNION {ToSet(m.envs[e].chain) : e \in Envs}

(* sweep: what the manifest does not name; some deletes may fail.           *)
Sweep(b) ==
  LET r == backer[b]
      garbage == bucket \ Named(r.m)
  IN /\ At(b, "sweep")
     /\ \/ /\ bucket' = bucket \ garbage
           /\ Set(b, [r EXCEPT !.at = IF r.errs THEN "failed" ELSE "ok"])
           /\ UNCHANGED faults
        \/ /\ garbage # {} /\ Fault
           /\ \E some \in SUBSET garbage : bucket' = bucket \ some
           /\ Set(b, [r EXCEPT !.at = "failed"])
     /\ UNCHANGED <<node, made, now, manifest, kept>>

(* A manifest that cannot be saved, or a state that cannot be archived,     *)
(* ends Once.                                                               *)
Abort(b) ==
  /\ \/ backer[b].at \in {"save", "last"}
     \/ At(b, "next") /\ backer[b].todo = {}
  /\ Fault
  /\ Set(b, [backer[b] EXCEPT !.at = "failed"])
  /\ UNCHANGED <<node, made, now, bucket, manifest, kept>>

Ended(b) ==
  /\ backer[b].at \in {"ok", "failed"}
  /\ Set(b, Idle)
  /\ UNCHANGED <<node, made, now, bucket, manifest, faults, kept>>

(* The daemon dies; the next one's Once starts over.                        *)
Crash ==
  /\ Fault
  /\ \E b \in Backers : backer[b] # Idle
  /\ backer' = [b \in Backers |-> Idle]
  /\ UNCHANGED <<node, made, now, bucket, manifest, kept>>

----------------------------------------------------------------------------
(* What happens to the environments meanwhile.                              *)

(* A write, or the environment is created.                                  *)
Write(e) ==
  /\ changes < MaxChanges
  /\ changes' = changes + 1 /\ tx' = tx + 1
  /\ work' = [work EXCEPT ![e] = [ver |-> changes + 1, gen |-> tx + 1]]
  /\ UNCHANGED <<snaps, made, now, bucket, manifest, backer, faults, kept>>

Delete(e) ==
  /\ work[e] # Gone /\ changes < MaxChanges
  /\ changes' = changes + 1
  /\ work' = [work EXCEPT ![e] = Gone] /\ snaps' = [snaps EXCEPT ![e] = {}]
  /\ UNCHANGED <<tx, made, now, bucket, manifest, backer, faults, kept>>

(* Store.Prune, after a turn's snapshot, takes the oldest.                  *)
Prune(e) ==
  /\ snaps[e] # {} /\ changes < MaxChanges
  /\ changes' = changes + 1
  /\ snaps' = [snaps EXCEPT ![e] = @ \ {CHOOSE t \in @ : \A u \in @ : t <= u}]
  /\ UNCHANGED <<work, tx, made, now, bucket, manifest, backer, faults, kept>>

Next ==
  \/ \E b \in Backers :
       \/ Begin(b) \/ Fails(b) \/ Clean(b) \/ Snapshot(b) \/ Send(b) \/ Record(b) \/ Save(b)
       \/ State(b) \/ Sweep(b) \/ Abort(b) \/ Ended(b)
       \/ \E e \in Envs : Look(b, e)
  \/ \E e \in Envs : Write(e) \/ Delete(e) \/ Prune(e)
  \/ Crash

Spec == Init /\ [][Next]_vars

----------------------------------------------------------------------------
(* Restore: it receives an environment's chain, a full send and then each   *)
(* from the one before, whose objects it must find.                         *)
Receives(m, e) ==
  LET c == m.envs[e].chain
  IN \A i \in 1..Len(c) : /\ c[i] \in bucket /\ made[c[i]].env = {e}
                          /\ made[c[i]].parent = IF i = 1 THEN 0 ELSE c[i - 1]

(* It unpacks the state archive, unless there is no backup yet.             *)
Extracts(m) == m.state \in bucket \cup {0}

(* "A manifest in the bucket says what makes up the latest backup; it is    *)
(* written last": whenever the node is lost, Restore finds every object the *)
(* manifest names, and can receive each chain.                              *)
Restorable == Extracts(manifest) /\ \A e \in Envs : Receives(manifest, e)

(* A backup that reports no error has everything written before it began:   *)
(* no generation makes it skip a workspace that changed.                    *)
BackupIsCurrent ==
  \A b \in Backers : At(b, "ok") =>
    \A e \in backer[b].live : LET c == backer[b].m.envs[e].chain
                              IN c # <<>> /\ made[Last(c)].ver >= backer[b].seen[e]

(* "A backup that stops leaves only objects and snapshots the next one      *)
(* removes": after one without error the bucket holds what the manifest     *)
(* names, and of an environment only the snapshot last sent is left, as the *)
(* next send's parent, and those a warning told of, however many backups    *)
(* stopped half-way before.  The state is well-formed all along.            *)
NothingLeftOver ==
  TypeOK /\ \A b \in Backers : At(b, "ok") =>
    /\ bucket = Named(backer[b].m)
    /\ \A e \in Listed \cap backer[b].live : snaps[e] \subseteq {Last(backer[b].m.envs[e].chain)} \cup kept
=============================================================================
