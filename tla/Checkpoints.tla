---------------------------- MODULE Checkpoints ----------------------------
(***************************************************************************)
(* What an environment's snapshots promise to whoever takes, deletes and   *)
(* restores them: every operation is one atomic step, whatever the daemon  *)
(* does in between and wherever it stops.  A power cut goes back to an     *)
(* earlier whole state, and never behind a snapshot that was taken.        *)
(* Snapshots.tla implements this.                                          *)
(***************************************************************************)
CONSTANTS
  Names,        \* snapshot names
  Contents,     \* what a workspace can hold
  Gone,         \* "there is none"
  PowerCuts     \* whether the power may fail

VARIABLES
  live,         \* the workspace's content
  snaps,        \* the content of every snapshot, or Gone
  box,          \* the box runs, so the workspace may change
  agent,        \* the agent's box runs on the workspace
  unkept,       \* the agent's box wrote to the workspace since it was last in a snapshot
  safe          \* what a power cut would leave

vars == <<live, snaps, box, agent, unkept, safe>>

Now == [live |-> live, snaps |-> snaps]

Init ==
  /\ live \in Contents
  /\ snaps = [s \in Names |-> Gone]
  /\ box = FALSE /\ agent = FALSE /\ unkept = FALSE
  /\ safe = Now

(* The state becomes durable with the step, or later.                       *)
Lazily == safe' \in {safe, Now'}

Power(own, agents) ==
  /\ box' = own /\ agent' = agents
  /\ UNCHANGED <<live, snaps, unkept>>
  /\ Lazily

Write(c) ==
  /\ box
  /\ live' = c
  /\ UNCHANGED <<snaps, box, agent, unkept>>
  /\ Lazily

AgentWrites(c) ==
  /\ agent
  /\ live' = c
  /\ unkept' = TRUE
  /\ UNCHANGED <<snaps, box, agent>>
  /\ Lazily

(* What was taken is durable at once.                                       *)
Take(s) ==
  /\ snaps[s] = Gone
  /\ snaps' = [snaps EXCEPT ![s] = live]
  /\ safe' = IF PowerCuts THEN Now' ELSE safe
  /\ unkept' = FALSE
  /\ UNCHANGED <<live, box, agent>>

Delete(s) ==
  /\ snaps' = [snaps EXCEPT ![s] = Gone]
  /\ UNCHANGED <<live, box, agent, unkept>>
  /\ Lazily

(* The workspace becomes a copy of s, and what it was stays behind as       *)
(* another snapshot, kept, but for what the agent's box has written since.  *)
(* The agent's box, if it runs, is left on the workspace that was.          *)
Restore(s, kept) ==
  /\ ~box
  /\ kept # s
  /\ snaps[s] # Gone
  /\ snaps[kept] = live \/ (unkept /\ snaps[kept] # Gone)
  /\ live' = snaps[s]
  /\ agent' = FALSE /\ unkept' = FALSE
  /\ UNCHANGED <<snaps, box>>
  /\ Lazily

Sync ==
  /\ safe' = Now
  /\ UNCHANGED <<live, snaps, box, agent, unkept>>

PowerLoss ==
  /\ PowerCuts
  /\ live' = safe.live /\ snaps' = safe.snaps
  /\ box' = FALSE /\ agent' = FALSE
  /\ UNCHANGED <<unkept, safe>>

Next ==
  \/ \E own, agents \in BOOLEAN : Power(own, agents)
  \/ \E c \in Contents : Write(c) \/ AgentWrites(c)
  \/ \E s \in Names : Take(s) \/ Delete(s)
  \/ \E s, kept \in Names : Restore(s, kept)
  \/ Sync \/ PowerLoss

Spec == Init /\ [][Next]_vars
============================================================================
