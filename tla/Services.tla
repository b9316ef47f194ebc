------------------------------ MODULE Services ------------------------------
(***************************************************************************)
(* One service of a box, as fern-init runs it: its supervisor              *)
(* (cmd/fern-init/services.go), which starts it again whenever it exits,   *)
(* its socket, if fern-init holds one and starts the service at the first  *)
(* connection (ondemand.go), and its stop when the box stops (main.go).    *)
(*                                                                         *)
(* A service is a process group: the script that leads it, and what the    *)
(* script started.  Processes may exit, ignore SIGTERM and be slow to      *)
(* listen as they like; SIGKILL ends the whole group.  Delays are left     *)
(* out: a timer may fire as soon as it is set.                             *)
(***************************************************************************)
EXTENDS Naturals, FiniteSets

CONSTANTS Clients,  \* connections from elsewhere in the box
          Own       \* a connection the service makes to its own socket, while it starts

Conns == Clients \cup {Own}

ASSUME OwnAssumption == Own \notin Clients

VARIABLES svc,    \* the service's entry in services.yaml
          run,    \* where supervisor.run is
          quit,   \* supervisor.quit is closed
          term,   \* supervisor.terminate was called
          group,  \* supervisor.group is set
          procs,  \* the processes of the service
          up,     \* the service accepts connections
          sock,   \* whose the unix socket's file is
          ln,     \* fern-init's listener
          serve,  \* onDemand.serve
          ready,  \* onDemand.waitReady and its answer
          conn,   \* the connections fern-init accepts, and their relays
          stop    \* where the stop of the service is

sup  == <<run, quit, term, group>>
held == <<ln, serve, ready, conn>>
vars == <<svc, sup, procs, up, sock, held, stop>>

\* The entries a services.yaml may hold, as far as they make a difference.
Entries == [listen : {"none", "unix", "tcp"}, stop : BOOLEAN, ready : BOOLEAN]

Lazy == svc.listen # "none"
Unix == svc.listen = "unix"

\* at: a connection is "out" until made, in the listener's "backlog", "held" for the service, "dialled" when
\* the service has taken its other end, in "relay" once that end is in o.conns too, or "closed"; "looped" is
\* one relayed to fern-init itself.  swept: stop has closed it; cut: its other end is closed, by stop, which found it
\* in o.conns, or with the service.
NoConn == [at |-> "out", swept |-> FALSE, cut |-> FALSE]
Open(c) == conn[c].at \in {"held", "dialled", "relay", "looped"}

TypeOK ==
    /\ svc \in Entries
    /\ run \in {"none", "loop", "forked", "waiting", "ending", "ended", "backoff", "returned"}
    /\ {quit, term, group, up} \subseteq BOOLEAN
    /\ procs \subseteq {"leader", "child"} /\ (up => procs # {})
    /\ sock \in {"init", "service", "none"}
    /\ ln \in {"open", "closed"} /\ serve \in {"accept", "done"}
    /\ ready \in {"none", "waiting", "ok", "failed"} /\ (Lazy => (ready = "none") = (run = "none"))
    /\ conn \in [Conns -> [at : {"out", "backlog", "held", "dialled", "relay", "looped", "closed"}, swept : BOOLEAN, cut : BOOLEAN]]
    /\ stop \in {"none", "closing", "serving", "relays", "quit", "command", "terminate", "wait", "done"}

\* main's run: a service with a socket is listened for, another is started.
Init ==
    /\ svc \in Entries
    /\ run = (IF Lazy THEN "none" ELSE "loop") /\ quit = FALSE /\ term = FALSE /\ group = FALSE
    /\ procs = {} /\ up = FALSE
    /\ sock = (IF Unix THEN "init" ELSE "none")
    /\ ln = (IF Lazy THEN "open" ELSE "closed") /\ serve = (IF Lazy THEN "accept" ELSE "done")
    /\ ready = "none" /\ conn = [c \in Conns |-> NoConn]
    /\ stop = "none"

-----------------------------------------------------------------------------
(* The processes *)

\* What is left of the service.  When nothing is, it accepts no more, its ends of the connections are closed, and
\* its socket's file is its own doing: it may have removed it.
Left(ps) ==
    /\ procs' = ps
    /\ conn' = [c \in Conns |-> [conn[c] EXCEPT !.cut = @ \/ (ps = {} /\ conn[c].at \in {"dialled", "relay"})]]
    /\ UNCHANGED <<ln, serve, ready>>
    /\ up' = (up /\ ps # {})
    /\ sock' \in IF ps = {} /\ sock = "service" THEN {"service", "none"} ELSE {sock}

Exits(p) == p \in procs /\ Left(procs \ {p}) /\ UNCHANGED <<svc, sup, stop>>

Spawns ==
    /\ "leader" \in procs /\ procs' = procs \cup {"child"}
    /\ UNCHANGED <<svc, sup, up, sock, held, stop>>

\* The service listens, unless it waits for an answer on its own socket that fern-init holds.  It puts its
\* own unix socket in the place of fern-init's; a port it can only have once fern-init has let go of it.
Listens ==
    /\ procs # {} /\ ~up /\ conn[Own].at # "held"
    /\ svc.listen = "tcp" => ln = "closed"
    /\ up' = TRUE /\ sock' = IF Unix THEN "service" ELSE sock
    /\ UNCHANGED <<svc, sup, procs, held, stop>>

-----------------------------------------------------------------------------
(* supervisor.run *)

\* runService's Start: it fails once terminate was called, and may fail otherwise.
Start ==
    /\ run = "loop"
    /\ \/ run' = "ended" /\ UNCHANGED <<procs, up, sock>>
       \/ ~term /\ run' = "forked" /\ procs' = procs \cup {"leader"} /\ UNCHANGED <<up, sock>>
    /\ UNCHANGED <<svc, quit, term, group, held, stop>>

\* Its process group is told.
Started ==
    /\ run = "forked" /\ run' = "waiting" /\ group' = TRUE
    /\ UNCHANGED <<svc, quit, term, procs, up, sock, held, stop>>

\* Wait returns: the script has exited.
Waited ==
    /\ run = "waiting" /\ "leader" \notin procs /\ run' = "ending"
    /\ UNCHANGED <<svc, quit, term, group, procs, up, sock, held, stop>>

\* killDelay after terminate's SIGTERM, the group gets SIGKILL.
Escalate ==
    /\ run = "waiting" /\ term /\ procs # {} /\ Left({})
    /\ UNCHANGED <<svc, sup, stop>>

\* endGroup ends what the script left behind; the group is no longer the service's.
EndGroup_Leader ==
    /\ run = "ending" /\ run' = "ended" /\ group' = FALSE
    /\ UNCHANGED <<svc, quit, term, procs, up, sock, held, stop>>
EndGroup ==
    /\ run = "ending" /\ run' = "ended" /\ group' = FALSE
    /\ Left({})
    /\ UNCHANGED <<svc, quit, term, stop>>

\* A service that must not be restarted is left; another is started again after a pause.  The pause may be
\* over just as quit is closed: then the service starts once more.
Again_Always ==
    /\ run \in {"ended", "backoff"}
    /\ run' = IF run = "ended" THEN "backoff" ELSE "loop"
    /\ UNCHANGED <<svc, quit, term, group, procs, up, sock, held, stop>>
Again ==
    /\ \/ run \in {"ended", "backoff"} /\ quit /\ run' = "returned"
       \/ run = "ended" /\ ~quit /\ run' = "backoff"
       \/ run = "backoff" /\ run' = "loop"
    /\ UNCHANGED <<svc, quit, term, group, procs, up, sock, held, stop>>

-----------------------------------------------------------------------------
(* onDemand *)

At(c, at) == conn' = [conn EXCEPT ![c].at = at]

\* A connection to fern-init's listener; the service's own, while it starts.
Connect(c) ==
    /\ conn[c].at = "out" /\ ln = "open" /\ (Unix => sock = "init")
    /\ c = Own => Unix /\ procs # {}
    /\ At(c, "backlog")
    /\ UNCHANGED <<svc, sup, procs, up, sock, ln, serve, ready, stop>>

\* serve: the first connection starts the service, which gets the port of a TCP socket; one from the
\* service's own group is closed; every other is held.
Accept(c) ==
    /\ serve = "accept" /\ ln = "open" /\ conn[c].at = "backlog"
    /\ At(c, IF run # "none" /\ group /\ c = Own THEN "closed" ELSE "held")
    /\ IF run = "none"
       THEN run' = "loop" /\ ready' = "waiting" /\ ln' = IF Unix THEN ln ELSE "closed"
       ELSE UNCHANGED <<run, ready, ln>>
    /\ UNCHANGED <<svc, quit, term, group, procs, up, sock, serve, stop>>

\* The listener is closed: serve returns, and what nobody accepted is refused.
ServeEnds ==
    /\ serve = "accept" /\ ln = "closed" /\ serve' = "done"
    /\ conn' = [c \in Conns |-> IF conn[c].at = "backlog" THEN [conn[c] EXCEPT !.at = "closed"] ELSE conn[c]]
    /\ UNCHANGED <<svc, sup, procs, up, sock, ln, ready, stop>>

\* waitReady's look: the service has replaced a unix socket, and its check, if it has one, passes.
Replaced_Assumed == TRUE
Replaced == Unix => sock = "service"
IsReady == Replaced /\ (svc.ready => up)

\* waitReady ends, when the service is ready, startTimeout is over or the box stops.  It lets go of a unix
\* socket.
WaitReady_Forever ==
    /\ ready = "waiting" /\ IsReady
    /\ ready' = "ok"
    /\ ln' = IF Unix THEN "closed" ELSE ln
    /\ UNCHANGED <<svc, sup, procs, up, sock, serve, conn, stop>>
WaitReady ==
    /\ ready = "waiting"
    /\ ready' \in IF IsReady THEN {"ok", "failed"} ELSE {"failed"}
    /\ ln' = IF Unix THEN "closed" ELSE ln
    /\ UNCHANGED <<svc, sup, procs, up, sock, serve, conn, stop>>

\* relay: once the service is ready, its socket is dialled.  What answers there is the service, or
\* fern-init's own listener, or nobody: then the connection is dropped.
Dial(c) ==
    /\ conn[c].at = "held" /\ ready = "ok" /\ stop = "none"
    /\ At(c, IF Unix /\ sock = "init" THEN "looped" ELSE IF up THEN "dialled" ELSE "closed")
    /\ UNCHANGED <<svc, sup, procs, up, sock, ln, serve, ready, stop>>

Drop(c) ==
    /\ conn[c].at = "held" /\ (ready = "failed" \/ stop # "none")
    /\ At(c, "closed")
    /\ UNCHANGED <<svc, sup, procs, up, sock, ln, serve, ready, stop>>

Relay(c) ==
    /\ conn[c].at = "dialled"
    /\ At(c, "relay")
    /\ UNCHANGED <<svc, sup, procs, up, sock, ln, serve, ready, stop>>

\* Both copies end: one side closes, and the other answers its end of file with its own, if it likes; at once, if
\* stop has closed both ends or the service is gone.
RelayEnds(c) ==
    /\ conn[c].at = "relay"
    /\ conn' = [conn EXCEPT ![c] = [NoConn EXCEPT !.at = "closed"]]
    /\ UNCHANGED <<svc, sup, procs, up, sock, ln, serve, ready, stop>>

-----------------------------------------------------------------------------
(* The box stops: onDemand.stop, supervisor.stop *)

StopTo(at) == stop' = at

\* main's context is done, and each service's stop begins.
Stop ==
    /\ stop = "none" /\ StopTo(IF Lazy THEN "closing" ELSE "quit")
    /\ UNCHANGED <<svc, sup, procs, up, sock, held>>

\* The socket is closed, and serve waited for.
StopListening ==
    /\ stop = "closing" /\ StopTo("serving") /\ ln' = "closed"
    /\ UNCHANGED <<svc, sup, procs, up, sock, serve, ready, conn>>

\* The connections in o.conns are closed: those accepted, and the other ends of those in relay.
Sweep ==
    /\ stop = "serving" /\ serve = "done" /\ StopTo("relays")
    /\ conn' = [c \in Conns |-> IF Open(c) THEN [conn[c] EXCEPT !.swept = TRUE, !.cut = @ \/ conn[c].at = "relay"] ELSE conn[c]]
    /\ UNCHANGED <<svc, sup, procs, up, sock, ln, serve, ready>>

\* The relays and waitReady have ended.  A service that never started leaves fern-init's socket, which goes.
StopRelays_Unwaited ==
    /\ stop = "relays"
    /\ StopTo(IF run = "none" THEN "done" ELSE "quit")
    /\ sock' = IF run = "none" /\ Unix THEN "none" ELSE sock
    /\ UNCHANGED <<svc, sup, procs, up, held>>
StopRelays ==
    /\ stop = "relays" /\ ready # "waiting" /\ \A c \in Conns : ~Open(c)
    /\ StopTo(IF run = "none" THEN "done" ELSE "quit")
    /\ sock' = IF run = "none" /\ Unix THEN "none" ELSE sock
    /\ UNCHANGED <<svc, sup, procs, up, held>>

\* supervisor.stop: no restarts; the stop command, if there is one, bounded; SIGTERM; and the wait for run.
StopQuit ==
    /\ stop = "quit" /\ quit' = TRUE /\ StopTo(IF svc.stop THEN "command" ELSE "terminate")
    /\ UNCHANGED <<svc, run, term, group, procs, up, sock, held>>

StopCommand ==
    /\ stop = "command" /\ StopTo("terminate")
    /\ UNCHANGED <<svc, sup, procs, up, sock, held>>

Terminate ==
    /\ stop = "terminate" /\ term' = TRUE /\ StopTo("wait")
    /\ UNCHANGED <<svc, run, quit, group, procs, up, sock, held>>

StopWait ==
    /\ stop = "wait" /\ run = "returned" /\ StopTo("done")
    /\ UNCHANGED <<svc, sup, procs, up, sock, held>>

-----------------------------------------------------------------------------
Service    == Spawns \/ Listens \/ \E p \in {"leader", "child"} : Exits(p)
Supervisor == Start \/ Started \/ Waited \/ Escalate \/ EndGroup \/ Again
OnDemand   == ServeEnds \/ WaitReady \/ \E c \in Conns : Connect(c) \/ Accept(c) \/ Dial(c) \/ Drop(c) \/ Relay(c) \/ RelayEnds(c)
Stopping   == Stop \/ StopListening \/ Sweep \/ StopRelays \/ StopQuit \/ StopCommand \/ Terminate \/ StopWait

Next == Service \/ Supervisor \/ OnDemand \/ Stopping
Spec == Init /\ [][Next]_vars

\* fern-init's goroutines run, its timers fire, and a relayed connection ends once stop has closed both its ends
\* and once the service is gone.  Services owe nothing: they need not listen, exit, spawn or close a connection,
\* clients need not connect, the box need not stop.
Fairness ==
    /\ WF_vars(Supervisor) /\ WF_vars(ServeEnds) /\ WF_vars(WaitReady) /\ WF_vars(Stopping /\ stop # "none")
    /\ \A c \in Conns : /\ WF_vars(Accept(c)) /\ WF_vars(Dial(c) \/ Drop(c)) /\ WF_vars(Relay(c))
                        /\ WF_vars(RelayEnds(c) /\ conn[c].cut)
FairSpec == Spec /\ Fairness

-----------------------------------------------------------------------------
(* Properties *)

\* The supervisor never starts the service beside what is left of an earlier run: whatever the script left
\* in its group, run is between two runs only when nothing of the service is there.  The state is well-formed.
OneCopy == TypeOK /\ (run \in {"loop", "ended", "backoff", "returned"} => procs = {})

\* A connection is relayed to the service, never to fern-init itself, whose listener is still open while the
\* service starts.
NotItself == \A c \in Conns : conn[c].at # "looped"

\* When stop has returned, the service is gone for good: no process of it runs or will, no connection is
\* held or relayed, nothing listens, and the socket of a service that never started is removed.
StoppedIsGone ==
    stop = "done" =>
       /\ procs = {} /\ run \in {"none", "returned"}
       /\ ln = "closed" /\ \A c \in Conns : conn[c].at \in {"out", "closed"}
       /\ run = "none" => sock = "none"

\* Every connection fern-init accepts is relayed to the service or dropped, also the one the service makes
\* to itself while it starts.
ConnsEnd == \A c \in Conns : conn[c].at = "held" ~> conn[c].at # "held"

\* A relay whose other end was dialled when stop closed the connections, but not yet in o.conns.
Missed(c) == conn[c].at \in {"dialled", "relay"} /\ conn[c].swept /\ ~conn[c].cut

\* A stop ends, whatever the service's processes do, unless it has missed a relay: of one that was not yet in
\* o.conns only the client's end is closed, and the stop waits for the service to close the other.
StopEnds == stop # "none" ~> stop = "done" \/ \E c \in Conns : Missed(c)
=============================================================================
