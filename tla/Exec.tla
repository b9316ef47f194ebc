-------------------------------- MODULE Exec --------------------------------
(***************************************************************************)
(* internal/boxexec: one command in a box, from the client's Run through   *)
(* the daemon's Proxy to fern-init's Server and the command's process      *)
(* group.  There are two connections, the client's and the box's; each     *)
(* direction of each holds a few messages, and is full until its reader    *)
(* takes one.                                                              *)
(*                                                                         *)
(* Frames are what the protocol tells apart: stdin frames by their place,  *)
(* the end of stdin, a signal; an output frame, the exit message.          *)
(***************************************************************************)
EXTENDS Naturals, Sequences

CONSTANTS
  MaxStdin,    \* a bound: stdin frames the client has
  MaxOut,      \* a bound: pieces of output the command writes
  StdinQueue,  \* stdinQueue, the frames that wait for the command to read
  Cap          \* messages a connection holds each way

ASSUME ExecAssumption == {MaxStdin, MaxOut, StdinQueue, Cap} \subseteq Nat /\ Cap > 0

In(i) == <<"in", i>>
Eof == <<"eof", 0>>
Sig == <<"sig", 0>>
Frames == {In(i) : i \in 1 .. MaxStdin} \cup {Eof, Sig}
None == <<"none", 0>>

VARIABLES
  tty,     \* the request asks for a terminal
  client,  \* Run: how it ended, what it sent, how much output it got
  open,    \* open[h]: connection h, 1 the client's and 2 the box's, is open
  up,      \* up[h]: messages on connection h towards the box
  down,    \* down[h]: messages on connection h towards the client
  fwd,     \* the Proxy's two copies
  srv,     \* ServeHTTP and wait
  reader,  \* readInput: "read", a frame it queues, or "ended"
  queue,   \* the stdin channel
  writer,  \* writeStdin: whether it drops the rest; the frame it writes; its end
  proc,    \* the command: its leader, the rest of its group, a process outside
  pipe,    \* what is in its output and input pipes
  slow     \* history: a deadline passed because a peer did not read

vars == <<tty, client, open, up, down, fwd, srv, reader, queue, writer, proc, pipe, slow>>
streams == <<reader, queue, writer>>
wire == <<open, up, down>>

TypeOK ==
  /\ tty \in BOOLEAN /\ slow \in BOOLEAN
  /\ client \in [end : {"none", "code", "error", "left"}, sent : 0 .. MaxStdin + 1,
                 signalled : BOOLEAN, got : 0 .. MaxOut]
  /\ open \in [1 .. 2 -> BOOLEAN]
  /\ \A h \in 1 .. 2 : /\ up[h] \in Seq(Frames) /\ Len(up[h]) <= Cap
                       /\ down[h] \in Seq({"out", "exit"}) /\ Len(down[h]) <= Cap
  /\ fwd \in [up : BOOLEAN, down : BOOLEAN]
  /\ srv \in [at : {"start", "wait", "drain", "finish", "close", "streams", "done"},
              cancelled : BOOLEAN, copying : BOOLEAN]
  /\ reader \in [ended : BOOLEAN, holds : Frames \cup {None}]
  /\ queue \in Seq(Frames) /\ Len(queue) <= StdinQueue
  /\ writer \in [ended : BOOLEAN, done : BOOLEAN, holds : Frames \cup {None}]
  /\ proc \in [leader : {"none", "run", "exited"}, child : BOOLEAN, far : BOOLEAN,
               wrote : 0 .. MaxOut, read : Seq(1 .. MaxStdin), eof : BOOLEAN]
  /\ pipe \in [out : 0 .. MaxOut, in : Seq(1 .. MaxStdin), inOpen : BOOLEAN, inEnd : BOOLEAN]

Init ==
  /\ tty \in BOOLEAN /\ slow = FALSE
  /\ client = [end |-> "none", sent |-> 0, signalled |-> FALSE, got |-> 0]
  /\ open = [h \in 1 .. 2 |-> TRUE]
  /\ up = [h \in 1 .. 2 |-> <<>>] /\ down = [h \in 1 .. 2 |-> <<>>]
  /\ fwd = [up |-> TRUE, down |-> TRUE]
  /\ srv = [at |-> "start", cancelled |-> FALSE, copying |-> FALSE]
  /\ reader = [ended |-> FALSE, holds |-> None]
  /\ queue = <<>>
  /\ writer = [ended |-> FALSE, done |-> FALSE, holds |-> None]
  /\ proc = [leader |-> "none", child |-> FALSE, far |-> FALSE, wrote |-> 0,
             read |-> <<>>, eof |-> FALSE]
  /\ pipe = [out |-> 0, in |-> <<>>, inOpen |-> FALSE, inEnd |-> FALSE]

(* The command exits; what it has read is of no more interest.              *)
Exited == [proc EXCEPT !.leader = "exited", !.read = <<>>, !.eof = FALSE]

(* A copy ends; who holds its output open is of no more interest.           *)
CopyOver ==
  /\ srv' = [srv EXCEPT !.copying = FALSE]
  /\ pipe' = [pipe EXCEPT !.out = 0]
  /\ proc' = [proc EXCEPT !.far = FALSE]

Put(ch, h, x) == Len(ch[h]) < Cap /\ ch' = [ch EXCEPT ![h] = Append(@, x)]
Take(ch, h) == ch' = [ch EXCEPT ![h] = Tail(@)]

-----------------------------------------------------------------------------
(* The client's Run.                                                        *)

Running == client.end = "none"

(* sendStdin: the frames, then the end; a client without stdin sends the    *)
(* end at once.                                                             *)
SendStdin ==
  /\ Running /\ open[1] /\ client.sent <= MaxStdin
  /\ Put(up, 1, IF client.sent < MaxStdin THEN In(client.sent + 1) ELSE Eof)
  /\ client' = [client EXCEPT !.sent = @ + 1]
  /\ UNCHANGED <<tty, open, down, fwd, srv, streams, proc, pipe, slow>>

(* sendControls.                                                            *)
SendSignal ==
  /\ Running /\ open[1] /\ ~client.signalled
  /\ Put(up, 1, Sig)
  /\ client' = [client EXCEPT !.signalled = TRUE]
  /\ UNCHANGED <<tty, open, down, fwd, srv, streams, proc, pipe, slow>>

(* Run returns; what it has not sent is of no more interest.                *)
ClientEnds(how) ==
  /\ client' = [end |-> how, sent |-> MaxStdin + 1, signalled |-> TRUE,
                got |-> IF how = "code" THEN client.got ELSE 0]
  /\ open' = [open EXCEPT ![1] = FALSE]
  /\ up' = [up EXCEPT ![1] = <<>>]

(* The loop: an output frame is written out, the exit message ends it with  *)
(* the code.                                                                *)
Receive ==
  /\ Running /\ down[1] # <<>>
  /\ Take(down, 1)
  /\ \/ Head(down[1]) = "exit" /\ ClientEnds("code")
     \/ /\ Head(down[1]) = "out" /\ client' = [client EXCEPT !.got = @ + 1]
        /\ UNCHANGED <<open, up>>
  /\ UNCHANGED <<tty, fwd, srv, streams, proc, pipe, slow>>

ReceiveError ==
  /\ Running /\ ~open[1] /\ down[1] = <<>>
  /\ ClientEnds("error")
  /\ UNCHANGED <<tty, down, fwd, srv, streams, proc, pipe, slow>>

(* The client dies, is cancelled, or cannot write its output.               *)
Leave ==
  /\ Running
  /\ ClientEnds("left")
  /\ down' = [down EXCEPT ![1] = <<>>]
  /\ UNCHANGED <<tty, fwd, srv, streams, proc, pipe, slow>>

-----------------------------------------------------------------------------
(* The daemon's Proxy.  When one copy ends, the other is cancelled; then    *)
(* the daemon closes both connections.                                      *)

ForwardUp ==
  /\ fwd.up /\ open[1] /\ open[2] /\ up[1] # <<>> /\ Len(up[2]) < Cap
  /\ up' = [up EXCEPT ![1] = Tail(@), ![2] = Append(@, Head(up[1]))]
  /\ UNCHANGED <<tty, client, open, down, fwd, srv, streams, proc, pipe, slow>>

(* A read fails, or a write does.                                           *)
ForwardUpEnds ==
  /\ fwd.up
  /\ ~open[1] \/ (~open[2] /\ up[1] # <<>>) \/ ~fwd.down
  /\ fwd' = [fwd EXCEPT !.up = FALSE]
  /\ UNCHANGED <<tty, client, wire, srv, streams, proc, pipe, slow>>

ForwardDown ==
  /\ fwd.down /\ open[1] /\ down[2] # <<>> /\ Len(down[1]) < Cap
  /\ down' = [down EXCEPT ![2] = Tail(@), ![1] = Append(@, Head(down[2]))]
  /\ UNCHANGED <<tty, client, open, up, fwd, srv, streams, proc, pipe, slow>>

(* A read fails: the box's side closed, which is passed on to the client in *)
(* a handshake that has a deadline; or a write fails; or it is cancelled.   *)
ForwardDownEnds ==
  /\ fwd.down
  /\ \/ ~open[2] /\ down[2] = <<>> /\ (down[1] = <<>> \/ ~open[1]) /\ UNCHANGED slow
     \/ ~open[2] /\ down[1] # <<>> /\ open[1] /\ slow' = TRUE
     \/ (~open[1] \/ (~fwd.up /\ down[2] # <<>>)) /\ UNCHANGED slow
  /\ fwd' = [fwd EXCEPT !.down = FALSE]
  /\ UNCHANGED <<tty, client, wire, srv, streams, proc, pipe>>

ProxyEnds ==
  /\ ~fwd.up /\ ~fwd.down /\ (open[1] \/ open[2])
  /\ open' = [h \in 1 .. 2 |-> FALSE]
  /\ \/ UNCHANGED down
     \/ slow /\ down' = [down EXCEPT ![1] = <<>>]
  /\ UNCHANGED <<tty, client, up, fwd, srv, streams, proc, pipe, slow>>
-----------------------------------------------------------------------------
(* fern-init's Server.                                                      *)

(* start: the command's group, its pipes or terminal, and the copies.       *)
Start ==
  /\ srv.at = "start"
  /\ srv' = [srv EXCEPT !.at = "wait", !.copying = TRUE]
  /\ proc' = [proc EXCEPT !.leader = "run"]
  /\ pipe' = [pipe EXCEPT !.inOpen = TRUE]
  /\ UNCHANGED <<tty, client, wire, fwd, streams, slow>>

(* A command that cannot start: the error is sent as output.                *)
StartFails ==
  /\ srv.at = "start"
  /\ Put(down, 2, "out")
  /\ srv' = [srv EXCEPT !.at = "finish"]
  /\ proc' = [proc EXCEPT !.leader = "exited", !.wrote = 1]
  /\ reader' = [reader EXCEPT !.ended = TRUE] /\ writer' = [writer EXCEPT !.ended = TRUE]
  /\ UNCHANGED <<tty, client, open, up, fwd, queue, pipe, slow>>

(* copyOutput: a read and the write of the frame; the write fails once the  *)
(* connection is closed or the command is cancelled.                        *)
CopyOutput ==
  /\ srv.copying /\ pipe.out > 0
  /\ \/ /\ open[2] /\ Put(down, 2, "out")
        /\ pipe' = [pipe EXCEPT !.out = @ - 1] /\ UNCHANGED srv
     \/ /\ ~open[2] \/ srv.cancelled
        /\ pipe' = [pipe EXCEPT !.out = 0] /\ srv' = [srv EXCEPT !.copying = FALSE]
        /\ UNCHANGED down
  /\ UNCHANGED <<tty, client, open, up, fwd, streams, proc, slow>>

(* The end of the output: every process that holds it has gone.             *)
CopyEnds ==
  /\ srv.copying /\ pipe.out = 0
  /\ proc.leader = "exited" /\ ~proc.child /\ ~proc.far
  /\ CopyOver
  /\ UNCHANGED <<tty, client, wire, fwd, streams, slow>>

(* Mutant: the group is left alone.                                         *)
Wait_NoKill ==
  /\ srv.at = "wait" /\ proc.leader = "exited"
  /\ srv' = [srv EXCEPT !.at = "drain"]
  /\ pipe' = [pipe EXCEPT !.inOpen = @ /\ tty, !.in = <<>>, !.inEnd = FALSE]
  /\ UNCHANGED <<tty, client, wire, fwd, streams, proc, slow>>

(* wait, when cmd.Wait returns: what is left of the group is killed.        *)
(* cmd.Wait closed the stdin pipe; a terminal stays open until the drain.   *)
Wait ==
  /\ srv.at = "wait" /\ proc.leader = "exited"
  /\ srv' = [srv EXCEPT !.at = "drain"]
  /\ proc' = [proc EXCEPT !.child = FALSE]
  /\ pipe' = [pipe EXCEPT !.inOpen = @ /\ tty, !.in = <<>>, !.inEnd = FALSE]
  /\ UNCHANGED <<tty, client, wire, fwd, streams, slow>>

(* The read deadline, outputDelay after the exit: it ends the copy of an    *)
(* output that a process outside the group holds open, and also one whose   *)
(* last frame the other end was too slow to take.                           *)
Deadline ==
  /\ srv.at = "drain" /\ srv.copying
  /\ \/ pipe.out = 0 /\ UNCHANGED slow
     \/ pipe.out > 0 /\ Len(down[2]) = Cap /\ slow' = TRUE
  /\ CopyOver
  /\ UNCHANGED <<tty, client, wire, fwd, streams>>

(* wait's end: the copies are over and the outputs are closed.              *)
Drained ==
  /\ srv.at = "drain" /\ ~srv.copying
  /\ srv' = [srv EXCEPT !.at = "finish"]
  /\ pipe' = [pipe EXCEPT !.inOpen = FALSE]
  /\ UNCHANGED <<tty, client, wire, fwd, streams, proc, slow>>

(* finish: the exit message, if the connection takes it.                    *)
Finish ==
  /\ srv.at = "finish"
  /\ \/ open[2] /\ Put(down, 2, "exit") /\ srv' = [srv EXCEPT !.at = "close"]
     \/ ~open[2] /\ srv' = [srv EXCEPT !.at = "streams"] /\ UNCHANGED down
  /\ UNCHANGED <<tty, client, open, up, fwd, streams, proc, pipe, slow>>

(* Mutant: the connection is closed without a handshake.                    *)
Close_Now ==
  /\ srv.at = "close"
  /\ open' = [open EXCEPT ![2] = FALSE]
  /\ srv' = [srv EXCEPT !.at = "streams"]
  /\ UNCHANGED <<tty, client, up, down, fwd, streams, proc, pipe, slow>>

(* The closing handshake: the other end answers once it has read what came  *)
(* before, unless the deadline comes first.                                 *)
Close ==
  /\ srv.at = "close"
  /\ \/ (down[2] = <<>> \/ ~open[2]) /\ UNCHANGED slow
     \/ down[2] # <<>> /\ open[2] /\ slow' = TRUE
  /\ open' = [open EXCEPT ![2] = FALSE]
  /\ srv' = [srv EXCEPT !.at = "streams"]
  /\ UNCHANGED <<tty, client, up, down, fwd, streams, proc, pipe>>

(* ServeHTTP returns.                                                       *)
Return ==
  /\ srv.at = "streams" /\ reader.ended /\ writer.ended
  /\ srv' = [srv EXCEPT !.at = "done"]
  /\ UNCHANGED <<tty, client, wire, fwd, streams, proc, pipe, slow>>
-----------------------------------------------------------------------------
(* readInput and writeStdin.                                                *)

Reading == srv.at # "start" /\ ~reader.ended /\ reader.holds = None

(* A signal goes to the group, unless the command has been reaped.          *)
Signal(f) ==
  IF f = Sig /\ srv.at = "wait" /\ proc.leader = "run"
  THEN proc' \in {proc, Exited}
  ELSE UNCHANGED proc

(* Mutant: the end of stdin is applied at once, ahead of the queue.         *)
ReadInput_EofFirst ==
  /\ Reading /\ up[2] # <<>>
  /\ Take(up, 2)
  /\ LET f == Head(up[2]) IN
       /\ reader' = [reader EXCEPT !.holds = IF f \in {Eof, Sig} THEN None ELSE f]
       /\ pipe' = IF f = Eof /\ ~tty THEN [pipe EXCEPT !.inOpen = FALSE, !.inEnd = TRUE] ELSE pipe
       /\ Signal(f)
  /\ UNCHANGED <<tty, client, open, down, fwd, srv, queue, writer, slow>>

(* A frame: stdin and, without a terminal, its end are for the queue.       *)
ReadInput ==
  /\ Reading /\ up[2] # <<>>
  /\ Take(up, 2)
  /\ LET f == Head(up[2]) IN
       /\ reader' = [reader EXCEPT !.holds = IF f = Sig \/ (f = Eof /\ tty) THEN None ELSE f]
       /\ Signal(f)
  /\ UNCHANGED <<tty, client, open, down, fwd, srv, queue, writer, pipe, slow>>

(* queue: a full one holds the reader up.  Its other way out, ctx, is       *)
(* cancelled by the reader itself, or as fern-init ends (its BaseContext),  *)
(* and the box with it: then nothing is left to say of its commands.        *)
Queue ==
  /\ ~reader.ended /\ reader.holds # None /\ Len(queue) < StdinQueue
  /\ queue' = Append(queue, reader.holds)
  /\ reader' = [reader EXCEPT !.holds = None]
  /\ UNCHANGED <<tty, client, wire, fwd, srv, writer, proc, pipe, slow>>

(* Mutant: the command is not cancelled.                                    *)
ReadFails_GoesOn ==
  /\ Reading /\ ~open[2]
  /\ reader' = [reader EXCEPT !.ended = TRUE]
  /\ UNCHANGED <<tty, client, wire, fwd, srv, queue, writer, proc, pipe, slow>>

(* A read fails: the queue is closed and the command cancelled.             *)
ReadFails ==
  /\ Reading /\ ~open[2]
  /\ reader' = [reader EXCEPT !.ended = TRUE]
  /\ srv' = [srv EXCEPT !.cancelled = TRUE]
  /\ UNCHANGED <<tty, client, wire, fwd, queue, writer, proc, pipe, slow>>

Writing == ~writer.ended /\ writer.holds = None

Dequeue ==
  /\ Writing /\ queue # <<>>
  /\ queue' = Tail(queue)
  /\ writer' = [writer EXCEPT !.holds = IF writer.done THEN None ELSE Head(queue)]
  /\ UNCHANGED <<tty, client, wire, fwd, srv, reader, proc, pipe, slow>>

(* Mutant: the writer ends when a write fails, and drops nothing.           *)
WriteStdin_Ends ==
  /\ ~writer.ended /\ writer.holds # None
  /\ \/ /\ writer.holds = Eof
        /\ pipe' = [pipe EXCEPT !.inEnd = @ \/ pipe.inOpen, !.inOpen = FALSE]
        /\ writer' = [writer EXCEPT !.holds = None, !.done = TRUE]
     \/ /\ writer.holds # Eof /\ pipe.inOpen /\ pipe.in = <<>>
        /\ pipe' = [pipe EXCEPT !.in = <<writer.holds[2]>>]
        /\ writer' = [writer EXCEPT !.holds = None]
     \/ /\ writer.holds # Eof /\ ~pipe.inOpen
        /\ writer' = [writer EXCEPT !.holds = None, !.ended = TRUE] /\ UNCHANGED pipe
  /\ UNCHANGED <<tty, client, wire, fwd, srv, reader, queue, proc, slow>>

(* A write waits for room in the pipe; after the end, or a failed write,    *)
(* the rest is dropped.                                                     *)
WriteStdin ==
  /\ ~writer.ended /\ writer.holds # None
  /\ \/ /\ writer.holds = Eof
        /\ pipe' = [pipe EXCEPT !.inEnd = @ \/ pipe.inOpen, !.inOpen = FALSE]
        /\ writer' = [writer EXCEPT !.holds = None, !.done = TRUE]
     \/ /\ writer.holds # Eof /\ pipe.inOpen /\ pipe.in = <<>>
        /\ pipe' = [pipe EXCEPT !.in = <<writer.holds[2]>>]
        /\ writer' = [writer EXCEPT !.holds = None]
     \/ /\ writer.holds # Eof /\ ~pipe.inOpen
        /\ writer' = [writer EXCEPT !.holds = None, !.done = TRUE] /\ UNCHANGED pipe
  /\ UNCHANGED <<tty, client, wire, fwd, srv, reader, queue, proc, slow>>

WriterEnds ==
  /\ Writing /\ queue = <<>> /\ reader.ended
  /\ writer' = [writer EXCEPT !.ended = TRUE]
  /\ UNCHANGED <<tty, client, wire, fwd, srv, reader, queue, proc, pipe, slow>>
-----------------------------------------------------------------------------
(* The command's processes.                                                 *)

(* cmd.Cancel, while cmd.Wait waits: the group is killed.                   *)
Killed ==
  /\ srv.at = "wait" /\ srv.cancelled /\ proc.leader = "run"
  /\ proc' = [Exited EXCEPT !.child = FALSE]
  /\ UNCHANGED <<tty, client, wire, fwd, srv, streams, pipe, slow>>

Exit ==
  /\ proc.leader = "run"
  /\ proc' = Exited
  /\ UNCHANGED <<tty, client, wire, fwd, srv, streams, pipe, slow>>

(* It starts a process in its group, or one that leaves it.                 *)
Spawn ==
  /\ proc.leader = "run"
  /\ \/ ~proc.child /\ proc' = [proc EXCEPT !.child = TRUE]
     \/ ~proc.far /\ srv.copying /\ proc' = [proc EXCEPT !.far = TRUE]
  /\ UNCHANGED <<tty, client, wire, fwd, srv, streams, pipe, slow>>

Output ==
  /\ proc.leader = "run" \/ proc.child
  /\ proc.wrote < MaxOut
  /\ proc' = [proc EXCEPT !.wrote = @ + 1]
  /\ pipe' = [pipe EXCEPT !.out = IF srv.copying THEN @ + 1 ELSE @]
  /\ UNCHANGED <<tty, client, wire, fwd, srv, streams, slow>>

(* It reads its stdin or its end; it closes it.                             *)
Input ==
  /\ proc.leader = "run"
  /\ \/ /\ pipe.in # <<>>
        /\ proc' = [proc EXCEPT !.read = @ \o pipe.in] /\ pipe' = [pipe EXCEPT !.in = <<>>]
     \/ /\ pipe.in = <<>> /\ pipe.inEnd /\ ~proc.eof
        /\ proc' = [proc EXCEPT !.eof = TRUE] /\ UNCHANGED pipe
     \/ pipe.inOpen /\ pipe' = [pipe EXCEPT !.inOpen = FALSE, !.in = <<>>] /\ UNCHANGED proc
  /\ UNCHANGED <<tty, client, wire, fwd, srv, streams, slow>>

ClientSteps == Receive \/ ReceiveError
ProxySteps == ForwardUp \/ ForwardUpEnds \/ ForwardDown \/ ForwardDownEnds \/ ProxyEnds
ServerSteps == Start \/ StartFails \/ Wait \/ Drained \/ Finish \/ Close \/ Return
CopySteps == CopyOutput \/ CopyEnds
ReaderSteps == ReadInput \/ Queue \/ ReadFails
WriterSteps == Dequeue \/ WriteStdin \/ WriterEnds

Next ==
  \/ SendStdin \/ SendSignal \/ Leave \/ ClientSteps \/ ProxySteps \/ ServerSteps
  \/ CopySteps \/ Deadline \/ ReaderSteps \/ WriterSteps
  \/ Killed \/ Exit \/ Spawn \/ Output \/ Input

Spec == Init /\ [][Next]_vars

(* Every goroutine goes on when it can, and the deadline comes.  Nothing is *)
(* assumed of the command, and of the client only that it reads.            *)
FairSpec ==
  /\ Spec
  /\ WF_vars(ClientSteps)
  /\ WF_vars(ForwardUp \/ ForwardUpEnds) /\ WF_vars(ForwardDown \/ ForwardDownEnds)
  /\ WF_vars(ProxyEnds) /\ WF_vars(ServerSteps) /\ WF_vars(CopySteps) /\ WF_vars(Deadline)
  /\ WF_vars(ReaderSteps) /\ WF_vars(WriterSteps) /\ WF_vars(Killed)

-----------------------------------------------------------------------------
(* Properties.                                                              *)

(* The command reads the client's stdin in order, and its end only after    *)
(* all of it.                                                               *)
StdinInOrder ==
  /\ \A i \in DOMAIN proc.read : proc.read[i] = i
  /\ proc.eof => Len(proc.read) = MaxStdin

(* "Kill what is left of the command's process group: its background        *)
(* processes end with it": when the client has the code, or the handler has *)
(* returned, none is left to change the workspace.  The state is            *)
(* well-formed; of its queues, none ever holds more than it may.            *)
NothingRuns ==
  /\ TypeOK
  /\ client.end = "code" \/ srv.at = "done" => proc.leader = "exited" /\ ~proc.child

(* "frames for stdout and stderr, then the exit code": while the box and    *)
(* the daemon stay up, a client that stays gets the code, and before it all *)
(* that the command and its background processes wrote, unless a side       *)
(* stopped reading for longer than a deadline.  Neither the Proxy, whose    *)
(* copies cancel each other, nor the close, nor the wait for the output     *)
(* loses any of it.                                                         *)
CodeArrives ==
  ~slow => /\ client.end # "error"
           /\ client.end = "code" => client.got = proc.wrote

(* Once the command has exited the handler returns, whatever is left in the *)
(* queue and whatever holds its output open.                                *)
ServerEnds == []<>(proc.leader = "exited" => srv.at = "done")

(* The reader is held up: the queue is full of what the command won't read. *)
Held == reader.holds # None /\ Len(queue) = StdinQueue

(* "A client that goes away cancels the command", unless the reader that    *)
(* would see it go stays held up.                                           *)
GoneIsKilled == []<>~Held => []<>(client.end = "left" => proc.leader = "exited")
=============================================================================
