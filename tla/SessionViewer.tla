----------------------------- MODULE SessionViewer -----------------------------
(***************************************************************************)
(* How a viewer finds the sessions: each botsitter process publishes the   *)
(* port of its logger in a file named by its pid, botsitter-logs reads     *)
(* those files, probes the ports, connects, and waits for file events when *)
(* it finds nothing.                                                       *)
(*                                                                         *)
(* Processes may be killed at any moment: they leave the file behind, and  *)
(* their pid and port are free for others.  A manifest is told by its pid, *)
(* its port and the process that wrote it, which `started_at` stands for.  *)
(***************************************************************************)
EXTENDS Integers, Sequences, FiniteSets

CONSTANTS
  Procs, Pids, Ports,   \* botsitter processes, process ids, ports
  NoPid, NoPort, None,  \* model values
  MaxFaults             \* bound: calls that fail on either side

ASSUME FaultsAssumption == MaxFaults \in Nat

Record == [pid : Pids, port : Ports, owner : Procs]

ASSUME NoneAssumption ==
  NoPid \notin Pids /\ NoPort \notin Ports /\ None \notin Procs /\ None \notin Record

VARIABLES
  proc,       \* the state of each process
  pid,        \* its process id
  port,       \* the port its logger listens on
  files,      \* the port file of each pid
  requested,  \* the viewer's argument: a pid, or NoPid for the menu
  events,     \* pids of the port files created or renamed, not yet received
  viewer,     \* where the viewer stands
  todo,       \* the files of the scan that are still to be read
  found,      \* the record that is being probed or connected to, or None
  sessions,   \* the sessions the scan has found
  peer,       \* the process the viewer is connected to, or None
  killed,     \* history: the processes that were killed
  gaveUp,     \* history: those whose stream failed on the viewer's side
  faults

procVars   == <<proc, pid, port, files, killed>>
viewerVars == <<requested, viewer, todo, found, sessions, peer, gaveUp>>
vars == <<procVars, viewerVars, events, faults>>

Init ==
  /\ proc = [p \in Procs |-> "new"]
  /\ pid = [p \in Procs |-> NoPid] /\ port = [p \in Procs |-> NoPort]
  /\ files = [i \in Pids |-> None]
  /\ requested \in Pids \cup {NoPid}
  /\ events = <<>> /\ viewer = "unwatched" /\ todo = {} /\ found = None
  /\ sessions = {} /\ peer = None
  /\ killed = {} /\ gaveUp = {} /\ faults = 0

Fault == faults < MaxFaults /\ faults' = faults + 1

\* The process is in memory, and keeps its pid.
Alive == {p \in Procs : proc[p] \notin {"new", "gone", "killed"}}

\* Its logger owns the listener: the kernel accepts connections to the port.
Listening == {p \in Alive : port[p] # NoPort}

At(number) == {p \in Listening : port[p] = number}

-------------------------------------------------------------------------------
\* A botsitter process.

\* Not the code: a file left by a killed process of that pid stays.
LaunchOver(p) ==
  /\ proc[p] = "new" /\ proc' = [proc EXCEPT ![p] = "launched"]
  /\ \E i \in Pids \ {pid[q] : q \in Alive} : pid' = [pid EXCEPT ![p] = i]
  /\ UNCHANGED <<port, files, killed, viewerVars, events, faults>>

\* app::run and init_logging up to the spawned task.
Launch(p) ==
  /\ proc[p] = "new" /\ proc' = [proc EXCEPT ![p] = "launched"]
  /\ \E i \in Pids \ {pid[q] : q \in Alive} :
       pid' = [pid EXCEPT ![p] = i] /\ files' = [files EXCEPT ![i] = None]
  /\ UNCHANGED <<port, killed, viewerVars, events, faults>>

\* TcpListener::bind to a port of the system's choice.
Bind(p) ==
  /\ proc[p] = "launched" /\ proc' = [proc EXCEPT ![p] = "bound"]
  /\ \E n \in Ports \ {port[q] : q \in Listening} : port' = [port EXCEPT ![p] = n]
  /\ UNCHANGED <<pid, files, killed, viewerVars, events, faults>>

\* Without a listener there is no logger.
BindFails(p) ==
  /\ proc[p] = "launched" /\ Fault /\ proc' = [proc EXCEPT ![p] = "ended"]
  /\ UNCHANGED <<pid, port, files, killed, viewerVars, events>>

Manifest(p) == [pid |-> pid[p], port |-> port[p], owner |-> p]

Announce(p) == events' = IF viewer = "unwatched" THEN events ELSE Append(events, pid[p])

\* write_manifest: the rename of a temporary file makes the manifest appear at
\* once and as a whole, and raises an event.  Temporary files are no port files,
\* and one that a killed process has left is passed by.
Publish(p) ==
  /\ proc[p] = "bound" /\ proc' = [proc EXCEPT ![p] = "serving"]
  /\ files' = [files EXCEPT ![pid[p]] = Manifest(p)] /\ Announce(p)
  /\ UNCHANGED <<pid, port, killed, viewerVars, faults>>

\* A call of write_manifest fails; the logger serves whoever knows its port.
PublishFails(p) ==
  /\ proc[p] = "bound" /\ Fault /\ proc' = [proc EXCEPT ![p] = "serving"]
  /\ UNCHANGED <<pid, port, files, killed, viewerVars, events>>

\* run_logger takes the Shutdown, or gives up on a file; the listener and the
\* clients are closed with it.
LoggerEnds(p) ==
  /\ proc[p] = "serving" /\ proc' = [proc EXCEPT ![p] = "ended"]
  /\ port' = [port EXCEPT ![p] = NoPort]
  /\ UNCHANGED <<pid, files, killed, viewerVars, events, faults>>

\* Not the code: the file is removed before the logger task is joined, which
\* then writes it.
LeaveUnjoined(p) ==
  /\ proc[p] \in {"bound", "ended"} /\ proc' = [proc EXCEPT ![p] = "gone"]
  /\ port' = [port EXCEPT ![p] = NoPort]
  /\ files' = [files EXCEPT ![pid[p]] = IF proc[p] = "bound" THEN Manifest(p) ELSE None]
  /\ UNCHANGED <<pid, killed, viewerVars, events, faults>>

\* shutdown_logging: the file is removed when the logger task has ended.
Leave(p) ==
  /\ proc[p] = "ended" /\ proc' = [proc EXCEPT ![p] = "gone"]
  /\ files' = [files EXCEPT ![pid[p]] = None]
  /\ UNCHANGED <<pid, port, killed, viewerVars, events, faults>>

Kill(p) ==
  /\ p \in Alive /\ proc' = [proc EXCEPT ![p] = "killed"]
  /\ port' = [port EXCEPT ![p] = NoPort] /\ killed' = killed \cup {p}
  /\ UNCHANGED <<pid, files, viewerVars, events, faults>>

-------------------------------------------------------------------------------
\* The viewer.
Goto(place) == viewer' = place /\ UNCHANGED <<requested, procVars>>

\* main watches the directory before it looks at it.
Watch ==
  /\ viewer = "unwatched" /\ Goto("look")
  /\ UNCHANGED <<todo, found, sessions, peer, gaveUp, events, faults>>

\* session_for_pid.  The file is a manifest of that pid or there is none.
ReadRequested ==
  /\ viewer = "look" /\ requested # NoPid
  /\ found' = files[requested]
  /\ Goto(IF files[requested] = None THEN "wait" ELSE "connect")
  /\ UNCHANGED <<todo, sessions, peer, gaveUp, events, faults>>

\* discover_sessions: the names in the directory.
ReadDirectory ==
  /\ viewer = "look" /\ requested = NoPid /\ Goto("read")
  /\ todo' = {i \in Pids : files[i] # None} /\ sessions' = {} /\ found' = None
  /\ UNCHANGED <<peer, gaveUp, events, faults>>

\* One of them is read; it may be gone, or be another process's by now.
ReadRecord ==
  /\ viewer = "read"
  /\ \E i \in todo : /\ todo' = todo \ {i} /\ found' = files[i]
                     /\ Goto(IF files[i] = None THEN "read" ELSE "probe")
  /\ UNCHANGED <<sessions, peer, gaveUp, events, faults>>

\* Only a session whose port takes a connection is listed.
Probe ==
  /\ viewer = "probe" /\ Goto("read") /\ found' = None
  /\ sessions' = IF At(found.port) # {} THEN sessions \cup {found} ELSE sessions
  /\ UNCHANGED <<todo, peer, gaveUp, events, faults>>

\* Not the code: a scan that finds nothing forgets the events so far.
ScanOverDrained ==
  /\ viewer = "read" /\ todo = {} /\ Goto(IF sessions = {} THEN "wait" ELSE "menu")
  /\ events' = IF sessions = {} THEN <<>> ELSE events
  /\ UNCHANGED <<todo, found, sessions, peer, gaveUp, faults>>

ScanOver ==
  /\ viewer = "read" /\ todo = {} /\ Goto(IF sessions = {} THEN "wait" ELSE "menu")
  /\ UNCHANGED <<todo, found, sessions, peer, gaveUp, events, faults>>

\* choose_session: the user takes a line of the menu, whenever it may be.
Choose ==
  /\ viewer = "menu" /\ Goto("connect") /\ found' \in sessions
  /\ UNCHANGED <<todo, sessions, peer, gaveUp, events, faults>>

\* Anything but the number of a line ends the viewer.
ChooseWrong ==
  /\ viewer = "menu" /\ Goto("done")
  /\ UNCHANGED <<todo, found, sessions, peer, gaveUp, events, faults>>

\* After a stream that failed: a new menu, or the wait for that pid.
Retry == IF requested = NoPid THEN "look" ELSE "wait"

\* Not the code: a refused connection is tried again with the same record.
ConnectAgain ==
  /\ viewer = "connect"
  /\ IF At(found.port) = {} THEN Goto("connect") /\ UNCHANGED peer
     ELSE Goto("stream") /\ peer' \in At(found.port)
  /\ UNCHANGED <<todo, found, sessions, gaveUp, events, faults>>

\* stream_session: whoever listens on the port now is the peer.
Connect ==
  /\ viewer = "connect"
  /\ IF At(found.port) = {} THEN Goto(Retry) /\ UNCHANGED peer
     ELSE Goto("stream") /\ peer' \in At(found.port)
  /\ UNCHANGED <<todo, found, sessions, gaveUp, events, faults>>

\* render_stream at the end of the stream, with a reset as an error, or when
\* the viewer's own output is closed.
StreamOver ==
  /\ viewer = "stream" /\ peer' = None
  /\ \/ port[peer] = NoPort /\ Goto("done") /\ UNCHANGED <<gaveUp, faults>>
     \/ peer \in killed /\ Goto(Retry) /\ UNCHANGED <<gaveUp, faults>>
     \/ Fault /\ (Goto(Retry) \/ Goto("done")) /\ gaveUp' = gaveUp \cup {peer}
  /\ UNCHANGED <<todo, found, sessions, events>>

\* wait_for_port_event: every event is looked at, none but the port files count.
WaitForPortEvent ==
  /\ viewer = "wait" /\ events # <<>>
  /\ events' = Tail(events)
  /\ Goto(IF requested \in {NoPid, Head(events)} THEN "look" ELSE "wait")
  /\ UNCHANGED <<todo, found, sessions, peer, gaveUp, faults>>

\* The watcher reports an error, or the directory cannot be read.
ViewerFails ==
  /\ viewer \in {"wait", "look"} /\ Fault /\ Goto("done")
  /\ UNCHANGED <<todo, found, sessions, peer, gaveUp, events>>

-------------------------------------------------------------------------------
Look   == Watch \/ ReadRequested \/ ReadDirectory \/ ReadRecord \/ Probe \/ ScanOver
Attach == Choose \/ ChooseWrong \/ Connect \/ StreamOver
Process(p) ==
  \/ Launch(p) \/ Bind(p) \/ Publish(p) \/ BindFails(p) \/ PublishFails(p)
  \/ LoggerEnds(p) \/ Leave(p) \/ Kill(p)

Next ==
  \/ Look \/ Attach \/ WaitForPortEvent \/ ViewerFails
  \/ \E p \in Procs : Process(p)

Spec == Init /\ [][Next]_vars

\* The viewer goes on unless the user keeps it waiting.
FairSpec == Spec /\ WF_vars(Look) /\ WF_vars(Connect) /\ WF_vars(WaitForPortEvent)

-------------------------------------------------------------------------------
TypeOK ==
  /\ proc \in [Procs -> {"new", "launched", "bound", "serving", "ended", "gone", "killed"}]
  /\ pid \in [Procs -> Pids \cup {NoPid}] /\ port \in [Procs -> Ports \cup {NoPort}]
  /\ files \in [Pids -> Record \cup {None}]
  /\ requested \in Pids \cup {NoPid} /\ events \in Seq(Pids)
  /\ viewer \in {"unwatched", "wait", "look", "read", "probe", "menu", "connect",
                 "stream", "done"}
  /\ todo \subseteq Pids /\ found \in Record \cup {None} /\ sessions \subseteq Record
  /\ peer \in Procs \cup {None} /\ killed \cup gaveUp \subseteq Procs /\ faults \in 0 .. MaxFaults
  /\ viewer \in {"probe", "connect"} => found # None
  /\ viewer = "stream" <=> peer # None

\* A session the viewer would list, or connect to: its file is there and its
\* port takes connections.
Visible(p) ==
  /\ p \in Listening /\ files[pid[p]] = Manifest(p)
  /\ requested \in {NoPid, pid[p]}

\* The viewer never sleeps over a session: while it waits without a pending
\* event there is none it could show, but for one whose stream failed on its own
\* side.  A manifest that appears between the scan and the wait is not missed.
WaitingSeesNone ==
  viewer = "wait" /\ events = <<>> => \A p \in Procs \ gaveUp : ~Visible(p)

\* A running process is never represented by the file a killed process of the
\* same pid has left, whose port may belong to another session by now.
OwnFileOnly ==
  \A p \in Alive : proc[p] # "new" => files[pid[p]] \in {None} \cup {r \in Record : r.owner = p}

\* A process that ended in order has left no file, although the logger task
\* may still write it when the child ends at once.
NoFileIsLeft ==
  \A p \in Procs : proc[p] = "gone" => \A i \in Pids : files[i] = None \/ files[i].owner # p

\* A session that stays there is found: the viewer is not left waiting for ever
\* for what it could show.
SessionIsFound ==
  \A p \in Procs : 
    <>[](Visible(p) /\ p \notin gaveUp) => []<>(viewer \in {"menu", "stream", "done"})
===============================================================================
