------------------------------ MODULE LiveClients ------------------------------
(***************************************************************************)
(* What run_logger sends to the viewers: the lines buffered before the     *)
(* first viewer came, the current status to each new one, and from then on *)
(* every line and every change of the status.  A viewer that does not take *)
(* a message in time is given up.                                          *)
(*                                                                         *)
(* A line and a status are told by their number.                           *)
(***************************************************************************)
EXTENDS Integers, SequencesExt

CONSTANTS
  MaxStartup,   \* max_startup_lines
  MaxAccepts, MaxLines, MaxStatus, MaxTimeouts   \* bounds

ASSUME StartupAssumption == MaxStartup \in Nat \ {0}
ASSUME BoundsAssumption == {MaxAccepts, MaxLines, MaxStatus, MaxTimeouts} \subseteq Nat

VARIABLES
  clients,    \* the viewers, in the order of their registration
  buffer,     \* initial_buffer
  hasFirst,   \* has_first_client_connected
  lines,      \* how many lines were taken from the queue
  status,     \* the value in the live_status channel
  unseen,     \* whether changed() is ready
  accepts,
  timeouts,   \* messages that were not taken in time
  registered  \* history: whether a viewer was ever registered

clientVars == <<clients, buffer, hasFirst, lines, status, unseen, accepts, timeouts, registered>>

ClientInit ==
  /\ clients = <<>> /\ buffer = <<>> /\ hasFirst = FALSE
  /\ lines = 0 /\ status = 0 /\ unseen = FALSE
  /\ accepts = 0 /\ timeouts = 0 /\ registered = FALSE

-------------------------------------------------------------------------------
\* A viewer: what it was sent, since which line it is registered, whether it is
\* the first, and whether it got all of every message.
Client(sent) ==
  [lines |-> sent, status |-> status, since |-> lines, first |-> ~registered, whole |-> TRUE]

Places(list) == [i \in 1 .. Len(list) |-> i]

\* Not the code: an index is off by the removals before it.
RemoveAscending(list, dead) ==
  FoldLeft(LAMBDA l, i : IF i \in dead /\ i <= Len(l) THEN RemoveAt(l, i) ELSE l, list, Places(list))

\* dead_clients, removed from the last to the first.
RemoveDead(list, dead) ==
  FoldLeft(LAMBDA l, i : IF i \in dead THEN RemoveAt(l, i) ELSE l, list, Reverse(Places(list)))

\* Every client is served but the dead ones, which may have got a part of the
\* message.
Send(served, dead) ==
  /\ timeouts' = timeouts + Cardinality(dead) /\ timeouts' <= MaxTimeouts
  /\ clients' = RemoveDead([i \in 1 .. Len(clients) |->
                              IF i \in dead THEN [clients[i] EXCEPT !.whole = FALSE]
                              ELSE served[i]], dead)

\* Not the code: accepting a viewer marks the status as seen.
AcceptSeen ==
  /\ accepts < MaxAccepts
  /\ accepts' = accepts + 1
  /\ clients' = Append(clients, Client(buffer)) /\ hasFirst' = TRUE /\ registered' = TRUE
  /\ unseen' = FALSE
  /\ UNCHANGED <<buffer, lines, status, timeouts>>

\* A viewer takes the startup lines and a frame with the status.
Accept ==
  /\ accepts < MaxAccepts
  /\ accepts' = accepts + 1
  /\ clients' = Append(clients, Client(buffer)) /\ hasFirst' = TRUE /\ registered' = TRUE
  /\ UNCHANGED <<buffer, lines, status, unseen, timeouts>>

\* Not the code: the viewer counts as the first although it is not registered.
AcceptFailsForGood ==
  /\ accepts < MaxAccepts /\ timeouts < MaxTimeouts
  /\ accepts' = accepts + 1 /\ timeouts' = timeouts + 1 /\ hasFirst' = TRUE
  /\ UNCHANGED <<clients, buffer, lines, status, unseen, registered>>

\* It does not take them in time, and is not registered.
AcceptFails ==
  /\ accepts < MaxAccepts /\ timeouts < MaxTimeouts
  /\ accepts' = accepts + 1 /\ timeouts' = timeouts + 1
  /\ UNCHANGED <<clients, buffer, hasFirst, lines, status, unseen, registered>>

\* send_replace, by the monitor or the parser at any moment.
ChangeStatus ==
  /\ status < MaxStatus
  /\ status' = status + 1 /\ unseen' = TRUE
  /\ UNCHANGED <<clients, buffer, hasFirst, lines, accepts, timeouts, registered>>

BroadcastStatus(dead) ==
  /\ unseen /\ unseen' = FALSE
  /\ Send([i \in 1 .. Len(clients) |-> [clients[i] EXCEPT !.status = status]], dead)
  /\ UNCHANGED <<buffer, hasFirst, lines, status, accepts, registered>>

\* push_startup_line: the oldest line makes room.
BufferLine ==
  /\ lines < MaxLines /\ ~hasFirst
  /\ lines' = lines + 1
  /\ buffer' = Append(IF Len(buffer) = MaxStartup THEN Tail(buffer) ELSE buffer, lines + 1)
  /\ UNCHANGED <<clients, hasFirst, status, unseen, accepts, timeouts, registered>>

BroadcastLine(dead) ==
  /\ lines < MaxLines /\ hasFirst
  /\ lines' = lines + 1
  /\ Send([i \in 1 .. Len(clients) |-> [clients[i] EXCEPT !.lines = Append(@, lines + 1)]], dead)
  /\ UNCHANGED <<buffer, hasFirst, status, unseen, accepts, registered>>

\* The other branches of the select!.
Serve ==
  \/ Accept \/ AcceptFails \/ ChangeStatus
  \/ \E dead \in SUBSET (1 .. Len(clients)) : BroadcastStatus(dead)

\* What becomes of a line before it is written to the file.
ShowLine ==
  \/ BufferLine
  \/ \E dead \in SUBSET (1 .. Len(clients)) : BroadcastLine(dead)

-------------------------------------------------------------------------------
\* When no change is waiting to be broadcast, every viewer shows the status in
\* force, whenever it came and whatever changed while it was accepted.
EveryViewerIsCurrent ==
  ~unseen => \A i \in 1 .. Len(clients) : clients[i].status = status

\* The lines from one number to another.
From(first, last) == [i \in 1 .. last - first + 1 |-> first + i - 1]

\* The startup lines are those before the first viewer came and no more than
\* MaxStartup; a viewer has every line since it is registered, and the first
\* one has no gap before that either.
NoLineIsSkipped ==
  \A i \in 1 .. Len(clients) :
    LET c == clients[i]
        start == IF c.since > MaxStartup THEN c.since - MaxStartup + 1 ELSE 1
    IN /\ c.first => c.lines = From(start, lines)
       /\ c.lines = buffer \o From(c.since + 1, lines)

\* Nothing more is sent to a viewer that got a part of a message only, and no
\* other viewer is given up in its place: whoever is registered got everything.
NoTornMessage ==
  \A i \in 1 .. Len(clients) : clients[i].whole
===============================================================================
