------------------------------- MODULE LogQueue -------------------------------
(***************************************************************************)
(* The bounded queue before the logger: threads and tasks put lines into   *)
(* it without waiting, lines that find it full are counted, and the count  *)
(* goes out with the next line or with the shutdown.                       *)
(*                                                                         *)
(* A message is [lines, dropped]: 1 for a line and 0 for the shutdown, and *)
(* the number of dropped lines it reports.                                 *)
(***************************************************************************)
EXTENDS Integers, SequencesExt

CONSTANTS
  Producers,   \* whoever calls log_to_file
  Capacity,    \* places of the channel
  MaxOffers    \* bound: calls of log_to_file

ASSUME CapacityAssumption == Capacity \in Nat \ {0}
ASSUME BoundAssumption == MaxOffers \in Nat

Main == "main"

ASSUME ProducersAssumption == IsFiniteSet(Producers) /\ Main \notin Producers

VARIABLES
  at,         \* where a producer stands in try_queue_line, and the main task
              \* in shutdown_logging
  held,       \* the count that a producer, or the main task, has taken
  queue,      \* messages sent
  dropped,    \* DROPPED_LOG_MESSAGES
  logger,     \* "running", "ended" by the shutdown, or "failed"
  written,    \* lines written
  reported,   \* dropped lines whose number was written
  offers,     \* calls of log_to_file
  rejected,   \* calls after the logger had returned
  due         \* history: lines sent when the shutdown began

vars == <<at, held, queue, dropped, logger, written, reported, offers, rejected, due>>

Init ==
  /\ at = [p \in Producers \cup {Main} |-> "idle"]
  /\ held = [p \in Producers \cup {Main} |-> 0]
  /\ queue = <<>> /\ dropped = 0 /\ logger = "running"
  /\ written = 0 /\ reported = 0 /\ offers = 0 /\ rejected = 0 /\ due = 0

-------------------------------------------------------------------------------
Waiting(places) == {p \in Producers : at[p] \in places}

\* The places that are free; a waiting send() has its turn before try_reserve().
Free == Capacity - Len(queue) - Cardinality(Waiting({"reserved", "swapped"}))
FreeForProducers == Free - (IF at[Main] = "sending" THEN 1 ELSE 0)

\* try_reserve()
Reserve(p) ==
  /\ at[p] = "idle" /\ offers < MaxOffers
  /\ offers' = offers + 1
  /\ \/ logger # "running" /\ rejected' = rejected + 1 /\ UNCHANGED at
     \/ /\ logger = "running" /\ UNCHANGED rejected
        /\ at' = [at EXCEPT ![p] = IF FreeForProducers > 0 THEN "reserved" ELSE "full"]
  /\ UNCHANGED <<held, queue, dropped, logger, written, reported, due>>

CountDropped(p) ==
  /\ at[p] = "full" /\ at' = [at EXCEPT ![p] = "idle"]
  /\ dropped' = dropped + 1
  /\ UNCHANGED <<held, queue, logger, written, reported, offers, rejected, due>>

\* Not the code: the count is read but not reset.
ReadCount(p) ==
  /\ at[p] = "reserved" /\ at' = [at EXCEPT ![p] = "swapped"]
  /\ held' = [held EXCEPT ![p] = dropped]
  /\ UNCHANGED <<queue, dropped, logger, written, reported, offers, rejected, due>>

\* dropped.swap(0)
SwapCount(p) ==
  /\ at[p] = "reserved" /\ at' = [at EXCEPT ![p] = "swapped"]
  /\ held' = [held EXCEPT ![p] = dropped] /\ dropped' = 0
  /\ UNCHANGED <<queue, logger, written, reported, offers, rejected, due>>

\* permit.send()
SendLine(p) ==
  /\ at[p] = "swapped" /\ at' = [at EXCEPT ![p] = "idle"]
  /\ queue' = Append(queue, [lines |-> 1, dropped |-> held[p]])
  /\ held' = [held EXCEPT ![p] = 0]
  /\ UNCHANGED <<dropped, logger, written, reported, offers, rejected, due>>

LinesQueued == SumFunction([i \in 1 .. Len(queue) |-> queue[i].lines])

\* shutdown_logging takes the count and then sends the shutdown, which may wait.
BeginShutdown ==
  /\ at[Main] = "idle" /\ at' = [at EXCEPT ![Main] = "sending"]
  /\ held' = [held EXCEPT ![Main] = dropped] /\ dropped' = 0
  /\ due' = written + LinesQueued
  /\ UNCHANGED <<queue, logger, written, reported, offers, rejected>>

SendShutdown ==
  /\ at[Main] = "sending" /\ logger = "running" /\ Free > 0
  /\ at' = [at EXCEPT ![Main] = "joining"]
  /\ queue' = Append(queue, [lines |-> 0, dropped |-> held[Main]])
  /\ held' = [held EXCEPT ![Main] = 0]
  /\ UNCHANGED <<dropped, logger, written, reported, offers, rejected, due>>

\* The logger has returned: the count is put back.
ShutdownRefused ==
  /\ at[Main] = "sending" /\ logger # "running"
  /\ at' = [at EXCEPT ![Main] = "joining"]
  /\ dropped' = dropped + held[Main] /\ held' = [held EXCEPT ![Main] = 0]
  /\ UNCHANGED <<queue, logger, written, reported, offers, rejected, due>>

\* Not the code: nobody waits for the logger.
JoinNobody ==
  /\ at[Main] = "joining" /\ at' = [at EXCEPT ![Main] = "finished"]
  /\ UNCHANGED <<held, queue, dropped, logger, written, reported, offers, rejected, due>>

\* handle.await
Join ==
  /\ at[Main] = "joining" /\ logger # "running"
  /\ at' = [at EXCEPT ![Main] = "finished"]
  /\ UNCHANGED <<held, queue, dropped, logger, written, reported, offers, rejected, due>>

IsShutdown(message) == message.lines = 0

\* Not the code: the loop goes on after the shutdown.
ConsumeOn ==
  /\ logger = "running" /\ queue # <<>>
  /\ queue' = Tail(queue)
  /\ written' = written + Head(queue).lines /\ reported' = reported + Head(queue).dropped
  /\ UNCHANGED <<at, held, dropped, logger, offers, rejected, due>>

\* log_rx.recv(), and the line is written.
Consume ==
  /\ logger = "running" /\ queue # <<>>
  /\ queue' = Tail(queue)
  /\ written' = written + Head(queue).lines /\ reported' = reported + Head(queue).dropped
  /\ logger' = IF IsShutdown(Head(queue)) THEN "ended" ELSE logger
  /\ UNCHANGED <<at, held, dropped, offers, rejected, due>>

\* The listener cannot be bound, or the log not opened or written.
LoggerFails ==
  /\ logger = "running" /\ logger' = "failed"
  /\ UNCHANGED <<at, held, queue, dropped, written, reported, offers, rejected, due>>

Produce(p) == CountDropped(p) \/ SwapCount(p) \/ SendLine(p)

Shutdown == SendShutdown \/ ShutdownRefused \/ Join

Next ==
  \/ \E p \in Producers : Reserve(p) \/ Produce(p)
  \/ BeginShutdown \/ Shutdown \/ Consume \/ LoggerFails

\* The runtime polls a task that is ready; a thread in try_queue_line goes on.
Spec ==
  /\ Init /\ [][Next]_vars
  /\ WF_vars(Shutdown) /\ WF_vars(Consume)
  /\ \A p \in Producers : WF_vars(Produce(p))

-------------------------------------------------------------------------------
DroppedQueued == SumFunction([i \in 1 .. Len(queue) |-> queue[i].dropped])

\* The dropped lines whose number somebody holds or will report.
Known == reported + dropped + DroppedQueued + SumFunction(held)

\* Every line offered is written, on its way, counted exactly once as dropped,
\* or came after the logger's end: concurrent producers lose no count and
\* report none twice.
EveryLineIsCounted ==
  offers = written + LinesQueued + Cardinality(Waiting({"reserved", "swapped", "full"}))
             + Known + rejected

\* shutdown_logging returns only after every line that was in the queue when it
\* began is written.
PendingAreWritten ==
  at[Main] = "finished" /\ logger # "failed" => written >= due

\* However full the queue is, and whoever goes on logging, the shutdown ends.
ShutdownEnds == at[Main] = "sending" ~> at[Main] = "finished"
===============================================================================
