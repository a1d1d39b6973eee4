-------------------------- MODULE SessionViewerProofs --------------------------
(***************************************************************************)
(* The safety of SessionViewer, proved for any number of processes, pids   *)
(* and ports: what keeps the port files apart, and what a viewer knows of  *)
(* the sessions it could show at each of its steps.                        *)
(***************************************************************************)
EXTENDS SessionViewer, TLAPS

\* A process has its pid from its launch on and its port while its logger runs.
Lifecycle ==
  \A p \in Procs :
    /\ proc[p] = "new" <=> pid[p] = NoPid
    /\ proc[p] \in {"bound", "serving"} <=> port[p] # NoPort
    /\ proc[p] = "killed" <=> p \in killed

PidsDiffer  == \A p, q \in Alive : pid[p] = pid[q] => p = q
PortsDiffer == \A p, q \in Listening : port[p] = port[q] => p = q

\* A file was published by a process of its pid, which has not removed it.
FilesHaveOwners ==
  \A i \in Pids : files[i] # None =>
    /\ files[i].pid = i /\ pid[files[i].owner] = i
    /\ proc[files[i].owner] \in {"serving", "ended", "killed"}

Announced(p) == \E k \in 1 .. Len(events) : events[k] = pid[p]

\* A session that could be shown is announced by an event that is not yet
\* received, or the viewer's next steps come to it, or to another one.
Known(p) ==
  /\ viewer = "wait" => Announced(p)
  /\ viewer = "read" => Announced(p) \/ pid[p] \in todo \/ sessions # {}
  /\ viewer = "probe" =>
       Announced(p) \/ pid[p] \in todo \/ sessions # {} \/ found = Manifest(p)
  /\ viewer = "connect" /\ requested # NoPid => Announced(p) \/ found = Manifest(p)
  /\ viewer = "stream" /\ requested # NoPid => Announced(p) \/ peer = p

\* The directory is scanned for a menu only.
ScansForMenu == viewer \in {"read", "probe", "menu"} => requested = NoPid

ViewerKnows ==
  /\ ScansForMenu
  /\ \A p \in Procs \ gaveUp : Visible(p) => Known(p)

FilesInv == Lifecycle /\ PidsDiffer /\ PortsDiffer /\ FilesHaveOwners /\ OwnFileOnly

IInv == TypeOK /\ FilesInv /\ ViewerKnows

-------------------------------------------------------------------------------
(* Types.                                                                  *)

\* The steps of the viewer leave the processes and their files alone.
ViewerStep == Look \/ Attach \/ WaitForPortEvent \/ ViewerFails

\* The viewer changes nothing of the processes and their files.
LEMMA ViewerStutters == ViewerStep => UNCHANGED procVars
  BY DEF ViewerStep, Look, Attach, WaitForPortEvent, ViewerFails, Watch, ReadRequested,
         ReadDirectory, ReadRecord, Probe, ScanOver, Choose, ChooseWrong, Connect,
         StreamOver, Goto

\* A process announces a manifest of its own.
LEMMA ManifestType ==
  ASSUME TypeOK, Lifecycle, NEW p \in Procs, proc[p] \in {"bound", "serving"}
  PROVE  Manifest(p) \in Record /\ Manifest(p) # None
<1>1. pid[p] \in Pids /\ port[p] \in Ports
  BY DEF TypeOK, Lifecycle
<1> QED
  BY <1>1, NoneAssumption DEF Manifest, Record

\* What is written to the directory are such manifests.
LEMMA AnnounceType ==
  ASSUME TypeOK, Lifecycle, NEW p \in Procs, proc[p] = "bound", Announce(p)
  PROVE  events' \in Seq(Pids)
<1>1. pid[p] \in Pids
  BY DEF TypeOK, Lifecycle
<1> QED
  BY <1>1 DEF TypeOK, Announce

\* The steps of a process keep the types.
LEMMA ProcessTypes ==
  ASSUME TypeOK, Lifecycle, NEW p \in Procs, Process(p)
  PROVE  TypeOK' /\ Lifecycle'
<1> USE DEF TypeOK, Lifecycle, viewerVars
<1> USE NoneAssumption, FaultsAssumption
<1>1. CASE Launch(p)
  BY <1>1 DEF Launch
<1>2. CASE Bind(p)
  BY <1>2 DEF Bind
<1>3. CASE BindFails(p)
  BY <1>3 DEF BindFails, Fault
<1>4. CASE Publish(p)
  BY <1>4, ManifestType, AnnounceType DEF Publish
<1>5. CASE PublishFails(p)
  BY <1>5 DEF PublishFails, Fault
<1>6. CASE LoggerEnds(p)
  BY <1>6 DEF LoggerEnds
<1>7. CASE Leave(p)
  BY <1>7 DEF Leave
<1>8. CASE Kill(p)
  BY <1>8 DEF Kill, Alive
<1> QED
  BY <1>1, <1>2, <1>3, <1>4, <1>5, <1>6, <1>7, <1>8 DEF Process

\* So do the viewer's.
LEMMA ViewerTypes ==
  ASSUME TypeOK, Lifecycle, ViewerStep
  PROVE  TypeOK' /\ Lifecycle'
<1> USE NoneAssumption, FaultsAssumption
<1>1. UNCHANGED procVars
  BY ViewerStutters
<1>2. Lifecycle'
  BY <1>1 DEF Lifecycle, procVars
<1>3. TypeOK'
  <2> USE <1>1 DEF TypeOK, procVars, Goto
  <2>1. CASE Watch
    BY <2>1 DEF Watch
  <2>2. CASE ReadRequested
    BY <2>2 DEF ReadRequested
  <2>3. CASE ReadDirectory
    BY <2>3 DEF ReadDirectory
  <2>4. CASE ReadRecord
    BY <2>4 DEF ReadRecord
  <2>5. CASE Probe
    BY <2>5 DEF Probe
  <2>6. CASE ScanOver
    BY <2>6 DEF ScanOver
  <2>7. CASE Choose
    BY <2>7 DEF Choose
  <2>8. CASE ChooseWrong
    BY <2>8 DEF ChooseWrong
  <2>9. CASE Connect
    BY <2>9 DEF Connect, At, Listening, Alive, Retry
  <2>10. CASE StreamOver
    BY <2>10 DEF StreamOver, Fault, Retry
  <2>11. CASE WaitForPortEvent
    BY <2>11 DEF WaitForPortEvent
  <2>12. CASE ViewerFails
    BY <2>12 DEF ViewerFails, Fault
  <2> QED
    BY <2>1, <2>2, <2>3, <2>4, <2>5, <2>6, <2>7, <2>8, <2>9, <2>10, <2>11, <2>12
       DEF ViewerStep, Look, Attach
<1> QED
  BY <1>2, <1>3

-------------------------------------------------------------------------------
(* Files.                                                                  *)

\* Every step keeps the files with the processes that wrote them.
LEMMA FilesSteps ==
  ASSUME TypeOK, FilesInv, NEW p \in Procs, Process(p), Lifecycle'
  PROVE  FilesInv'
<1> USE DEF FilesInv, TypeOK, Lifecycle, PidsDiffer, PortsDiffer, FilesHaveOwners, OwnFileOnly,
            Alive, Listening
<1> USE NoneAssumption
<1>1. CASE Launch(p)
  BY <1>1 DEF Launch, Record
<1>2. CASE Bind(p)
  BY <1>2 DEF Bind, Record
<1>3. CASE BindFails(p)
  BY <1>3 DEF BindFails, Record
<1>4. CASE Publish(p)
  BY <1>4, ManifestType DEF Publish, Record, Manifest
<1>5. CASE PublishFails(p)
  BY <1>5 DEF PublishFails, Record
<1>6. CASE LoggerEnds(p)
  BY <1>6 DEF LoggerEnds, Record
<1>7. CASE Leave(p)
  BY <1>7 DEF Leave, Record
<1>8. CASE Kill(p)
  BY <1>8 DEF Kill, Record
<1> QED
  BY <1>1, <1>2, <1>3, <1>4, <1>5, <1>6, <1>7, <1>8 DEF Process

-------------------------------------------------------------------------------
(* What the viewer knows.                                                  *)

\* A session becomes visible only when its manifest is published.
LEMMA VisibleBefore ==
  ASSUME TypeOK, FilesInv, NEW p \in Procs, NEW q \in Procs,
         Process(p), ~Publish(p), Visible(q)'
  PROVE  Visible(q) /\ UNCHANGED <<pid[q], port[q]>> /\ UNCHANGED <<viewerVars, events>>
<1> USE DEF FilesInv, TypeOK, Lifecycle, FilesHaveOwners, Visible, Listening, Alive, Manifest,
            viewerVars, Record
<1> USE NoneAssumption
<1>1. CASE Launch(p)
  BY <1>1 DEF Launch
<1>2. CASE Bind(p)
  <2>1. port'[p] \in Ports /\ UNCHANGED <<pid, files>> /\ proc[p] = "launched"
    BY <1>2 DEF Bind
  <2>2. q # p
    <3> SUFFICES ASSUME q = p PROVE FALSE
      OBVIOUS
    <3>1. files[pid[p]] = Manifest(p)' /\ pid[p] \in Pids
      BY <1>2, <2>1 DEF Bind
    <3>2. Manifest(p)' # None /\ Manifest(p)'.owner = p
      BY <2>1, <3>1
    <3> QED
      BY <2>1, <3>1, <3>2
  <2> QED
    BY <1>2, <2>2 DEF Bind
<1>3. CASE BindFails(p)
  BY <1>3 DEF BindFails
<1>4. CASE PublishFails(p)
  BY <1>4 DEF PublishFails
<1>5. CASE LoggerEnds(p)
  BY <1>5 DEF LoggerEnds
<1>6. CASE Leave(p)
  BY <1>6 DEF Leave
<1>7. CASE Kill(p)
  BY <1>7 DEF Kill
<1> QED
  BY <1>1, <1>2, <1>3, <1>4, <1>5, <1>6, <1>7 DEF Process

\* An event that is appended is announced, and those before it still are.
LEMMA AppendAnnounces ==
  ASSUME events \in Seq(Pids), NEW i \in Pids, events' = Append(events, i)
  PROVE  /\ \E k \in 1 .. Len(events') : events'[k] = i
         /\ \A j \in Pids : (\E k \in 1 .. Len(events) : events[k] = j)
              => \E k \in 1 .. Len(events') : events'[k] = j
<1>1. Len(events') = Len(events) + 1 /\ events'[Len(events) + 1] = i
  OBVIOUS
<1>2. \A k \in 1 .. Len(events) : events'[k] = events[k]
  OBVIOUS
<1> QED
  BY <1>1, <1>2

\* A manifest that is published is one the viewer can yet see.
LEMMA PublishKnown ==
  ASSUME TypeOK, FilesInv, ViewerKnows, NEW p \in Procs, Publish(p)
  PROVE  ViewerKnows'
<1> SUFFICES ASSUME NEW q \in Procs \ gaveUp, Visible(q)'
             PROVE  Known(q)'
  BY DEF ViewerKnows, ScansForMenu, Publish, viewerVars
<1>1. UNCHANGED <<pid, port, viewerVars>>
  BY DEF Publish, viewerVars
<1>2. CASE viewer = "unwatched"
  BY <1>1, <1>2 DEF Known, viewerVars
<1>3. CASE viewer # "unwatched"
  <2>1. pid[p] \in Pids /\ events' = Append(events, pid[p])
    BY <1>3 DEF Publish, Announce, FilesInv, Lifecycle, TypeOK
  <2>2. CASE q = p
    BY <1>1, <2>1, <2>2, AppendAnnounces DEF Known, Announced, TypeOK, viewerVars
  <2>3. CASE q # p
    <3>1. Visible(q)
      BY <2>3, <1>1 DEF Publish, Visible, Listening, Alive, FilesInv, PidsDiffer, TypeOK, Manifest,
                        viewerVars
    <3>2. Known(q) /\ pid[q] \in Pids
      BY <3>1 DEF ViewerKnows, TypeOK, FilesInv, Lifecycle, Visible, Listening, Alive
    <3>3. Announced(q) => Announced(q)'
      BY <1>1, <2>1, <3>2, AppendAnnounces DEF Announced, TypeOK
    <3> QED
      BY <1>1, <3>2, <3>3 DEF Known, viewerVars, Manifest
  <2> QED
    BY <2>2, <2>3
<1> QED
  BY <1>2, <1>3

\* The other steps of a process hide nothing from the viewer.
LEMMA ProcessKnown ==
  ASSUME TypeOK, FilesInv, ViewerKnows, NEW p \in Procs, Process(p)
  PROVE  ViewerKnows'
<1>1. CASE Publish(p)
  BY <1>1, PublishKnown
<1>2. CASE ~Publish(p)
  <2>0. ScansForMenu'
    BY DEF ViewerKnows, ScansForMenu, Process, Launch, Bind, BindFails, Publish, PublishFails,
           LoggerEnds, Leave, Kill, viewerVars
  <2> SUFFICES ASSUME NEW q \in Procs, q \notin gaveUp', Visible(q)'
               PROVE  Known(q)'
    BY <2>0 DEF ViewerKnows
  <2>1. Visible(q) /\ UNCHANGED <<pid[q], port[q]>> /\ UNCHANGED <<viewerVars, events>>
    BY <1>2, VisibleBefore
  <2>2. Known(q)
    BY <2>1 DEF ViewerKnows, viewerVars
  <2> QED
    BY <2>1, <2>2 DEF Known, Announced, Manifest, viewerVars
<1> QED
  BY <1>1, <1>2

\* What the viewer has seen stays known to it.
LEMMA ViewerKnown ==
  ASSUME TypeOK, FilesInv, ViewerKnows, ViewerStep
  PROVE  ViewerKnows'
<1>1. UNCHANGED procVars
  BY ViewerStutters
<1>2. requested' = requested /\ gaveUp \subseteq gaveUp'
  BY DEF ViewerStep, Look, Attach, WaitForPortEvent, ViewerFails, Watch, ReadRequested,
         ReadDirectory, ReadRecord, Probe, ScanOver, Choose, ChooseWrong, Connect,
         StreamOver, Goto
<1>0. ScansForMenu'
  BY DEF ViewerKnows, ScansForMenu, ViewerStep, Look, Attach, WaitForPortEvent, ViewerFails,
         Watch, ReadRequested, ReadDirectory, ReadRecord, Probe, ScanOver, Choose, ChooseWrong,
         Connect, StreamOver, Goto, Retry
<1> SUFFICES ASSUME NEW p \in Procs, p \notin gaveUp', Visible(p)'
             PROVE  Known(p)'
  BY <1>0 DEF ViewerKnows
<1>3. Visible(p) /\ Known(p)
  BY <1>1, <1>2 DEF Visible, Listening, Alive, Manifest, procVars, ViewerKnows
<1>4. /\ p \in Listening /\ pid[p] \in Pids /\ files[pid[p]] = Manifest(p) /\ Manifest(p) # None
      /\ requested \in {NoPid, pid[p]} /\ Manifest(p).port = port[p] /\ p \notin killed
  BY <1>3, NoneAssumption DEF Visible, Listening, Alive, Manifest, FilesInv, Lifecycle, TypeOK, Record
<1> USE <1>1, <1>2, <1>3, <1>4 DEF Known, Announced, Goto, procVars, Manifest
<1>5. CASE Watch
  BY <1>5 DEF Watch
<1>6. CASE ReadRequested
  BY <1>6 DEF ReadRequested
<1>7. CASE ReadDirectory
  BY <1>7 DEF ReadDirectory
<1>8. CASE ReadRecord
  BY <1>8 DEF ReadRecord
<1>9. CASE Probe
  BY <1>9 DEF Probe, At
<1>10. CASE ScanOver
  BY <1>10 DEF ScanOver
<1>11. CASE Choose \/ ChooseWrong
  BY <1>11 DEF Choose, ChooseWrong, ViewerKnows, ScansForMenu
<1>12. CASE Connect
  BY <1>12 DEF Connect, At, Retry, FilesInv, PortsDiffer
<1>13. CASE StreamOver
  BY <1>13 DEF StreamOver, Retry
<1>14. CASE WaitForPortEvent
  <2>1. /\ viewer = "wait" /\ events \in Seq(Pids) /\ events # <<>> /\ events' = Tail(events)
        /\ viewer' = IF requested \in {NoPid, Head(events)} THEN "look" ELSE "wait"
    BY <1>14 DEF WaitForPortEvent, TypeOK
  <2>2. CASE viewer' = "look"
    BY <2>2
  <2>3. CASE viewer' = "wait"
    <3>1. PICK k \in 1 .. Len(events) : events[k] = pid[p]
      BY <2>1
    <3>2. k # 1
      BY <2>1, <2>3, <3>1
    <3>3. k - 1 \in 1 .. Len(events') /\ events'[k - 1] = events[k]
      BY <2>1, <3>2
    <3> QED
      BY <2>3, <3>1, <3>3
  <2> QED
    BY <2>1, <2>2, <2>3
<1>15. CASE ViewerFails
  BY <1>15 DEF ViewerFails
<1> QED
  BY <1>5, <1>6, <1>7, <1>8, <1>9, <1>10, <1>11, <1>12, <1>13, <1>14, <1>15
     DEF ViewerStep, Look, Attach

-------------------------------------------------------------------------------
(* The invariant, and what follows from it.                                *)

\* It holds of the empty directory.
LEMMA InitInvariant == Init => IInv
  BY NoneAssumption, FaultsAssumption
     DEF Init, IInv, TypeOK, FilesInv, Lifecycle, PidsDiffer, PortsDiffer, FilesHaveOwners,
         OwnFileOnly, ViewerKnows, ScansForMenu, Visible, Listening, Alive

\* Every step keeps it.
LEMMA StepInvariant == IInv /\ [Next]_vars => IInv'
<1> SUFFICES ASSUME IInv, [Next]_vars PROVE IInv'
  OBVIOUS
<1>1. ASSUME NEW p \in Procs, Process(p) PROVE IInv'
  BY <1>1, ProcessTypes, FilesSteps, ProcessKnown DEF IInv, FilesInv
<1>2. CASE ViewerStep
  <2>1. TypeOK' /\ Lifecycle' /\ ViewerKnows'
    BY <1>2, ViewerTypes, ViewerKnown DEF IInv, FilesInv
  <2>2. (PidsDiffer /\ PortsDiffer /\ FilesHaveOwners /\ OwnFileOnly)'
    BY <1>2, ViewerStutters
       DEF IInv, FilesInv, procVars, PidsDiffer, PortsDiffer, FilesHaveOwners, OwnFileOnly,
           Alive, Listening
  <2> QED
    BY <2>1, <2>2 DEF IInv, FilesInv
<1>3. CASE UNCHANGED vars
  BY <1>3 DEF vars, procVars, viewerVars, IInv, TypeOK, FilesInv, Lifecycle, PidsDiffer,
              PortsDiffer, FilesHaveOwners, OwnFileOnly, ViewerKnows, ScansForMenu, Known,
              Announced, Visible, Listening, Alive, Manifest
<1> QED
  BY <1>1, <1>2, <1>3 DEF Next, ViewerStep

\* The inductive invariant holds in every reachable state.
THEOREM InvariantHolds == Spec => []IInv
  BY InitInvariant, StepInvariant, PTL DEF Spec

\* A process and its viewer stay in the states the code knows, whoever fails.
THEOREM TypeCorrect == Spec => []TypeOK
<1>1. IInv => TypeOK
  BY DEF IInv
<1> QED
  BY <1>1, InvariantHolds, PTL

\* A running process is never represented by the file that a killed process of
\* its pid has left, since its start removes that file before it has a port.
THEOREM NeverAnothersFile == Spec => []OwnFileOnly
<1>1. IInv => OwnFileOnly
  BY DEF IInv, FilesInv
<1> QED
  BY <1>1, InvariantHolds, PTL

\* A process that ended in order has left no port file: what it published is
\* removed after the logger task, the only one to publish, has ended.
THEOREM FilesAreRemoved == Spec => []NoFileIsLeft
<1>1. IInv => NoFileIsLeft
  BY DEF IInv, FilesInv, FilesHaveOwners, NoFileIsLeft, TypeOK
<1> QED
  BY <1>1, InvariantHolds, PTL

\* A viewer that waits with no event pending has no session it could show: the
\* watcher is there before the scan, so that a manifest the scan has missed has
\* left an event.
THEOREM NeverSleepsOverASession == Spec => []WaitingSeesNone
<1>1. IInv => WaitingSeesNone
  BY DEF IInv, ViewerKnows, Known, Announced, WaitingSeesNone
<1> QED
  BY <1>1, InvariantHolds, PTL

===============================================================================
