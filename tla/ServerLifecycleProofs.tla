------------------------ MODULE ServerLifecycleProofs ------------------------
(***************************************************************************)
(* ServerLifecycle for any number of launches, names and hooks: servers    *)
(* print no request twice, and where hooks keep away from the stop signals *)
(* two of them never read one name and the last leaves no pipe.            *)
(***************************************************************************)
EXTENDS ServerLifecycle, FifoLemmas

Procs == Launches \cup Hooks \cup {Stopper}

-----------------------------------------------------------------------------
(* Types *)

LEMMA InitTypeOK == Init => TypeOK
  <1> SUFFICES ASSUME Init PROVE TypeOK
    OBVIOUS
  <1>1. \A k \in Launches : fifo[k] \in FifoType(Procs, Pieces)
    BY FifoEmpty DEF Init
  <1>2. PICK k \in Launches : TRUE
    BY LifecycleAssumption
  <1>3. [what |-> "launch", launch |-> k] \in Jobs
    BY <1>2 DEF Jobs
  <1>4. job \in Jobs /\ stopperFd \in Launches
    BY <1>2, <1>3 DEF Init
  <1>5. /\ main \in [Launches -> MainState] /\ stopperPc \in StopperPc
        /\ serverPc \in [Launches -> ServerPc] /\ hookPc \in [Hooks -> HookPc]
    BY DEF Init, MainState, StopperPc, ServerPc, HookPc
  <1>6. /\ hookFd \in [Hooks -> Launches]
        /\ serverFd \in [Launches -> Launches]
        /\ times \in [Hooks -> 0..2]
    BY LifecycleAssumption DEF Init
  <1>7. /\ path \in [Names -> Launches \cup {"none", "file"}]
        /\ file \in [Names -> SUBSET Pieces]
        /\ line \in [Launches -> SUBSET Pieces]
    BY DEF Init
  <1>8. /\ setting \in Settings
        /\ DOMAIN fifo = Launches
        /\ events \in Seq(Launches)
    BY DEF Init
  <1> QED
    BY <1>1, <1>4, <1>5, <1>6, <1>7, <1>8 DEF TypeOK, Procs

\* Only one pipe changes at a time.
LEMMA SetFifoType ==
    ASSUME TypeOK, NEW p \in Launches, NEW f \in FifoType(Procs, Pieces),
           SetFifo(p, f)
    PROVE  /\ \A k \in Launches : fifo'[k] \in FifoType(Procs, Pieces)
           /\ DOMAIN fifo' = Launches
           /\ fifo'[p] = f
           /\ \A k \in Launches \ {p} : fifo'[k] = fifo[k]
  BY DEF SetFifo, TypeOK, Procs

LEMMA SetPathType ==
    ASSUME TypeOK, NEW n \in Names, NEW what \in Launches \cup {"none", "file"},
           SetPath(n, what)
    PROVE  /\ path' \in [Names -> Launches \cup {"none", "file"}]
           /\ path'[n] = what
           /\ \A m \in Names \ {n} : path'[m] = path[m]
  BY DEF SetPath, TypeOK

LEMMA NameOfType ==
    ASSUME TypeOK
    PROVE  /\ \A k \in Launches : NameOf(k) \in Names
           /\ \A h \in Hooks : LaunchOf[h] \in Launches /\ QueueOf(h) \in Names
           /\ Target \in Names
           /\ job.launch \in Launches
           /\ job.what \in {"launch", "end"}
  <1>1. setting.nameOf \in [Launches -> Names]
    BY LifecycleAssumption DEF TypeOK
  <1> QED
    BY <1>1, LifecycleAssumption DEF TypeOK, NameOf, QueueOf, Target, Jobs

\* The stopper's part of a type-correct step.
LEMMA StopperEndsType ==
    ASSUME TypeOK, NEW from, StopperEnds(from)
    PROVE  /\ stopperPc' \in StopperPc
           /\ serverPc' \in [Launches -> ServerPc]
           /\ main' \in [Launches -> MainState]
           /\ UNCHANGED <<setting, events, job, line, serverFd, times,
                          hookVars>>
  BY NameOfType
  DEF StopperEnds, TypeOK, StopperPc, ServerPc, MainState, hookVars

LEMMA StopperGoesType ==
    ASSUME TypeOK, NEW from, NEW to \in StopperPc, StopperGoes(from, to)
    PROVE  /\ stopperPc' \in StopperPc
           /\ UNCHANGED <<setting, events, job, main, times, serverVars,
                          hookVars>>
  BY DEF StopperGoes, TypeOK

LEMMA NextTypeOK == TypeOK /\ [Next]_vars => TypeOK'
  <1> SUFFICES ASSUME TypeOK, [Next]_vars PROVE TypeOK'
    OBVIOUS
  <1> USE LifecycleAssumption, NameOfType
  <1>0. /\ \A k \in Launches : fifo[k] \in FifoType(Procs, Pieces)
        /\ Launches \subseteq Procs /\ Hooks \subseteq Procs
        /\ Stopper \in Procs
        /\ Stop \in Pieces /\ Hooks \subseteq Pieces
    BY DEF TypeOK, Procs, Pieces
  <1>1. ASSUME NEW k \in Launches, LaunchDebugeeConfig(k)
        PROVE  TypeOK'
    BY <1>1
    DEF LaunchDebugeeConfig, BeginStop, TypeOK, StopperPc, Jobs, fsVars,
        serverVars, hookVars
  <1>2. ASSUME NEW k \in Launches, MainEnds(k)
        PROVE  TypeOK'
    <2>1. /\ main' \in [Launches -> MainState]
          /\ events' \in Seq(Launches)
      BY <1>2 DEF MainEnds, TypeOK, MainState
    <2> QED
      BY <1>2, <2>1 DEF MainEnds, TypeOK, fsVars, serverVars, hookVars
  <1>3. CASE OnTerminate
    <2>1. Head(events) \in Launches /\ Tail(events) \in Seq(Launches)
      BY <1>3 DEF OnTerminate, TypeOK
    <2>2. job' \in Jobs /\ stopperPc' \in StopperPc /\ events' \in Seq(Launches)
      BY <1>3, <2>1 DEF OnTerminate, BeginStop, Jobs, StopperPc
    <2> QED
      BY <1>3, <2>2
      DEF OnTerminate, BeginStop, TypeOK, fsVars, serverVars, hookVars
  <1>4. CASE StopCheck
    BY <1>4, StopperEndsType, StopperGoesType
    DEF StopCheck, TypeOK, StopperPc, StopperEnds, StopperGoes, serverVars,
        hookVars, fsVars
  <1>5. CASE StopOpen
    <2>1. CASE path[Target] \in Launches
      <3>1. OpenForWriting(fifo[path[Target]], Stopper)
              \in FifoType(Procs, Pieces)
        BY <1>0, <2>1, FifoOpenForWriting
      <3>2. /\ \A k \in Launches : fifo'[k] \in FifoType(Procs, Pieces)
            /\ DOMAIN fifo' = Launches
        BY <1>5, <2>1, <3>1, SetFifoType DEF StopOpen
      <3> QED
        BY <1>5, <2>1, <3>2
        DEF StopOpen, StopperGoes, StopperPc, TypeOK, Procs, serverVars,
            hookVars
    <2>2. CASE path[Target] \notin Launches
      <3>1. StopperEnds("open") /\ SetPath(Target, "file")
        BY <1>5, <2>2 DEF StopOpen
      <3>2. path' \in [Names -> Launches \cup {"none", "file"}]
        BY <3>1, SetPathType
      <3>3. file' \in [Names -> SUBSET Pieces]
        BY <1>0, <1>5, <2>2 DEF StopOpen, TypeOK
      <3> QED
        BY <1>5, <2>2, <3>1, <3>2, <3>3, StopperEndsType
        DEF StopOpen, TypeOK, hookVars
    <2> QED
      BY <2>1, <2>2
  <1>6. CASE StopWrite
    <2>1. /\ WritePiece(fifo[stopperFd], Stop) \in FifoType(Procs, Pieces)
          /\ CloseEnd(fifo[stopperFd], Stopper) \in FifoType(Procs, Pieces)
      BY <1>0, FifoWritePiece, FifoCloseEnd DEF TypeOK
    <2>2. /\ \A k \in Launches : fifo'[k] \in FifoType(Procs, Pieces)
          /\ DOMAIN fifo' = Launches
      BY <1>6, <2>1, SetFifoType DEF StopWrite, TypeOK
    <2>3. CASE StopperGoes("write", "close")
      BY <1>6, <2>2, <2>3
      DEF StopWrite, StopperGoes, StopperPc, TypeOK, Procs, serverVars, hookVars
    <2>4. CASE StopperEnds("write")
      BY <1>6, <2>2, <2>4, StopperEndsType
      DEF StopWrite, StopperEnds, TypeOK, Procs, hookVars
    <2> QED
      BY <1>6, <2>3, <2>4 DEF StopWrite
  <1>7. CASE StopClose
    <2>1. CloseEnd(fifo[stopperFd], Stopper) \in FifoType(Procs, Pieces)
      BY <1>0, FifoCloseEnd DEF TypeOK
    <2>2. /\ \A k \in Launches : fifo'[k] \in FifoType(Procs, Pieces)
          /\ DOMAIN fifo' = Launches
      BY <1>7, <2>1, SetFifoType DEF StopClose, TypeOK
    <2> QED
      BY <1>7, <2>2, StopperEndsType DEF StopClose, TypeOK, Procs, hookVars
  <1>8. CASE StopTimeout
    <2>1. CloseEnd(fifo[stopperFd], Stopper) \in FifoType(Procs, Pieces)
      BY <1>0, FifoCloseEnd DEF TypeOK
    <2>2. /\ \A k \in Launches : fifo'[k] \in FifoType(Procs, Pieces)
          /\ DOMAIN fifo' = Launches
      BY <1>8, <2>1, SetFifoType DEF StopTimeout, TypeOK
    <2> QED
      BY <1>8, <2>2
      DEF StopTimeout, StopperGoes, StopperPc, TypeOK, Procs, serverVars,
          hookVars
  <1>9. CASE StopRemove
    <2>1. path' \in [Names -> Launches \cup {"none", "file"}]
      BY <1>9, SetPathType DEF StopRemove
    <2> QED
      BY <1>9, <2>1, StopperEndsType DEF StopRemove, TypeOK, hookVars
  <1>10. ASSUME NEW k \in Launches, ServerStep(k)
         PROVE  TypeOK'
    <2> USE DEF ServerPc
    <2>1. serverFd[k] \in Launches /\ NameOf(k) \in Names
      BY DEF TypeOK
    <2>2. CASE MakePipe(k)
      <3>1. \/ UNCHANGED <<path, fifo>>
            \/ SetPath(NameOf(k), k) /\ SetFifo(k, EmptyFifo)
        BY <2>2 DEF MakePipe
      <3>2. /\ path' \in [Names -> Launches \cup {"none", "file"}]
            /\ \A j \in Launches : fifo'[j] \in FifoType(Procs, Pieces)
            /\ DOMAIN fifo' = Launches
        BY <1>0, <2>1, <3>1, SetPathType, SetFifoType, FifoEmpty DEF TypeOK
      <3> QED
        BY <2>2, <3>2
        DEF MakePipe, ServerGoes, ServerOnly, TypeOK, Procs, stopperVars,
            hookVars
    <2>3. CASE OpenPipe(k)
      <3>1. /\ \A j \in Launches : fifo'[j] \in FifoType(Procs, Pieces)
            /\ DOMAIN fifo' = Launches
        <4>1. CASE UNCHANGED fifo
          BY <1>0, <4>1 DEF TypeOK
        <4>2. ASSUME path[NameOf(k)] \in Launches,
                     SetFifo(path[NameOf(k)],
                             OpenForReading(fifo[path[NameOf(k)]], k))
              PROVE  /\ \A j \in Launches : fifo'[j] \in FifoType(Procs, Pieces)
                     /\ DOMAIN fifo' = Launches
          <5>1. OpenForReading(fifo[path[NameOf(k)]], k)
                  \in FifoType(Procs, Pieces)
            BY <1>0, <4>2, FifoOpenForReading
          <5>2. \A p \in Launches, f \in FifoType(Procs, Pieces) :
                  SetFifo(p, f) =>
                    /\ \A j \in Launches : fifo'[j] \in FifoType(Procs, Pieces)
                    /\ DOMAIN fifo' = Launches
            BY SetFifoType
          <5> QED
            BY <4>2, <5>1, <5>2
        <4> QED
          BY <2>3, <4>1, <4>2 DEF OpenPipe
      <3>2. /\ serverPc' \in [Launches -> ServerPc]
            /\ serverFd' \in [Launches -> Launches]
            /\ line' \in [Launches -> SUBSET Pieces]
        BY <2>1, <2>3 DEF OpenPipe, ServerGoes, TypeOK
      <3> QED
        BY <2>3, <3>1, <3>2
        DEF OpenPipe, ServerOnly, TypeOK, Procs, stopperVars, hookVars
    <2>4. CASE ReadData(k)
      <3>1. /\ TakeAll(fifo[serverFd[k]]) \in FifoType(Procs, Pieces)
            /\ fifo[serverFd[k]].data \subseteq Pieces
        BY <1>0, <2>1, FifoTakeAll, FifoFields
      <3>2. /\ \A j \in Launches : fifo'[j] \in FifoType(Procs, Pieces)
            /\ DOMAIN fifo' = Launches
        BY <2>1, <2>4, <3>1, SetFifoType DEF ReadData
      <3> QED
        BY <2>4, <3>1, <3>2
        DEF ReadData, ServerOnly, TypeOK, Procs, stopperVars, hookVars
    <2>5. CASE ReadEof(k)
      BY <2>5
      DEF ReadEof, ServerGoes, ServerOnly, TypeOK, fsVars, stopperVars, hookVars
    <2>6. CASE ClosePipe(k)
      <3>1. CloseEnd(fifo[serverFd[k]], k) \in FifoType(Procs, Pieces)
        BY <1>0, <2>1, FifoCloseEnd
      <3>2. /\ \A j \in Launches : fifo'[j] \in FifoType(Procs, Pieces)
            /\ DOMAIN fifo' = Launches
        BY <2>1, <2>6, <3>1, SetFifoType DEF ClosePipe
      <3> QED
        BY <2>6, <3>2
        DEF ClosePipe, ServerGoes, ServerOnly, TypeOK, Procs, stopperVars,
            hookVars
    <2>7. CASE PrintLine(k)
      <3>1. times' \in [Hooks -> 0..2]
        BY <2>7 DEF PrintLine, TypeOK
      <3> QED
        BY <2>7, <3>1
        DEF PrintLine, ServerGoes, ServerOnly, TypeOK, fsVars, stopperVars,
            hookVars
    <2>8. CASE ExitServer(k)
      <3>1. path' \in [Names -> Launches \cup {"none", "file"}]
        BY <2>1, <2>8, SetPathType DEF ExitServer
      <3> QED
        BY <2>8, <3>1
        DEF ExitServer, ServerGoes, ServerOnly, TypeOK, stopperVars, hookVars
    <2> QED
      BY <1>10, <2>2, <2>3, <2>4, <2>5, <2>6, <2>7, <2>8 DEF ServerStep
  <1>11. ASSUME NEW h \in Hooks, OpenQueue(h)
         PROVE  TypeOK'
    <2>1. CASE path[QueueOf(h)] \in Launches
      <3>1. OpenForWriting(fifo[path[QueueOf(h)]], h)
              \in FifoType(Procs, Pieces)
        BY <1>0, <2>1, FifoOpenForWriting
      <3>2. /\ \A k \in Launches : fifo'[k] \in FifoType(Procs, Pieces)
            /\ DOMAIN fifo' = Launches
        BY <1>11, <2>1, <3>1, SetFifoType DEF OpenQueue
      <3> QED
        BY <1>11, <2>1, <3>2
        DEF OpenQueue, HookGoes, HookOnly, HookPc, TypeOK, Procs, stopperVars,
            serverVars
    <2>2. CASE path[QueueOf(h)] \notin Launches
      <3>1. path' \in [Names -> Launches \cup {"none", "file"}]
        BY <1>11, <2>2, SetPathType DEF OpenQueue
      <3>2. file' \in [Names -> SUBSET Pieces]
        BY <1>0, <1>11, <2>2 DEF OpenQueue, TypeOK
      <3> QED
        BY <1>11, <2>2, <3>1, <3>2
        DEF OpenQueue, HookGoes, HookOnly, HookPc, TypeOK, stopperVars,
            serverVars
    <2> QED
      BY <2>1, <2>2
  <1>12. ASSUME NEW h \in Hooks, WriteQueue(h) \/ CloseQueue(h)
         PROVE  TypeOK'
    <2>1. hookFd[h] \in Launches
      BY DEF TypeOK
    <2>2. /\ WritePiece(fifo[hookFd[h]], h) \in FifoType(Procs, Pieces)
          /\ CloseEnd(fifo[hookFd[h]], h) \in FifoType(Procs, Pieces)
      BY <1>0, <2>1, FifoWritePiece, FifoCloseEnd
    <2>3. /\ \A k \in Launches : fifo'[k] \in FifoType(Procs, Pieces)
          /\ DOMAIN fifo' = Launches
      BY <1>12, <2>1, <2>2, SetFifoType DEF WriteQueue, CloseQueue
    <2>4. hookPc' \in [Hooks -> HookPc]
      BY <1>12 DEF WriteQueue, CloseQueue, HookGoes, HookPc, TypeOK
    <2>5. UNCHANGED <<setting, path, file, main, stopperVars, serverVars,
                      hookFd, times>>
      BY <1>12 DEF WriteQueue, CloseQueue, HookOnly
    <2> QED
      BY <2>3, <2>4, <2>5 DEF TypeOK, Procs, stopperVars, serverVars
  <1>13. CASE UNCHANGED vars
    BY <1>13 DEF vars, fsVars, stopperVars, serverVars, hookVars, TypeOK
  <1> QED
    BY <1>1, <1>2, <1>3, <1>4, <1>5, <1>6, <1>7, <1>8, <1>9, <1>10, <1>11,
       <1>12, <1>13
    DEF Next, StopperStep

\* Whatever servers, stoppers and hooks do to each other, the state is well
\* typed.
THEOREM TypeCorrect == Spec => []TypeOK
  BY InitTypeOK, NextTypeOK, PTL DEF Spec

-----------------------------------------------------------------------------
(* What holds under every setting *)

\* A launch has a server as soon as it has anything; sessions whose end is to
\* be handled are over; while the extension waits for a stopper nothing is
\* launched.
Base ==
    /\ TypeOK
    /\ \A k \in Launches : main[k] = "none" <=> serverPc[k] = "absent"
    /\ \A i \in 1..Len(events) : main[events[i]] = "over"
    /\ stopperPc # "idle" =>
          /\ job.what = "launch" => main[job.launch] = "none"
          /\ job.what = "end" => main[job.launch] # "none"
          /\ Settled => \A k \in Launches : serverPc[k] # "mkfifo"

LEMMA InitBase == Init => Base
  BY InitTypeOK DEF Init, Base

\* The stopper is done, and a launch that waited for it comes about.
LEMMA StopperEndsKeepsBase ==
    ASSUME Base, NEW from, StopperEnds(from), from # "idle", TypeOK'
    PROVE  Base'
  <1>0. TypeOK /\ job.launch \in Launches
    BY NameOfType DEF Base
  <1>1. /\ stopperPc # "idle" /\ stopperPc' = "idle"
        /\ events' = events
        /\ \A i \in 1..Len(events) : events[i] \in Launches
    BY <1>0 DEF StopperEnds, TypeOK
  <1>2. CASE job.what = "launch"
    <2>1. main[job.launch] = "none"
      BY <1>1, <1>2 DEF Base
    <2>2. /\ main'[job.launch] \in {"running", "terminal"}
          /\ serverPc'[job.launch] = "mkfifo"
          /\ \A k \in Launches \ {job.launch} :
                main'[k] = main[k] /\ serverPc'[k] = serverPc[k]
      BY <1>0, <1>1, <1>2 DEF StopperEnds, TypeOK
    <2> QED
      BY <1>0, <1>1, <2>1, <2>2 DEF Base
  <1>3. CASE job.what # "launch"
    BY <1>1, <1>3 DEF StopperEnds, Base
  <1> QED
    BY <1>2, <1>3

LEMMA NextBase == Base /\ [Next]_vars => Base'
  <1> SUFFICES ASSUME Base, [Next]_vars PROVE Base'
    OBVIOUS
  <1> USE LifecycleAssumption
  <1>0. TypeOK /\ TypeOK'
    BY NextTypeOK DEF Base
  <1>1. ASSUME NEW k \in Launches, LaunchDebugeeConfig(k)
        PROVE  Base'
    BY <1>0, <1>1
    DEF LaunchDebugeeConfig, BeginStop, Base, ServersSettled, Settled,
        serverVars
  <1>2. ASSUME NEW k \in Launches, MainEnds(k)
        PROVE  Base'
    <2>1. /\ main[k] = "running" /\ main'[k] = "over"
          /\ \A j \in Launches \ {k} : main'[j] = main[j]
          /\ serverPc' = serverPc
          /\ UNCHANGED <<setting, stopperPc, job>>
      BY <1>0, <1>2 DEF MainEnds, TypeOK, serverVars
    <2>2. /\ Len(events') = Len(events) + 1
          /\ events'[Len(events')] = k
          /\ \A i \in 1..Len(events) :
                events'[i] = events[i] /\ events[i] \in Launches
      BY <1>0, <1>2 DEF MainEnds, TypeOK
    <2>3. \A i \in 1..Len(events') : main'[events'[i]] = "over"
      <3>1. Len(events) \in Nat
        BY <1>0 DEF TypeOK
      <3> QED
        BY <2>1, <2>2, <3>1 DEF Base
    <2>4. job.launch \in Launches
      BY <1>0, NameOfType
    <2> QED
      BY <1>0, <2>1, <2>3, <2>4 DEF Base, Settled
  <1>3. CASE OnTerminate
    <2>1. /\ Head(events) = events[1] /\ 1 \in 1..Len(events)
          /\ events' = Tail(events)
          /\ \A i \in 1..Len(events') :
                events'[i] = events[i + 1] /\ i + 1 \in 1..Len(events)
      BY <1>0, <1>3 DEF OnTerminate, TypeOK
    <2>2. /\ stopperPc' = "check" /\ job'.what = "end"
          /\ job'.launch = Head(events)
          /\ Settled => ServersSettled
          /\ UNCHANGED <<setting, main, serverPc>>
      BY <1>3 DEF OnTerminate, BeginStop, serverVars
    <2> QED
      BY <1>0, <2>1, <2>2 DEF Base, ServersSettled, Settled
  <1>4. ASSUME NEW from, StopperEnds(from), from # "idle"
        PROVE  Base'
    BY <1>0, <1>4, StopperEndsKeepsBase
  <1>5. ASSUME NEW from, NEW to, StopperGoes(from, to), from # "idle"
        PROVE  Base'
    BY <1>0, <1>5 DEF StopperGoes, Base, Settled, serverVars
  <1>6. CASE StopperStep
    BY <1>4, <1>5, <1>6
    DEF StopperStep, StopCheck, StopOpen, StopWrite, StopClose, StopTimeout,
        StopRemove
  <1>7. ASSUME NEW k \in Launches, ServerStep(k)
        PROVE  Base'
    <2>1. /\ serverPc[k] # "absent" /\ serverPc'[k] \notin {"absent", "mkfifo"}
          /\ \A j \in Launches \ {k} : serverPc'[j] = serverPc[j]
      BY <1>0, <1>7
      DEF ServerStep, MakePipe, OpenPipe, ReadData, ReadEof, ClosePipe,
          PrintLine, ExitServer, ServerGoes, TypeOK
    <2>2. UNCHANGED <<setting, main, events, stopperPc, job>>
      BY <1>7
      DEF ServerStep, MakePipe, OpenPipe, ReadData, ReadEof, ClosePipe,
          PrintLine, ExitServer, ServerOnly, stopperVars
    <2> QED
      BY <1>0, <2>1, <2>2 DEF Base, Settled
  <1>8. ASSUME NEW h \in Hooks, OpenQueue(h) \/ WriteQueue(h) \/ CloseQueue(h)
        PROVE  Base'
    BY <1>0, <1>8
    DEF OpenQueue, WriteQueue, CloseQueue, HookOnly, Base, Settled, stopperVars,
        serverVars
  <1>9. CASE UNCHANGED vars
    BY <1>0, <1>9 DEF vars, stopperVars, serverVars, Base, Settled
  <1> QED
    BY <1>1, <1>2, <1>3, <1>6, <1>7, <1>8, <1>9 DEF Next

LEMMA SettingStays == Next => setting' = setting
  BY
  DEF Next, LaunchDebugeeConfig, MainEnds, OnTerminate, BeginStop, ServerStep,
      MakePipe, OpenPipe, ReadData, ReadEof, ClosePipe, PrintLine, ExitServer,
      ServerOnly, StopperStep, StopCheck, StopOpen, StopWrite, StopClose,
      StopTimeout, StopRemove, StopperGoes, StopperEnds, OpenQueue, WriteQueue,
      CloseQueue, HookOnly

-----------------------------------------------------------------------------
(* Names of one's own *)

Own == Regular /\ OwnNames

\* A name leads to its launch's pipe from mkfifo until the server exits: what
\* would take the pipe away comes before or after.
Paths ==
    /\ \A k \in Launches :
          /\ path[NameOf(k)] \in {"none", "file", k}
          /\ serverPc[k] \in {"absent", "mkfifo"} => path[NameOf(k)] = "none"
          /\ InLoop(k) => path[NameOf(k)] = k
          /\ serverFd[k] = k
    /\ \A h \in Hooks : hookFd[h] = LaunchOf[h]
    /\ stopperPc \in {"open", "write", "close", "rm"} => job.what = "end"
    /\ stopperPc = "rm" => Servers(Target) = {}

\* Is it in LINE, and read since the last line was printed?
InLine(h, k) == serverPc[k] \in {"read", "eof", "print"} /\ h \in line[k]

\* A request is in one place: not yet written, in its launch's pipe, in LINE of
\* the server, or printed.
PiecesOnce ==
    \A h \in Hooks :
        /\ times[h] < 2
        /\ hookPc[h] \in {"ready", "write"} => times[h] = 0
        /\ \A k \in Launches :
              h \in fifo[k].data \/ InLine(h, k) =>
                /\ k = LaunchOf[h]
                /\ hookPc[h] \in {"close", "sent"}
                /\ times[h] = 0
                /\ ~(h \in fifo[k].data /\ InLine(h, k))

OwnInv == Base /\ (Own => Paths /\ PiecesOnce)

LEMMA InitOwn == Init => OwnInv
  <1> SUFFICES ASSUME Init PROVE OwnInv
    OBVIOUS
  <1> USE LifecycleAssumption
  <1>1. TypeOK /\ Base
    BY InitTypeOK, InitBase
  <1>2. \A k \in Launches : NameOf(k) \in Names
    BY <1>1, NameOfType
  <1>3. /\ \A k \in Launches :
              /\ path[NameOf(k)] = "none" /\ serverPc[k] = "absent"
              /\ serverFd[k] = k
        /\ \A h \in Hooks : hookFd[h] = LaunchOf[h]
        /\ stopperPc = "idle"
    BY <1>2 DEF Init
  <1>4. Paths
    BY <1>3 DEF Paths, InLoop, Loop
  <1>5. PiecesOnce
    <2>1. /\ \A k \in Launches : fifo[k].data = {} /\ serverPc[k] = "absent"
          /\ \A h \in Hooks : times[h] = 0
      BY FifoEmpty DEF Init
    <2> QED
      BY <2>1 DEF PiecesOnce, InLine
  <1> QED
    BY <1>1, <1>4, <1>5 DEF OwnInv

\* What a stopper's step does to names.
LEMMA StopperKeepsPaths ==
    ASSUME Base, Own, Paths, StopperStep, TypeOK'
    PROVE  Paths'
  <1> USE LifecycleAssumption
  <1> TypeOK
    BY DEF Base
  <1>0. /\ \A k \in Launches : NameOf(k) \in Names
        /\ job.launch \in Launches /\ Target = NameOf(job.launch)
        /\ job.what \in {"launch", "end"}
        /\ \A j, k \in Launches : NameOf(j) = NameOf(k) => j = k
    BY NameOfType DEF Own, OwnNames, Target
  <1>1. /\ setting' = setting /\ job' = job
        /\ \A k \in Launches : NameOf(k)' = NameOf(k)
        /\ Target' = Target
        /\ UNCHANGED <<serverFd, hookFd>>
    BY
    DEF StopperStep, StopCheck, StopOpen, StopWrite, StopClose, StopTimeout,
        StopRemove, StopperGoes, StopperEnds, NameOf, Target, serverVars,
        hookVars
  <1>2. CASE StopCheck
    <2>1. path' = path
      BY <1>2 DEF StopCheck, fsVars
    <2>2. CASE path[Target] \in Launches
      <3>1. stopperPc = "check" /\ stopperPc' = "open" /\ serverPc' = serverPc
        BY <1>2, <2>2 DEF StopCheck, StopperGoes, serverVars
      <3>2. job.what # "launch"
        BY <1>0, <2>2, <3>1 DEF Base, Paths
      <3> QED
        BY <1>0, <1>1, <2>1, <3>1, <3>2 DEF Paths, InLoop
    <2>3. CASE path[Target] \notin Launches
      <3>1. stopperPc = "check" /\ stopperPc' = "idle"
        BY <1>2, <2>3 DEF StopCheck, StopperEnds
      <3>2. CASE job.what = "end"
        <4>1. serverPc' = serverPc
          BY <1>2, <2>3, <3>2 DEF StopCheck, StopperEnds
        <4> QED
          BY <1>1, <2>1, <3>1, <4>1 DEF Paths, InLoop
      <3>3. CASE job.what = "launch"
        <4>1. /\ serverPc[job.launch] = "absent"
              /\ serverPc' = [serverPc EXCEPT ![job.launch] = "mkfifo"]
          BY <1>0, <1>2, <2>3, <3>1, <3>3
          DEF StopCheck, StopperEnds, Base
        <4>2. /\ serverPc'[job.launch] = "mkfifo"
              /\ \A k \in Launches \ {job.launch} : serverPc'[k] = serverPc[k]
          BY <1>0, <4>1 DEF TypeOK
        <4> QED
          BY <1>0, <1>1, <2>1, <3>1, <4>1, <4>2 DEF Paths, InLoop, Loop
      <3> QED
        BY <1>0, <3>2, <3>3
    <2> QED
      BY <2>2, <2>3
  <1>3. ASSUME stopperPc \in {"open", "write", "close", "rm"}
        PROVE  job.what = "end"
    BY <1>3 DEF Paths
  <1>4. CASE StopOpen
    <2>1. stopperPc = "open" /\ job.what = "end" /\ serverPc' = serverPc
      BY <1>3, <1>4 DEF StopOpen, StopperGoes, StopperEnds, serverVars
    <2>2. CASE path[Target] \in Launches
      BY <1>1, <1>4, <2>1, <2>2 DEF StopOpen, StopperGoes, Paths, InLoop
    <2>3. CASE path[Target] \notin Launches
      <3>1. /\ stopperPc' = "idle"
            /\ path'[Target] = "file"
            /\ \A n \in Names \ {Target} : path'[n] = path[n]
        BY <1>0, <1>4, <2>3, SetPathType DEF StopOpen, StopperEnds
      <3>2. serverPc[job.launch] \notin {"absent", "mkfifo"}
        BY <1>0, <2>1 DEF Base, Own, Regular
      <3>3. ~InLoop(job.launch)
        BY <1>0, <2>3 DEF Paths
      <3> QED
        BY <1>0, <1>1, <2>1, <3>1, <3>2, <3>3 DEF Paths, InLoop
    <2> QED
      BY <2>2, <2>3
  <1>5. CASE StopWrite \/ StopClose
    <2>1. job.what = "end" /\ serverPc' = serverPc /\ path' = path
      BY <1>3, <1>5
      DEF StopWrite, StopClose, StopperGoes, StopperEnds, serverVars
    <2>2. stopperPc' \in {"close", "idle"}
      BY <1>5 DEF StopWrite, StopClose, StopperGoes, StopperEnds
    <2> QED
      BY <1>1, <2>1, <2>2 DEF Paths, InLoop
  <1>6. CASE StopTimeout
    <2>1. /\ job.what = "end" /\ serverPc' = serverPc /\ path' = path
          /\ stopperPc' = "rm"
          /\ Servers(Target) = {}
      BY <1>3, <1>6 DEF StopTimeout, StopperGoes, serverVars, Own, Regular
    <2>2. Servers(Target)' = Servers(Target)
      BY <1>1, <2>1 DEF Servers
    <2> QED
      BY <1>1, <2>1, <2>2 DEF Paths, InLoop
  <1>7. CASE StopRemove
    <2>1. /\ job.what = "end" /\ serverPc' = serverPc
          /\ stopperPc = "rm" /\ stopperPc' = "idle"
          /\ path'[Target] = "none"
          /\ \A n \in Names \ {Target} : path'[n] = path[n]
      BY <1>0, <1>3, <1>7, SetPathType DEF StopRemove, StopperEnds
    <2>2. ~InLoop(job.launch)
      BY <1>0, <2>1 DEF Paths, Servers, InLoop, Loop
    <2> QED
      BY <1>0, <1>1, <2>1, <2>2 DEF Paths, InLoop
  <1> QED
    BY <1>2, <1>4, <1>5, <1>6, <1>7 DEF StopperStep

LEMMA NextKeepsPaths ==
    ASSUME Base, Own, Paths, Next, TypeOK'
    PROVE  Paths'
  <1> USE LifecycleAssumption
  <1> TypeOK
    BY DEF Base
  <1>0. /\ \A k \in Launches : NameOf(k) \in Names
        /\ \A h \in Hooks :
              LaunchOf[h] \in Launches /\ QueueOf(h) = NameOf(LaunchOf[h])
        /\ \A j, k \in Launches : NameOf(j) = NameOf(k) => j = k
        /\ Settled
    BY NameOfType DEF Own, OwnNames, QueueOf, Regular
  <1>1. setting' = setting /\ \A k \in Launches : NameOf(k)' = NameOf(k)
    BY SettingStays DEF NameOf
  <1>2. ASSUME NEW k \in Launches,
               LaunchDebugeeConfig(k) \/ MainEnds(k) \/ OnTerminate
        PROVE  Paths'
    <2>1. UNCHANGED <<path, serverPc, serverFd, hookFd>>
      BY <1>2
      DEF LaunchDebugeeConfig, MainEnds, OnTerminate, fsVars, serverVars,
          hookVars
    <2>2. stopperPc' = "check" \/ UNCHANGED <<stopperPc, job>>
      BY <1>2 DEF LaunchDebugeeConfig, MainEnds, OnTerminate, BeginStop
    <2> QED
      BY <1>1, <2>1, <2>2 DEF Paths, InLoop, Servers, Target, NameOf
  <1>3. ASSUME NEW h \in Hooks, OpenQueue(h)
        PROVE  Paths'
    <2>1. UNCHANGED <<stopperPc, job, serverPc, serverFd>>
      BY <1>3 DEF OpenQueue, HookOnly, stopperVars, serverVars
    <2>2. CASE path[QueueOf(h)] \in Launches
      <3>1. path' = path /\ hookFd' = [hookFd EXCEPT ![h] = path[QueueOf(h)]]
        BY <1>3, <2>2 DEF OpenQueue
      <3>2. path[QueueOf(h)] = LaunchOf[h]
        BY <1>0, <2>2 DEF Paths
      <3>3. hookFd' = hookFd
        BY <3>1, <3>2 DEF Paths, TypeOK
      <3> QED
        BY <1>1, <2>1, <3>1, <3>3 DEF Paths, InLoop, Servers, Target, NameOf
    <2>3. CASE path[QueueOf(h)] \notin Launches
      <3>1. /\ hookFd' = hookFd
            /\ path'[QueueOf(h)] = "file"
            /\ \A n \in Names \ {QueueOf(h)} : path'[n] = path[n]
        BY <1>0, <1>3, <2>3, SetPathType DEF OpenQueue
      <3>2. serverPc[LaunchOf[h]] \notin {"absent", "mkfifo"}
        BY <1>0, <1>3 DEF OpenQueue, MaySend, Base
      <3>3. ~InLoop(LaunchOf[h])
        BY <1>0, <2>3 DEF Paths
      <3> QED
        BY <1>0, <1>1, <2>1, <3>1, <3>2, <3>3
        DEF Paths, InLoop, Servers, Target, NameOf
    <2> QED
      BY <2>2, <2>3
  <1>4. ASSUME NEW h \in Hooks, WriteQueue(h) \/ CloseQueue(h)
        PROVE  Paths'
    BY <1>1, <1>4
    DEF WriteQueue, CloseQueue, HookOnly, stopperVars, serverVars, Paths,
        InLoop, Servers, Target, NameOf
  <1>5. ASSUME NEW k \in Launches, ServerStep(k)
        PROVE  Paths'
    <2>1. UNCHANGED <<stopperPc, job, hookFd>>
      BY <1>5
      DEF ServerStep, MakePipe, OpenPipe, ReadData, ReadEof, ClosePipe,
          PrintLine, ExitServer, ServerOnly, stopperVars, hookVars
    <2>2. stopperPc = "rm" => Servers(Target) = {} /\ Servers(Target)' = {}
      <3>1. /\ serverPc[k] \notin {"absent", "gone"}
            /\ \A j \in Launches \ {k} : serverPc'[j] = serverPc[j]
        BY <1>5
        DEF ServerStep, MakePipe, OpenPipe, ReadData, ReadEof, ClosePipe,
            PrintLine, ExitServer, ServerGoes, TypeOK
      <3> QED
        BY <1>1, <2>1, <3>1 DEF Paths, Servers, Target, NameOf
    <2>3. CASE MakePipe(k)
      <3>1. path[NameOf(k)] = "none"
        BY <2>3 DEF MakePipe, ServerGoes, Paths
      <3>2. /\ path'[NameOf(k)] = k
            /\ \A n \in Names \ {NameOf(k)} : path'[n] = path[n]
        BY <1>0, <2>3, <3>1, SetPathType DEF MakePipe
      <3>3. /\ serverFd' = serverFd
            /\ serverPc'[k] = "open"
            /\ \A j \in Launches \ {k} : serverPc'[j] = serverPc[j]
        BY <2>3 DEF MakePipe, ServerGoes, TypeOK
      <3> QED
        BY <1>0, <1>1, <2>1, <2>2, <3>2, <3>3 DEF Paths, InLoop
    <2>4. CASE OpenPipe(k)
      <3>1. serverPc[k] = "open" /\ path[NameOf(k)] = k
        BY <2>4 DEF OpenPipe, ServerGoes, Paths, InLoop, Loop
      <3>2. /\ path' = path
            /\ serverFd'[k] = k
            /\ serverPc'[k] = "read"
            /\ \A j \in Launches \ {k} :
                  serverPc'[j] = serverPc[j] /\ serverFd'[j] = serverFd[j]
        BY <2>4, <3>1 DEF OpenPipe, ServerGoes, TypeOK
      <3> QED
        BY <1>0, <1>1, <2>1, <2>2, <3>1, <3>2 DEF Paths, InLoop
    <2>5. CASE ReadData(k) \/ ReadEof(k) \/ ClosePipe(k) \/ PrintLine(k)
      <3>1. /\ path' = path /\ serverFd' = serverFd
            /\ InLoop(k)
            /\ serverPc'[k] \notin {"absent", "mkfifo"}
            /\ \A j \in Launches \ {k} : serverPc'[j] = serverPc[j]
        BY <2>5
        DEF ReadData, ReadEof, ClosePipe, PrintLine, ServerGoes, fsVars, TypeOK,
            InLoop, Loop
      <3> QED
        BY <1>0, <1>1, <2>1, <2>2, <3>1 DEF Paths, InLoop
    <2>6. CASE ExitServer(k)
      <3>1. /\ path'[NameOf(k)] = "none"
            /\ \A n \in Names \ {NameOf(k)} : path'[n] = path[n]
        BY <1>0, <2>6, SetPathType DEF ExitServer
      <3>2. /\ serverFd' = serverFd
            /\ serverPc'[k] = "gone"
            /\ \A j \in Launches \ {k} : serverPc'[j] = serverPc[j]
        BY <2>6 DEF ExitServer, ServerGoes, TypeOK
      <3> QED
        BY <1>0, <1>1, <2>1, <2>2, <3>1, <3>2 DEF Paths, InLoop, Loop
    <2> QED
      BY <1>5, <2>3, <2>4, <2>5, <2>6 DEF ServerStep
  <1> QED
    BY <1>2, <1>3, <1>4, <1>5, StopperKeepsPaths DEF Next

\* Steps that neither write nor read nor print a request.
LEMMA NothingMoves ==
    ASSUME PiecesOnce, UNCHANGED <<hookPc, times>>,
           \A h \in Hooks, k \in Launches :
              /\ h \in fifo'[k].data => h \in fifo[k].data
              /\ InLine(h, k)' => InLine(h, k)
    PROVE  PiecesOnce'
  BY DEF PiecesOnce

\* Closing an end writes nothing.
LEMMA ClosingMovesNothing ==
    ASSUME TypeOK, NEW q \in Launches, NEW p,
           SetFifo(q, CloseEnd(fifo[q], p))
    PROVE  \A h \in Hooks, k \in Launches :
              h \in fifo'[k].data => h \in fifo[k].data
  <1>1. fifo[q] \in FifoType(Procs, Pieces)
    BY DEF TypeOK, Procs
  <1>2. /\ CloseEnd(fifo[q], p) \in FifoType(Procs, Pieces)
        /\ CloseEnd(fifo[q], p).data \in {{}, fifo[q].data}
    BY <1>1, FifoCloseEnd
  <1> QED
    BY <1>2, SetFifoType

LEMMA StopperMovesNothing ==
    ASSUME TypeOK, StopperStep
    PROVE  \A h \in Hooks, k \in Launches :
              h \in fifo'[k].data => h \in fifo[k].data
  <1> USE LifecycleAssumption
  <1>1. CASE StopCheck \/ StopRemove
    BY <1>1 DEF StopCheck, StopRemove, fsVars
  <1>2. CASE StopClose \/ StopTimeout
    BY <1>2, ClosingMovesNothing DEF StopClose, StopTimeout, TypeOK
  <1>3. CASE StopOpen
    <2>1. CASE path[Target] \in Launches
      <3>1. fifo[path[Target]] \in FifoType(Procs, Pieces) /\ Stopper \in Procs
        BY <2>1 DEF TypeOK, Procs
      <3>2. LET g == OpenForWriting(fifo[path[Target]], Stopper)
            IN  /\ g \in FifoType(Procs, Pieces)
                /\ g.data = fifo[path[Target]].data
        BY <3>1, FifoOpenForWriting
      <3> QED
        BY <1>3, <2>1, <3>2, SetFifoType DEF StopOpen
    <2>2. CASE path[Target] \notin Launches
      BY <1>3, <2>2 DEF StopOpen
    <2> QED
      BY <2>1, <2>2
  <1>4. CASE StopWrite
    <2>1. fifo[stopperFd] \in FifoType(Procs, Pieces) /\ Stop \in Pieces
      BY DEF TypeOK, Procs, Pieces
    <2>2. LET g == WritePiece(fifo[stopperFd], Stop)
          IN  /\ g \in FifoType(Procs, Pieces)
              /\ g.data = fifo[stopperFd].data \cup {Stop}
      BY <2>1, FifoWritePiece
    <2>3. stopperFd \in Launches /\ \A h \in Hooks : h # Stop
      BY DEF TypeOK, Stop
    <2>4. CASE SetFifo(stopperFd, WritePiece(fifo[stopperFd], Stop))
      BY <2>2, <2>3, <2>4, SetFifoType
    <2>5. CASE SetFifo(stopperFd, CloseEnd(fifo[stopperFd], Stopper))
      BY <2>3, <2>5, ClosingMovesNothing
    <2> QED
      BY <1>4, <2>4, <2>5 DEF StopWrite
  <1> QED
    BY <1>1, <1>2, <1>3, <1>4 DEF StopperStep

LEMMA NextKeepsPieces ==
    ASSUME Base, Own, Paths, PiecesOnce, Next, TypeOK'
    PROVE  PiecesOnce'
  <1> USE LifecycleAssumption
  <1> TypeOK
    BY DEF Base
  <1>0. \A k \in Launches : fifo[k] \in FifoType(Procs, Pieces)
    BY DEF TypeOK, Procs
  <1>1. ASSUME NEW k \in Launches,
               LaunchDebugeeConfig(k) \/ MainEnds(k) \/ OnTerminate
        PROVE  PiecesOnce'
    BY <1>1, NothingMoves
    DEF LaunchDebugeeConfig, MainEnds, OnTerminate, fsVars, serverVars,
        hookVars, InLine
  <1>2. CASE StopperStep
    <2>1. UNCHANGED <<hookPc, times, line>>
      BY <1>2
      DEF StopperStep, StopCheck, StopOpen, StopWrite, StopClose, StopTimeout,
          StopRemove, StopperGoes, StopperEnds, serverVars, hookVars
    <2>2. \A k \in Launches : serverPc'[k] \in {serverPc[k], "mkfifo"}
      BY <1>2
      DEF StopperStep, StopCheck, StopOpen, StopWrite, StopClose, StopTimeout,
          StopRemove, StopperGoes, StopperEnds, serverVars, TypeOK
    <2>3. \A h \in Hooks, k \in Launches : InLine(h, k)' => InLine(h, k)
      BY <2>1, <2>2 DEF InLine
    <2> QED
      BY <1>2, <2>1, <2>3, StopperMovesNothing, NothingMoves
  <1>3. ASSUME NEW h \in Hooks, OpenQueue(h)
        PROVE  PiecesOnce'
    <2>1. UNCHANGED <<times, serverPc, line>>
      BY <1>3 DEF OpenQueue, HookOnly, serverVars
    <2>2. /\ hookPc[h] = "ready"
          /\ hookPc'[h] \in {"write", "sent"}
          /\ \A g \in Hooks \ {h} : hookPc'[g] = hookPc[g]
      BY <1>3 DEF OpenQueue, HookGoes, TypeOK
    <2>3. \A k \in Launches : fifo'[k].data = fifo[k].data
      <3>1. CASE path[QueueOf(h)] \in Launches
        <4>1. h \in Procs
          BY DEF Procs
        <4>2. LET g == OpenForWriting(fifo[path[QueueOf(h)]], h)
              IN  /\ g \in FifoType(Procs, Pieces)
                  /\ g.data = fifo[path[QueueOf(h)]].data
          BY <1>0, <3>1, <4>1, FifoOpenForWriting
        <4> QED
          BY <1>3, <3>1, <4>2, SetFifoType DEF OpenQueue
      <3>2. CASE path[QueueOf(h)] \notin Launches
        BY <1>3, <3>2 DEF OpenQueue
      <3> QED
        BY <3>1, <3>2
    <2> QED
      BY <2>1, <2>2, <2>3 DEF PiecesOnce, InLine
  <1>4. ASSUME NEW h \in Hooks, WriteQueue(h)
        PROVE  PiecesOnce'
    <2>1. UNCHANGED <<times, serverPc, line>>
      BY <1>4 DEF WriteQueue, HookOnly, serverVars
    <2>2. /\ hookFd[h] = LaunchOf[h] /\ LaunchOf[h] \in Launches
          /\ h \in Pieces
      BY DEF Paths, Pieces
    <2>3. CASE fifo[hookFd[h]].readers # {}
      <3>1. /\ hookPc[h] = "write" /\ hookPc'[h] = "close"
            /\ \A g \in Hooks \ {h} : hookPc'[g] = hookPc[g]
            /\ SetFifo(hookFd[h], WritePiece(fifo[hookFd[h]], h))
        BY <1>4, <2>3 DEF WriteQueue, HookGoes, TypeOK
      <3>2. LET g == WritePiece(fifo[hookFd[h]], h)
            IN  /\ g \in FifoType(Procs, Pieces)
                /\ g.data = fifo[hookFd[h]].data \cup {h}
        BY <1>0, <2>2, FifoWritePiece
      <3>3. /\ fifo'[hookFd[h]].data = fifo[hookFd[h]].data \cup {h}
            /\ \A k \in Launches \ {hookFd[h]} : fifo'[k] = fifo[k]
        BY <2>2, <3>1, <3>2, SetFifoType
      <3>4. \A g \in Hooks, k \in Launches :
              g \in fifo'[k].data =>
                g \in fifo[k].data \/ (g = h /\ k = LaunchOf[h])
        BY <2>2, <3>3
      <3> QED
        BY <2>1, <2>2, <3>1, <3>4 DEF PiecesOnce, InLine
    <2>4. CASE fifo[hookFd[h]].readers = {}
      <3>1. /\ hookPc[h] = "write" /\ hookPc'[h] = "killed"
            /\ \A g \in Hooks \ {h} : hookPc'[g] = hookPc[g]
            /\ SetFifo(hookFd[h], CloseEnd(fifo[hookFd[h]], h))
        BY <1>4, <2>4 DEF WriteQueue, HookGoes, TypeOK
      <3>2. \A g \in Hooks, k \in Launches :
              g \in fifo'[k].data => g \in fifo[k].data
        BY <2>2, <3>1, ClosingMovesNothing
      <3> QED
        BY <2>1, <3>1, <3>2 DEF PiecesOnce, InLine
    <2> QED
      BY <2>3, <2>4
  <1>5. ASSUME NEW h \in Hooks, CloseQueue(h)
        PROVE  PiecesOnce'
    <2>1. UNCHANGED <<times, serverPc, line>>
      BY <1>5 DEF CloseQueue, HookOnly, serverVars
    <2>2. /\ hookPc[h] = "close" /\ hookPc'[h] = "sent"
          /\ \A g \in Hooks \ {h} : hookPc'[g] = hookPc[g]
      BY <1>5 DEF CloseQueue, HookGoes, TypeOK
    <2>3. \A g \in Hooks, k \in Launches :
            g \in fifo'[k].data => g \in fifo[k].data
      BY <1>5, ClosingMovesNothing DEF CloseQueue, TypeOK
    <2> QED
      BY <2>1, <2>2, <2>3 DEF PiecesOnce, InLine
  <1>6. ASSUME NEW k \in Launches, ServerStep(k)
        PROVE  PiecesOnce'
    <2>1. hookPc' = hookPc /\ serverFd[k] = k
      BY <1>6
      DEF ServerStep, MakePipe, OpenPipe, ReadData, ReadEof, ClosePipe,
          PrintLine, ExitServer, ServerOnly, hookVars, Paths
    <2>2. CASE MakePipe(k)
      <3>1. /\ UNCHANGED <<times, line>>
            /\ serverPc' = [serverPc EXCEPT ![k] = "open"]
        BY <2>2 DEF MakePipe, ServerGoes
      <3>2. /\ EmptyFifo \in FifoType(Procs, Pieces)
            /\ EmptyFifo.data = {}
        BY FifoEmpty
      <3>3. fifo' = fifo \/ SetFifo(k, EmptyFifo)
        BY <2>2 DEF MakePipe
      <3>4. \A h \in Hooks, j \in Launches :
              h \in fifo'[j].data => h \in fifo[j].data
        BY <3>2, <3>3, SetFifoType
      <3>5. \A h \in Hooks, j \in Launches : InLine(h, j)' => InLine(h, j)
        BY <3>1 DEF InLine, TypeOK
      <3> QED
        BY <2>1, <3>1, <3>4, <3>5, NothingMoves
    <2>3. CASE OpenPipe(k)
      <3>1. path[NameOf(k)] = k
        BY <2>3 DEF OpenPipe, ServerGoes, Paths, InLoop, Loop
      <3>2. /\ times' = times
            /\ serverPc'[k] = "read" /\ line'[k] = {}
            /\ \A j \in Launches \ {k} :
                  serverPc'[j] = serverPc[j] /\ line'[j] = line[j]
            /\ SetFifo(k, OpenForReading(fifo[k], k))
        BY <2>3, <3>1 DEF OpenPipe, ServerGoes, TypeOK
      <3>3. k \in Procs
        BY DEF Procs
      <3>4. LET g == OpenForReading(fifo[k], k)
            IN  g \in FifoType(Procs, Pieces) /\ g.data = fifo[k].data
        BY <1>0, <3>3, FifoOpenForReading
      <3>5. \A h \in Hooks, j \in Launches :
              /\ h \in fifo'[j].data => h \in fifo[j].data
              /\ InLine(h, j)' => InLine(h, j)
        BY <3>2, <3>4, SetFifoType DEF InLine
      <3> QED
        BY <2>1, <3>2, <3>5, NothingMoves
    <2>4. CASE ReadData(k)
      <3>1. /\ times' = times /\ serverPc' = serverPc
            /\ serverPc[k] = "read"
            /\ line'[k] = line[k] \cup fifo[k].data
            /\ \A j \in Launches \ {k} : line'[j] = line[j]
            /\ SetFifo(k, TakeAll(fifo[k]))
        BY <2>1, <2>4 DEF ReadData, TypeOK
      <3>2. LET g == TakeAll(fifo[k])
            IN  g \in FifoType(Procs, Pieces) /\ g.data = {}
        BY <1>0, FifoTakeAll
      <3>3. /\ fifo'[k].data = {}
            /\ \A j \in Launches \ {k} : fifo'[j] = fifo[j]
        BY <3>1, <3>2, SetFifoType
      <3>4. \A h \in Hooks, j \in Launches :
              /\ h \in fifo'[j].data => h \in fifo[j].data /\ j # k
              /\ InLine(h, j)' =>
                    InLine(h, j) \/ (j = k /\ h \in fifo[k].data)
        BY <3>1, <3>3 DEF InLine
      <3>5. \A h \in Hooks, j \in Launches \ {k} : InLine(h, j)' => InLine(h, j)
        BY <3>1 DEF InLine
      <3> QED
        BY <2>1, <3>1, <3>4, <3>5 DEF PiecesOnce
    <2>5. CASE ReadEof(k)
      <3>1. UNCHANGED <<times, line, fifo>> /\ serverPc[k] = "read"
            /\ serverPc' = [serverPc EXCEPT ![k] = "eof"]
        BY <2>5 DEF ReadEof, ServerGoes, fsVars
      <3>2. \A h \in Hooks, j \in Launches : InLine(h, j)' => InLine(h, j)
        BY <3>1 DEF InLine, TypeOK
      <3> QED
        BY <2>1, <3>1, <3>2, NothingMoves
    <2>6. CASE ClosePipe(k)
      <3>1. /\ UNCHANGED <<times, line>> /\ serverPc[k] = "eof"
            /\ \A j \in Launches \ {k} : serverPc'[j] = serverPc[j]
            /\ SetFifo(k, CloseEnd(fifo[k], k))
        BY <2>1, <2>6 DEF ClosePipe, ServerGoes, TypeOK
      <3>2. \A h \in Hooks, j \in Launches : InLine(h, j)' => InLine(h, j)
        BY <3>1 DEF InLine
      <3> QED
        BY <2>1, <3>1, <3>2, ClosingMovesNothing, NothingMoves
    <2>7. CASE PrintLine(k)
      <3>1. /\ UNCHANGED <<line, fifo>>
            /\ serverPc[k] = "print" /\ serverPc'[k] = "open"
            /\ \A j \in Launches \ {k} : serverPc'[j] = serverPc[j]
        BY <2>7 DEF PrintLine, ServerGoes, fsVars, TypeOK
      <3>2. \A h \in Hooks, j \in Launches :
              InLine(h, j)' => InLine(h, j) /\ j # k
        BY <3>1 DEF InLine
      <3>3. \A h \in Hooks : line[k] = {h} => InLine(h, k)
        BY <3>1 DEF InLine
      <3>4. \A h \in Hooks :
              times'[h] = IF line[k] = {h} /\ times[h] < 2
                            THEN times[h] + 1 ELSE times[h]
        BY <2>7 DEF PrintLine
      <3>5. ASSUME NEW h \in Hooks, line[k] = {h}
            PROVE  /\ times[h] = 0 /\ times'[h] = 1
                   /\ hookPc[h] \in {"close", "sent"}
                   /\ \A j \in Launches : h \notin fifo[j].data
                   /\ \A j \in Launches \ {k} : ~InLine(h, j)
        BY <3>3, <3>4, <3>5 DEF PiecesOnce
      <3>6. ASSUME NEW h \in Hooks, line[k] # {h}
            PROVE  times'[h] = times[h]
        BY <3>4, <3>6
      <3> QED
        BY <2>1, <3>1, <3>2, <3>5, <3>6 DEF PiecesOnce
    <2>8. CASE ExitServer(k)
      <3>1. UNCHANGED <<times, line, fifo>>
            /\ serverPc' = [serverPc EXCEPT ![k] = "gone"]
        BY <2>8 DEF ExitServer, ServerGoes
      <3>2. \A h \in Hooks, j \in Launches : InLine(h, j)' => InLine(h, j)
        BY <3>1 DEF InLine, TypeOK
      <3> QED
        BY <2>1, <3>1, <3>2, NothingMoves
    <2> QED
      BY <1>6, <2>2, <2>3, <2>4, <2>5, <2>6, <2>7, <2>8 DEF ServerStep
  <1> QED
    BY <1>1, <1>2, <1>3, <1>4, <1>5, <1>6 DEF Next

LEMMA NextOwn == OwnInv /\ [Next]_vars => OwnInv'
  <1> SUFFICES ASSUME OwnInv, [Next]_vars PROVE OwnInv'
    OBVIOUS
  <1>1. Base' /\ TypeOK'
    BY NextBase DEF OwnInv, Base
  <1>2. CASE Next
    <2>1. Own' => Own
      BY <1>2, SettingStays
      DEF Own, Regular, OwnNames, Prompt, Settled, NameOf
    <2> QED
      BY <1>1, <1>2, <2>1, NextKeepsPaths, NextKeepsPieces DEF OwnInv
  <1>3. CASE UNCHANGED vars
    BY <1>1, <1>3
    DEF vars, fsVars, stopperVars, serverVars, hookVars, OwnInv, Own, Regular,
        OwnNames, Prompt, Settled, NameOf, Paths, PiecesOnce, InLine, InLoop,
        Servers, Target
  <1> QED
    BY <1>2, <1>3

-----------------------------------------------------------------------------
(* Calm: names may be shared, and hooks keep away from the stop signals *)

Calm == Regular /\ Quiet

\* From mkfifo to the EXIT trap a server has its name.
Up(k) == InLoop(k) \/ serverPc[k] = "exit"

\* What the server has read and not printed, or is about to read.
Held(x, k) == InLine(x, k) \/ (serverPc[k] = "read" /\ x \in fifo[k].data)

\* The server stops, or will when it has read what is in its pipe.
Ends(k) == serverPc[k] = "exit" \/ Held(Stop, k)

\* A hook on its way: its request is not printed yet.
Active(h) ==
    \/ hookPc[h] \in {"write", "close"}
    \/ hookPc[h] = "sent" /\ times[h] = 0

\* Who has a server's pipe open for writing.
Writes(p, k) ==
    \/ p \in Hooks /\ hookPc[p] \in {"write", "close"} /\ hookFd[p] = k
    \/ p = Stopper /\ stopperPc \in {"write", "close"} /\ stopperFd = k

\* A name leads to the server that is up under it, so there is at most one; a
\* new one waits for the end of the old one.
OneUp ==
    /\ \A k \in Launches : Up(k) <=> (path[NameOf(k)] = k)
    /\ \A n \in Names : path[n] # "none" =>
          path[n] \in Launches /\ NameOf(path[n]) = n
    /\ \A k \in Launches : serverFd[k] = k
    /\ \A j, k \in Launches :
          j # k /\ NameOf(j) = NameOf(k) /\ serverPc[k] = "mkfifo" =>
            Ends(j) \/ serverPc[j] \in {"absent", "gone"}

\* One hook at a time, and none while the extension stops a server.
OneActive ==
    /\ \A g, h \in Hooks : Active(g) /\ Active(h) => g = h
    /\ stopperPc # "idle" => \A h \in Hooks : ~Active(h)
    /\ \A h \in Hooks :
          /\ hookPc[h] # "killed"
          /\ times[h] < 2
          /\ times[h] > 0 => hookPc[h] = "sent"
          /\ hookPc[h] \in {"write", "close"} => path[QueueOf(h)] = hookFd[h]
          /\ hookPc[h] = "close" => Held(h, hookFd[h])

\* Who has the pipe of a server open, and that what is in it will be read.
PipeEnds(k) ==
    /\ fifo[k].readers = IF serverPc[k] \in {"read", "eof"} THEN {k} ELSE {}
    /\ \A p \in Procs : (p \in fifo[k].writers) <=> Writes(p, k)
    /\ fifo[k].met \subseteq fifo[k].readers \cup fifo[k].writers
    /\ fifo[k].met # {} => serverPc[k] \in {"read", "eof"}
    /\ fifo[k].data # {} => serverPc[k] = "read"
    /\ serverPc[k] \in {"eof", "print", "exit"} => fifo[k].writers = {}

\* It holds a request or the stop signal and never both, and one of them
\* before end-of-file unless a writer is still to come to it.
PipeHolds(k) ==
    /\ serverPc[k] = "read" /\ k \in fifo[k].met =>
          fifo[k].writers # {} \/ \E x \in Pieces : Held(x, k)
    /\ serverPc[k] \in {"eof", "print"} => \E x \in Pieces : Held(x, k)
    /\ serverPc[k] = "print" => ~Held(Stop, k)
    /\ Held(Stop, k) =>
          /\ \A x \in Pieces : Held(x, k) => x = Stop
          /\ \A h \in Hooks : Active(h) => hookFd[h] # k
    /\ \A h \in Hooks : Held(h, k) =>
          hookFd[h] = k /\ hookPc[h] \in {"close", "sent"} /\ times[h] = 0

PipeCalm(k) == PipeEnds(k) /\ PipeHolds(k)

PipesCalm == \A k \in Launches : Up(k) => PipeCalm(k)

\* The extension stops the one server of the name, which is there all the time
\* and has nothing else to do.
StopperCalm ==
    /\ stopperPc # "rm"
    /\ stopperPc \in {"check", "open", "write"} =>
          \A k \in Launches : ~Ends(k)
    /\ stopperPc = "open" => path[Target] \in Launches
    /\ stopperPc \in {"write", "close"} => path[Target] = stopperFd
    /\ stopperPc = "close" => Held(Stop, stopperFd)

CalmParts == OneUp /\ OneActive /\ PipesCalm /\ StopperCalm

CalmInv == Base /\ (Calm => CalmParts)

-----------------------------------------------------------------------------
(* What the parts say together *)

LEMMA Ups ==
    ASSUME TypeOK, OneUp
    PROVE  /\ \A n \in Names : path[n] # "none" =>
                path[n] \in Launches /\ NameOf(path[n]) = n /\ Up(path[n])
           /\ \A k \in Launches : Up(k) => path[NameOf(k)] = k
           /\ \A k \in Launches : NameOf(k) \in Names
  BY NameOfType DEF OneUp

LEMMA Helds ==
    ASSUME TypeOK, OneUp, PipesCalm
    PROVE  \A k \in Launches :
              /\ \A x : Held(x, k) => Up(k) /\ PipeCalm(k)
              /\ \A h \in Hooks : Held(h, k) => Active(h) /\ hookFd[h] = k
              /\ Ends(k) => Stops(k) /\ Up(k) /\ k \in Servers(NameOf(k))
  <1> SUFFICES ASSUME NEW k \in Launches
               PROVE  /\ \A x : Held(x, k) => Up(k) /\ PipeCalm(k)
                      /\ \A h \in Hooks : Held(h, k) =>
                            Active(h) /\ hookFd[h] = k
                      /\ Ends(k) =>
                            Stops(k) /\ Up(k) /\ k \in Servers(NameOf(k))
    OBVIOUS
  <1>1. \A x : Held(x, k) => Up(k) /\ PipeCalm(k)
    BY DEF Held, InLine, Up, InLoop, Loop, PipesCalm
  <1>2. \A h \in Hooks : Held(h, k) => Active(h) /\ hookFd[h] = k
    BY <1>1 DEF PipeCalm, PipeHolds, Active
  <1>3. Ends(k) => Up(k)
    BY <1>1 DEF Ends, Up
  <1>4. Ends(k) => Stops(k)
    <2>1. serverFd[k] = k
      BY DEF OneUp
    <2>2. Held(Stop, k) => serverPc[k] # "print"
      BY <1>1 DEF PipeCalm, PipeHolds
    <2> QED
      BY <2>1, <2>2 DEF Ends, Held, InLine, Stops
  <1>5. Up(k) => k \in Servers(NameOf(k))
    BY DEF Up, InLoop, Loop, Servers
  <1> QED
    BY <1>1, <1>2, <1>3, <1>4, <1>5

\* Whoever has a pipe open for writing came by the name of its server.
LEMMA Writers ==
    ASSUME TypeOK, OneUp, OneActive, StopperCalm
    PROVE  /\ \A p \in Procs, k \in Launches :
                Writes(p, k) =>
                  /\ Up(k)
                  /\ \/ p \in Hooks /\ path[QueueOf(p)] = k
                     \/ p = Stopper /\ path[Target] = k
           /\ \A h \in Hooks : hookPc[h] \in {"write", "close"} =>
                hookFd[h] \in Launches /\ Writes(h, hookFd[h]) /\ h \in Procs
           /\ stopperPc \in {"write", "close"} =>
                Writes(Stopper, stopperFd) /\ Stopper \in Procs
  <1>1. /\ \A h \in Hooks : QueueOf(h) \in Names /\ hookFd[h] \in Launches
        /\ Target \in Names /\ stopperFd \in Launches
        /\ "none" \notin Launches
    BY NameOfType, LifecycleAssumption DEF TypeOK
  <1>2. \A h \in Hooks : hookPc[h] \in {"write", "close"} =>
          path[QueueOf(h)] = hookFd[h]
    BY DEF OneActive
  <1>3. stopperPc \in {"write", "close"} => path[Target] = stopperFd
    BY DEF StopperCalm
  <1> QED
    BY <1>1, <1>2, <1>3, Ups DEF Writes, Procs

\* Nothing happened to a server or to its pipe.
LEMMA PipeKept ==
    ASSUME NEW k \in Launches, PipeCalm(k),
           serverPc'[k] = serverPc[k], line'[k] = line[k], fifo'[k] = fifo[k],
           \A p \in Procs : Writes(p, k)' <=> Writes(p, k),
           \A h \in Hooks : Active(h)' /\ hookFd'[h] = k =>
              Active(h) /\ hookFd[h] = k,
           \A h \in Hooks : Held(h, k) =>
              /\ hookFd'[h] = k /\ hookPc'[h] \in {"close", "sent"}
              /\ times'[h] = 0
    PROVE  PipeCalm(k)'
  <1>1. \A x : Held(x, k)' <=> Held(x, k)
    BY DEF Held, InLine
  <1>2. PipeEnds(k)'
    BY DEF PipeCalm, PipeEnds
  <1>3. PipeHolds(k)'
    BY <1>1 DEF PipeCalm, PipeHolds
  <1> QED
    BY <1>2, <1>3 DEF PipeCalm

\* A server that was not told to stop has nothing left if no hook is on its way.
LEMMA NothingHeld ==
    ASSUME TypeOK, OneUp, PipesCalm, NEW k \in Launches, ~Ends(k),
           \A h \in Hooks : ~Active(h)
    PROVE  /\ \A x \in Pieces : ~Held(x, k)
           /\ Up(k) => serverPc[k] \in {"open", "read"}
  <1>1. \A x \in Pieces : ~Held(x, k)
    BY Helds DEF Pieces, Ends
  <1>2. Up(k) => serverPc[k] \notin {"eof", "print", "exit"}
    BY <1>1 DEF PipesCalm, PipeCalm, PipeHolds, Ends
  <1> QED
    BY <1>1, <1>2 DEF Up, InLoop, Loop

-----------------------------------------------------------------------------
(* The initial state, and steps that touch neither names, pipes nor servers *)

LEMMA InitCalm == Init => CalmInv
  <1> SUFFICES ASSUME Init PROVE CalmInv
    OBVIOUS
  <1>1. TypeOK /\ Base
    BY InitTypeOK, InitBase
  <1>2. /\ \A k \in Launches : NameOf(k) \in Names /\ k # "none"
        /\ \A k \in Launches : path[NameOf(k)] = "none"
    BY <1>1, NameOfType, LifecycleAssumption DEF Init
  <1>3. /\ \A n \in Names : path[n] = "none"
        /\ \A k \in Launches : serverPc[k] = "absent" /\ serverFd[k] = k
        /\ \A h \in Hooks : hookPc[h] = "ready" /\ times[h] = 0
        /\ stopperPc = "idle"
    BY DEF Init
  <1>4. \A k \in Launches : ~Up(k)
    BY <1>3 DEF Up, InLoop, Loop
  <1>5. OneUp
    BY <1>2, <1>3, <1>4 DEF OneUp
  <1>6. OneActive
    BY <1>3 DEF OneActive, Active
  <1>7. PipesCalm /\ StopperCalm
    BY <1>3, <1>4 DEF PipesCalm, StopperCalm
  <1> QED
    BY <1>1, <1>5, <1>6, <1>7 DEF CalmInv, CalmParts

LEMMA NothingStirs ==
    ASSUME CalmParts,
           UNCHANGED <<setting, path, fifo, stopperPc, job, stopperFd,
                       serverVars, hookVars, times>>
    PROVE  CalmParts'
  <1> USE DEF serverVars, hookVars
  <1>1. /\ \A k \in Launches :
              /\ (Up(k)' <=> Up(k)) /\ (Ends(k)' <=> Ends(k))
              /\ NameOf(k)' = NameOf(k) /\ PipeCalm(k)' = PipeCalm(k)
              /\ \A x : Held(x, k)' <=> Held(x, k)
        /\ \A h \in Hooks : Active(h)' <=> Active(h)
    BY
    DEF Up, InLoop, Ends, Held, InLine, NameOf, PipeCalm, PipeEnds, PipeHolds,
        Writes, Active
  <1>2. OneUp'
    BY DEF CalmParts, OneUp, Up, InLoop, Ends, Held, InLine, NameOf
  <1>3. OneActive'
    BY DEF CalmParts, OneActive, Active, Held, InLine, QueueOf, NameOf
  <1>4. PipesCalm'
    BY <1>1 DEF CalmParts, PipesCalm
  <1>5. StopperCalm'
    BY
    DEF CalmParts, StopperCalm, Target, NameOf, Ends, Held, InLine
  <1> QED
    BY <1>2, <1>3, <1>4, <1>5 DEF CalmParts

-----------------------------------------------------------------------------
(* The stopper *)

\* Servers are settled and hooks are done when the extension begins a stop.
LEMMA BeginStopCalm ==
    ASSUME Base, Calm, CalmParts,
           OnTerminate \/ \E k \in Launches : LaunchDebugeeConfig(k)
    PROVE  CalmParts'
  <1> TypeOK
    BY DEF Base
  <1>1. /\ stopperPc = "idle" /\ stopperPc' = "check"
        /\ HooksCalm /\ ServersSettled
        /\ UNCHANGED <<setting, path, fifo, stopperFd, serverPc, line, serverFd,
                       hookPc, hookFd, times>>
    BY
    DEF OnTerminate, LaunchDebugeeConfig, BeginStop, Calm, Regular, fsVars,
        serverVars, hookVars
  <1>2. \A h \in Hooks : ~Active(h)
    BY <1>1 DEF HooksCalm, Active, CalmParts, OneActive
  <1>3. \A k \in Launches : ~Ends(k)
    BY <1>1, Helds DEF ServersSettled, CalmParts
  <1>4. /\ \A k \in Launches :
              /\ (Up(k)' <=> Up(k)) /\ (Ends(k)' <=> Ends(k))
              /\ \A x : Held(x, k)' <=> Held(x, k)
              /\ \A p : Writes(p, k)' <=> Writes(p, k)
        /\ \A h \in Hooks : Active(h)' <=> Active(h)
    BY <1>1 DEF Up, InLoop, Ends, Held, InLine, Writes, Active
  <1>5. OneUp'
    BY <1>1 DEF CalmParts, OneUp, Up, InLoop, Ends, Held, InLine, NameOf
  <1>6. OneActive'
    BY <1>1, <1>2
    DEF CalmParts, OneActive, Active, Held, InLine, QueueOf, NameOf
  <1>7. PipesCalm'
    <2> SUFFICES ASSUME NEW k \in Launches, Up(k)' PROVE PipeCalm(k)'
      BY DEF PipesCalm
    <2>1. PipeCalm(k)
      BY <1>4 DEF CalmParts, PipesCalm
    <2>2. \A h \in Hooks : Held(h, k) =>
            hookFd[h] = k /\ hookPc[h] \in {"close", "sent"} /\ times[h] = 0
      BY <2>1 DEF PipeCalm, PipeHolds
    <2> QED
      BY <1>1, <1>4, <2>1, <2>2, PipeKept
  <1>8. StopperCalm'
    BY <1>1, <1>3, <1>4 DEF StopperCalm
  <1> QED
    BY <1>5, <1>6, <1>7, <1>8 DEF CalmParts

\* The new server waits for the end of those of its name.
LEMMA LaunchOneUp ==
    ASSUME Base, Calm, OneUp, NEW from, StopperEnds(from), from # "idle",
           path' = path,
           \A j \in Launches :
              NameOf(j) = Target /\ Up(j) /\ job.what = "launch" => Ends(j)',
           \A j \in Launches : Ends(j) => Ends(j)'
    PROVE  /\ OneUp'
           /\ \A k \in Launches : Up(k)' <=> Up(k)
           /\ \A k \in Launches : Up(k) => serverPc'[k] = serverPc[k]
           /\ UNCHANGED <<line, hookPc, hookFd, times>>
  <1> TypeOK
    BY DEF Base
  <1>0. /\ setting' = setting /\ job' = job /\ serverFd' = serverFd
        /\ UNCHANGED <<line, hookPc, hookFd, times>>
        /\ \A k \in Launches : NameOf(k)' = NameOf(k)
        /\ job.launch \in Launches /\ Target = NameOf(job.launch)
        /\ job.what \in {"launch", "end"}
        /\ \A k \in Launches : serverPc[k] # "mkfifo"
    BY NameOfType
    DEF StopperEnds, NameOf, Target, hookVars, Base, Calm, Regular
  <1>1. CASE job.what = "end"
    <2>1. serverPc' = serverPc
      BY <1>1 DEF StopperEnds
    <2> QED
      BY <1>0, <2>1 DEF OneUp, Up, InLoop
  <1>2. CASE job.what = "launch"
    <2>1. /\ serverPc[job.launch] = "absent"
          /\ serverPc'[job.launch] = "mkfifo"
          /\ \A k \in Launches \ {job.launch} : serverPc'[k] = serverPc[k]
      BY <1>0, <1>2 DEF StopperEnds, Base, TypeOK
    <2>2. \A k \in Launches : Up(k)' <=> Up(k)
      BY <2>1 DEF Up, InLoop, Loop
    <2>3. \A k \in Launches :
            Up(k) \/ serverPc[k] \in {"absent", "mkfifo", "gone"}
      BY DEF TypeOK, ServerPc, Up, InLoop, Loop
    <2>4. \A j \in Launches \ {job.launch} :
            NameOf(j) = Target =>
              Ends(j)' \/ serverPc'[j] \in {"absent", "gone"}
      BY <1>0, <1>2, <2>1, <2>3
    <2>5. \A j, k \in Launches :
            j # k /\ NameOf(j)' = NameOf(k)' /\ serverPc'[k] = "mkfifo" =>
              Ends(j)' \/ serverPc'[j] \in {"absent", "gone"}
      BY <1>0, <2>1, <2>4
    <2>6. /\ \A k \in Launches : Up(k)' <=> (path'[NameOf(k)'] = k)
          /\ \A n \in Names : path'[n] # "none" =>
                path'[n] \in Launches /\ NameOf(path[n])' = n
          /\ \A k \in Launches : serverFd'[k] = k
      BY <1>0, <2>2 DEF OneUp, NameOf
    <2>7. \A k \in Launches : Up(k) => serverPc'[k] = serverPc[k]
      BY <2>1 DEF Up, InLoop, Loop
    <2> QED
      BY <1>0, <2>2, <2>5, <2>6, <2>7 DEF OneUp
  <1> QED
    BY <1>0, <1>1, <1>2

\* No pipe under the name: no server to stop.
LEMMA StopCheckCalm ==
    ASSUME Base, Calm, CalmParts, StopCheck
    PROVE  CalmParts'
  <1> TypeOK
    BY DEF Base
  <1> USE DEF CalmParts
  <1>0. /\ stopperPc = "check" /\ stopperPc' \in {"open", "idle"}
        /\ UNCHANGED <<setting, job, path, fifo, stopperFd, line, serverFd,
                       hookPc, hookFd, times>>
    BY
    DEF StopCheck, StopperGoes, StopperEnds, fsVars, serverVars, hookVars
  <1>1. \A p, k : Writes(p, k)' <=> Writes(p, k)
    BY <1>0 DEF Writes
  <1>2. \A h \in Hooks : Active(h)' <=> Active(h)
    BY <1>0 DEF Active
  <1>3. OneUp' /\ \A k \in Launches :
                    /\ Up(k)' <=> Up(k)
                    /\ Up(k) => serverPc'[k] = serverPc[k]
    <2>1. CASE path[Target] \in Launches
      <3>1. serverPc' = serverPc
        BY <2>1 DEF StopCheck, StopperGoes, serverVars
      <3> QED
        BY <1>0, <3>1 DEF OneUp, Up, InLoop, Ends, Held, InLine, NameOf
    <2>2. CASE path[Target] \notin Launches
      <3>1. StopperEnds("check")
        BY <2>2 DEF StopCheck
      <3>2. \A j \in Launches : NameOf(j) = Target => ~Up(j)
        BY <2>2, Ups
      <3>3. \A j \in Launches : Up(j) => serverPc'[j] = serverPc[j]
        BY <3>1, NameOfType
        DEF StopperEnds, Base, Up, InLoop, Loop, TypeOK
      <3>4. \A j \in Launches : Ends(j) => Ends(j)'
        BY <1>0, <3>3, Helds DEF Ends, Held, InLine
      <3> QED
        BY <1>0, <3>1, <3>2, <3>4, LaunchOneUp
    <2> QED
      BY <2>1, <2>2
  <1>4. \A k \in Launches : \A x : Held(x, k) => Held(x, k)'
    BY <1>0, <1>3, Helds DEF Held, InLine
  <1>5. OneActive'
    <2>1. \A h \in Hooks : hookPc[h] = "close" => Held(h, hookFd[h])'
      BY <1>0, <1>4 DEF OneActive, TypeOK
    <2> QED
      BY <1>0, <1>2, <2>1 DEF OneActive, QueueOf, NameOf
  <1>6. PipesCalm'
    <2> SUFFICES ASSUME NEW k \in Launches, Up(k)' PROVE PipeCalm(k)'
      BY DEF PipesCalm
    <2>1. PipeCalm(k) /\ serverPc'[k] = serverPc[k]
      BY <1>3 DEF PipesCalm
    <2>2. \A h \in Hooks : Held(h, k) =>
            hookFd[h] = k /\ hookPc[h] \in {"close", "sent"} /\ times[h] = 0
      BY <2>1 DEF PipeCalm, PipeHolds
    <2> QED
      BY <1>0, <1>1, <1>2, <2>1, <2>2, PipeKept
  <1>7. StopperCalm'
    <2>1. CASE path[Target] \in Launches
      <3>1. serverPc' = serverPc /\ Target' = Target
        BY <1>0, <2>1 DEF StopCheck, StopperGoes, serverVars, Target, NameOf
      <3>2. \A k \in Launches : ~Ends(k)'
        BY <1>0, <3>1 DEF StopperCalm, Ends, Held, InLine
      <3> QED
        BY <1>0, <2>1, <3>1, <3>2 DEF StopperCalm
    <2>2. CASE path[Target] \notin Launches
      BY <2>2 DEF StopCheck, StopperEnds, StopperCalm
    <2> QED
      BY <2>1, <2>2
  <1> QED
    BY <1>3, <1>5, <1>6, <1>7

\* The pipe is still there, and its server reads or is about to open it.
LEMMA StopOpenCalm ==
    ASSUME Base, Calm, CalmParts, StopOpen
    PROVE  CalmParts'
  <1> TypeOK
    BY DEF Base
  <1> USE DEF CalmParts
  <1> DEFINE q == path[Target]
  <1>0. /\ Target \in Names /\ q \in Launches /\ q # "none"
        /\ stopperPc = "open"
        /\ \A k \in Launches : fifo[k] \in FifoType(Procs, Pieces)
        /\ Stopper \in Procs /\ Stopper \notin Hooks
    BY NameOfType, LifecycleAssumption
    DEF StopOpen, StopperGoes, StopperEnds, StopperCalm, TypeOK, Procs
  <1>1. PICK p \in Launches : p = q
    BY <1>0
  <1>2. /\ stopperPc' = "write" /\ stopperFd' = p
        /\ SetFifo(p, OpenForWriting(fifo[p], Stopper))
        /\ UNCHANGED <<setting, job, path, serverPc, line, serverFd, hookPc,
                       hookFd, times>>
    BY <1>1 DEF StopOpen, StopperGoes, serverVars, hookVars
  <1>3. Up(p) /\ NameOf(p) = Target /\ Target' = Target
    BY <1>0, <1>1, <1>2, Ups DEF Target, NameOf
  <1>4. /\ \A k \in Launches : ~Ends(k)
        /\ \A h \in Hooks : ~Active(h)
    BY <1>0 DEF StopperCalm, OneActive
  <1>5. (\A x \in Pieces : ~Held(x, p)) /\ serverPc[p] \in {"open", "read"}
    BY <1>3, <1>4, NothingHeld
  <1>6. /\ OpenForWriting(fifo[p], Stopper) \in FifoType(Procs, Pieces)
        /\ fifo'[p] = OpenForWriting(fifo[p], Stopper)
        /\ fifo'[p].readers = fifo[p].readers
        /\ fifo'[p].writers = fifo[p].writers \cup {Stopper}
        /\ fifo'[p].data = fifo[p].data
        /\ fifo[p].readers = {} => fifo'[p].met = fifo[p].met
        /\ fifo[p].readers # {} =>
              fifo'[p].met = fifo[p].met \cup fifo[p].readers \cup {Stopper}
        /\ \A k \in Launches \ {p} : fifo'[k] = fifo[k]
    BY <1>0, <1>2, FifoOpenForWriting, SetFifoType
  <1>7. /\ \A k \in Launches : (Up(k)' <=> Up(k)) /\ (Ends(k)' <=> Ends(k))
        /\ \A k \in Launches : \A x : Held(x, k)' <=> Held(x, k)
        /\ \A h \in Hooks : Active(h)' <=> Active(h)
        /\ \A k \in Launches : NameOf(k)' = NameOf(k)
    BY <1>2, <1>6 DEF Up, InLoop, Ends, Held, InLine, Active, NameOf
  <1>8. \A r \in Procs, k \in Launches :
          Writes(r, k)' <=> Writes(r, k) \/ (r = Stopper /\ k = p)
    BY <1>0, <1>2 DEF Writes
  <1>9. OneUp'
    BY <1>2, <1>7 DEF OneUp, NameOf
  <1>10. OneActive'
    BY <1>2, <1>4, <1>7 DEF OneActive, Active, QueueOf, NameOf
  <1>11. PipeCalm(p)'
    <2>1. PipeCalm(p)
      BY <1>3 DEF PipesCalm
    <2>2. PipeEnds(p)'
      BY <1>2, <1>5, <1>6, <1>8, <2>1 DEF PipeCalm, PipeEnds
    <2>3. PipeHolds(p)'
      <3>1. Stop \in Pieces /\ Hooks \subseteq Pieces
        BY DEF Pieces
      <3> QED
        BY <1>2, <1>5, <1>6, <1>7, <3>1 DEF PipeHolds
    <2> QED
      BY <2>2, <2>3 DEF PipeCalm
  <1>12. PipesCalm'
    <2> SUFFICES ASSUME NEW k \in Launches, Up(k)', k # p PROVE PipeCalm(k)'
      BY <1>11 DEF PipesCalm
    <2>1. PipeCalm(k)
      BY <1>7 DEF PipesCalm
    <2>2. \A h \in Hooks : ~Held(h, k)
      BY <1>4, Helds
    <2> QED
      BY <1>2, <1>4, <1>6, <1>7, <1>8, <2>1, <2>2, PipeKept
  <1>13. StopperCalm'
    BY <1>1, <1>2, <1>3, <1>4, <1>7 DEF StopperCalm
  <1> QED
    BY <1>9, <1>10, <1>12, <1>13

\* While the stopper has the pipe open its server is there to read it.
LEMMA StopperMeets ==
    ASSUME Base, Calm, CalmParts, stopperPc \in {"write", "close"}
    PROVE  /\ stopperFd \in Launches /\ stopperFd \in Servers(Target)
           /\ Up(stopperFd) /\ PipeCalm(stopperFd)
           /\ NameOf(stopperFd) = Target /\ path[Target] = stopperFd
           /\ Stopper \in fifo[stopperFd].writers
           /\ serverPc[stopperFd] \in {"open", "read"}
           /\ fifo[stopperFd].readers # {} =>
                serverPc[stopperFd] = "read"
                /\ fifo[stopperFd].readers = {stopperFd}
  <1> TypeOK
    BY DEF Base
  <1> USE DEF CalmParts
  <1>1. /\ stopperFd \in Launches /\ Target \in Names
        /\ path[Target] = stopperFd /\ stopperFd # "none"
    BY NameOfType, LifecycleAssumption DEF StopperCalm, TypeOK
  <1>2. Up(stopperFd) /\ NameOf(stopperFd) = Target
    BY <1>1, Ups
  <1>3. PipeCalm(stopperFd) /\ stopperFd \in Servers(Target)
    BY <1>1, <1>2 DEF PipesCalm, Servers, Up, InLoop, Loop
  <1>4. Stopper \in fifo[stopperFd].writers
    BY <1>1, <1>3, Writers DEF PipeCalm, PipeEnds
  <1>5. serverPc[stopperFd] \in {"open", "read"}
    BY <1>2, <1>3, <1>4 DEF PipeCalm, PipeEnds, Up, InLoop, Loop
  <1> QED
    BY <1>1, <1>2, <1>3, <1>4, <1>5 DEF PipeCalm, PipeEnds

\* The server reads: the write arrives.
LEMMA StopWriteCalm ==
    ASSUME Base, Calm, CalmParts, StopWrite
    PROVE  CalmParts'
  <1> TypeOK
    BY DEF Base
  <1> USE DEF CalmParts
  <1>0. stopperPc = "write" /\ Stopper \in fifo[stopperFd].met
    BY DEF StopWrite, StopperGoes, StopperEnds
  <1>1. PICK p \in Launches : p = stopperFd
    BY DEF TypeOK
  <1>2. /\ Up(p) /\ PipeCalm(p) /\ path[Target] = p
        /\ fifo[p] \in FifoType(Procs, Pieces) /\ Stop \in Pieces
        /\ Writes(Stopper, p)
    BY <1>0, <1>1, StopperMeets DEF TypeOK, Procs, Pieces, Writes
  <1>3. fifo[p].readers # {} /\ serverPc[p] = "read"
    <2>1. serverPc[p] \in {"read", "eof"}
      BY <1>0, <1>1, <1>2 DEF PipeCalm, PipeEnds
    <2>2. fifo[p].readers # {}
      BY <1>2, <2>1 DEF PipeCalm, PipeEnds
    <2> QED
      BY <1>0, <1>1, <2>2, StopperMeets
  <1>4. /\ stopperPc' = "close" /\ stopperFd' = p
        /\ SetFifo(p, WritePiece(fifo[p], Stop))
        /\ UNCHANGED <<setting, job, path, serverPc, line, serverFd, hookPc,
                       hookFd, times>>
    BY <1>1, <1>3 DEF StopWrite, StopperGoes, serverVars, hookVars
  <1>5. /\ \A k \in Launches : ~Ends(k)
        /\ \A h \in Hooks : ~Active(h)
    BY <1>0 DEF StopperCalm, OneActive
  <1>6. \A x \in Pieces : ~Held(x, p)
    BY <1>5, NothingHeld
  <1>7. /\ fifo'[p].readers = fifo[p].readers
        /\ fifo'[p].writers = fifo[p].writers
        /\ fifo'[p].met = fifo[p].met
        /\ fifo'[p].data = fifo[p].data \cup {Stop}
        /\ \A k \in Launches \ {p} : fifo'[k] = fifo[k]
    BY <1>2, <1>4, FifoWritePiece, SetFifoType
  <1>8. /\ \A k \in Launches : \A x :
              Held(x, k)' <=> Held(x, k) \/ (x = Stop /\ k = p)
        /\ \A k \in Launches : Up(k)' <=> Up(k)
        /\ \A h \in Hooks : Active(h)' <=> Active(h)
        /\ \A k \in Launches : NameOf(k)' = NameOf(k)
        /\ Target' = Target
        /\ \A r, k : Writes(r, k)' <=> Writes(r, k)
    BY <1>0, <1>1, <1>3, <1>4, <1>7
    DEF Up, InLoop, Held, InLine, Active, NameOf, Target, Writes
  <1>9. \A k \in Launches : Ends(k) => Ends(k)'
    BY <1>5
  <1>10. OneUp'
    BY <1>4, <1>8, <1>9 DEF OneUp, NameOf
  <1>11. OneActive'
    BY <1>4, <1>5, <1>8 DEF OneActive, Active, QueueOf, NameOf
  <1>12. PipeCalm(p)'
    <2>1. PipeEnds(p)'
      BY <1>2, <1>3, <1>4, <1>7, <1>8 DEF PipeCalm, PipeEnds
    <2>2. \A h \in Hooks : h \in Pieces /\ h # Stop
      BY LifecycleAssumption DEF Pieces, Stop
    <2>3. Held(Stop, p)' /\ \A x \in Pieces : Held(x, p)' => x = Stop
      BY <1>6, <1>8
    <2>4. PipeHolds(p)'
      BY <1>2, <1>3, <1>4, <1>5, <1>8, <2>2, <2>3 DEF PipeHolds
    <2> QED
      BY <2>1, <2>4 DEF PipeCalm
  <1>13. PipesCalm'
    <2> SUFFICES ASSUME NEW k \in Launches, Up(k)', k # p PROVE PipeCalm(k)'
      BY <1>12 DEF PipesCalm
    <2>1. PipeCalm(k)
      BY <1>8 DEF PipesCalm
    <2>2. \A h \in Hooks : ~Held(h, k)
      BY <1>5, Helds
    <2> QED
      BY <1>4, <1>5, <1>7, <1>8, <2>1, <2>2, PipeKept
  <1>14. StopperCalm'
    BY <1>2, <1>4, <1>8 DEF StopperCalm
  <1> QED
    BY <1>10, <1>11, <1>13, <1>14

\* The server keeps the pipe, and has still to read the stop signal.
LEMMA StopCloseCalm ==
    ASSUME Base, Calm, CalmParts, StopClose
    PROVE  CalmParts'
  <1> TypeOK
    BY DEF Base
  <1> USE DEF CalmParts
  <1>0. /\ stopperPc = "close" /\ StopperEnds("close") /\ path' = path
        /\ stopperPc' = "idle" /\ setting' = setting
    BY DEF StopClose, StopperEnds
  <1>1. PICK p \in Launches : p = stopperFd
    BY DEF TypeOK
  <1>2. /\ Up(p) /\ PipeCalm(p) /\ path[Target] = p /\ NameOf(p) = Target
        /\ fifo[p] \in FifoType(Procs, Pieces)
        /\ Held(Stop, p)
        /\ serverPc[p] = "read" /\ fifo[p].readers = {p}
    <2>1. Held(Stop, p) /\ serverPc[p] \in {"open", "read"}
      BY <1>0, <1>1, StopperMeets DEF StopperCalm
    <2>2. serverPc[p] = "read"
      BY <2>1 DEF Held, InLine
    <2> QED
      BY <1>0, <1>1, <2>1, <2>2, StopperMeets
      DEF TypeOK, Procs, PipeCalm, PipeEnds
  <1>3. /\ fifo'[p].readers = fifo[p].readers
        /\ fifo'[p].writers = fifo[p].writers \ {Stopper}
        /\ fifo'[p].met = fifo[p].met \ {Stopper}
        /\ fifo'[p].data = fifo[p].data
        /\ \A k \in Launches \ {p} : fifo'[k] = fifo[k]
    <2>1. SetFifo(p, CloseEnd(fifo[p], Stopper)) /\ p # Stopper
      BY <1>1, LifecycleAssumption DEF StopClose
    <2>2. LET g == CloseEnd(fifo[p], Stopper)
          IN  /\ g \in FifoType(Procs, Pieces)
              /\ g.readers = {p}
              /\ g.writers = fifo[p].writers \ {Stopper}
              /\ g.met = fifo[p].met \ {Stopper}
              /\ g.data = fifo[p].data
      BY <1>2, <2>1, FifoCloseEnd
    <2> QED
      BY <1>2, <2>1, <2>2, SetFifoType
  <1>4. \A j \in Launches : Up(j) => serverPc'[j] = serverPc[j]
    BY <1>0, NameOfType DEF StopperEnds, Base, Up, InLoop, Loop, TypeOK
  <1>5. UNCHANGED <<line, hookPc, hookFd, times>>
    BY <1>0 DEF StopperEnds, hookVars
  <1>6. \A k \in Launches : \A x : Up(k) => (Held(x, k)' <=> Held(x, k))
    BY <1>3, <1>4, <1>5 DEF Held, InLine
  <1>7. \A j \in Launches : Ends(j) => Ends(j)'
    BY <1>4, <1>6, Helds DEF Ends
  <1>8. \A j \in Launches : NameOf(j) = Target /\ Up(j) => Ends(j)'
    BY <1>2, <1>7, Ups DEF Ends
  <1>9. OneUp' /\ \A k \in Launches : Up(k)' <=> Up(k)
    BY <1>0, <1>7, <1>8, LaunchOneUp
  <1>10. /\ \A h \in Hooks : Active(h)' <=> Active(h)
         /\ \A r \in Procs, k \in Launches \ {p} :
              Writes(r, k)' <=> Writes(r, k)
         /\ \A r \in Procs :
              Writes(r, p)' <=> Writes(r, p) /\ r # Stopper
    BY <1>0, <1>1, <1>5, LifecycleAssumption DEF Active, Writes
  <1>11. \A h \in Hooks : ~Active(h)
    BY <1>0 DEF OneActive
  <1>12. OneActive'
    BY <1>0, <1>5, <1>10, <1>11 DEF OneActive, Active, QueueOf, NameOf
  <1>13. PipeCalm(p)'
    <2>1. PipeEnds(p)'
      BY <1>2, <1>3, <1>4, <1>10 DEF PipeCalm, PipeEnds
    <2>2. Stop \in Pieces
      BY DEF Pieces
    <2>3. PipeHolds(p)'
      BY <1>2, <1>4, <1>5, <1>6, <1>10, <2>2 DEF PipeCalm, PipeHolds
    <2> QED
      BY <2>1, <2>3 DEF PipeCalm
  <1>14. PipesCalm'
    <2> SUFFICES ASSUME NEW k \in Launches, Up(k)', k # p PROVE PipeCalm(k)'
      BY <1>13 DEF PipesCalm
    <2>1. PipeCalm(k) /\ serverPc'[k] = serverPc[k]
      BY <1>4, <1>9 DEF PipesCalm
    <2>2. \A h \in Hooks : ~Held(h, k)
      BY <1>11, Helds
    <2> QED
      BY <1>3, <1>5, <1>10, <1>11, <2>1, <2>2, PipeKept
  <1>15. StopperCalm'
    BY <1>0 DEF StopperCalm
  <1> QED
    BY <1>9, <1>12, <1>14, <1>15

LEMMA StopperKeepsCalm ==
    ASSUME Base, Calm, CalmParts, StopperStep
    PROVE  CalmParts'
  <1>1. ~StopTimeout
    BY StopperMeets DEF StopTimeout, StopperGoes, Calm, Regular
  <1>2. ~StopRemove
    BY DEF StopRemove, StopperEnds, CalmParts, StopperCalm
  <1> QED
    BY <1>1, <1>2, StopCheckCalm, StopOpenCalm, StopWriteCalm, StopCloseCalm
    DEF StopperStep

-----------------------------------------------------------------------------
(* The server *)

\* mkfifo comes when the name is free and nobody has a pipe of it.
LEMMA MakePipeCalm ==
    ASSUME Base, Calm, CalmParts, NEW k \in Launches, MakePipe(k)
    PROVE  CalmParts'
  <1> TypeOK
    BY DEF Base
  <1> USE DEF CalmParts
  <1> DEFINE n == NameOf(k)
  <1>0. /\ serverPc[k] = "mkfifo" /\ NobodyStops(n)
        /\ n \in Names /\ k # "none"
    BY NameOfType, LifecycleAssumption
    DEF MakePipe, ServerGoes, Calm, Regular
  <1>1. stopperPc = "idle"
    BY <1>0 DEF Base, Calm, Regular
  <1>2. \A j \in Launches : NameOf(j) = n => ~Up(j)
    BY <1>0, Helds DEF OneUp, NobodyStops, Up, InLoop, Loop
  <1>3. path[n] = "none"
    BY <1>0, <1>2, Ups
  <1>4. /\ serverPc'[k] = "open" /\ path'[n] = k
        /\ fifo'[k] = EmptyFifo
        /\ \A j \in Launches \ {k} :
              serverPc'[j] = serverPc[j] /\ fifo'[j] = fifo[j]
        /\ \A m \in Names \ {n} : path'[m] = path[m]
        /\ UNCHANGED <<setting, job, stopperPc, stopperFd, line, serverFd,
                       hookPc, hookFd, times>>
    BY <1>0, <1>3
    DEF MakePipe, ServerGoes, SetPath, SetFifo, ServerOnly, TypeOK, stopperVars,
        hookVars
  <1>5. /\ \A x : ~Held(x, k) /\ ~Held(x, k)'
        /\ \A j \in Launches : \A x : Held(x, j)' <=> Held(x, j)
        /\ \A j \in Launches \ {k} : Up(j)' <=> Up(j)
        /\ Up(k)' /\ ~Ends(k) /\ ~Ends(k)'
        /\ \A j \in Launches : Ends(j)' <=> Ends(j)
        /\ \A h \in Hooks : Active(h)' <=> Active(h)
        /\ \A j \in Launches : NameOf(j)' = NameOf(j)
        /\ \A p, j : Writes(p, j)' <=> Writes(p, j)
    BY <1>0, <1>4
    DEF Up, InLoop, Loop, Held, InLine, Ends, Active, NameOf, Writes
  <1>6. \A p \in Procs : ~Writes(p, k)
    BY <1>2, Writers
  <1>7. OneUp'
    <2>1. \A j \in Launches : Up(j)' <=> (path'[NameOf(j)'] = j)
      BY <1>2, <1>4, <1>5, Ups DEF OneUp
    <2>2. \A m \in Names : path'[m] # "none" =>
            path'[m] \in Launches /\ setting'.nameOf[path'[m]] = m
      BY <1>0, <1>4 DEF OneUp, NameOf
    <2>3. \A i, j \in Launches :
            i # j /\ NameOf(i)' = NameOf(j)' /\ serverPc'[j] = "mkfifo" =>
              Ends(i)' \/ serverPc'[i] \in {"absent", "gone"}
      BY <1>0, <1>4, <1>5 DEF OneUp
    <2> QED
      BY <1>4, <2>1, <2>2, <2>3 DEF OneUp, NameOf
  <1>8. OneActive'
    <2>1. \A h \in Hooks : hookPc[h] \in {"write", "close"} =>
            QueueOf(h) \in Names /\ QueueOf(h) # n /\ QueueOf(h)' = QueueOf(h)
            /\ hookFd[h] \in Launches
      BY <1>3, <1>4, NameOfType, LifecycleAssumption
      DEF OneActive, TypeOK, QueueOf, NameOf
    <2> QED
      BY <1>1, <1>4, <1>5, <2>1 DEF OneActive
  <1>9. PipeCalm(k)'
    <2>1. PipeEnds(k)'
      BY <1>4, <1>5, <1>6, FifoEmpty DEF PipeEnds
    <2>2. PipeHolds(k)'
      BY <1>4, <1>5 DEF PipeHolds
    <2> QED
      BY <2>1, <2>2 DEF PipeCalm
  <1>10. PipesCalm'
    <2> SUFFICES ASSUME NEW j \in Launches, Up(j)', j # k PROVE PipeCalm(j)'
      BY <1>9 DEF PipesCalm
    <2>1. PipeCalm(j)
      BY <1>5 DEF PipesCalm
    <2>2. \A h \in Hooks : Held(h, j) =>
            hookFd[h] = j /\ hookPc[h] \in {"close", "sent"} /\ times[h] = 0
      BY <2>1 DEF PipeCalm, PipeHolds
    <2> QED
      BY <1>4, <1>5, <2>1, <2>2, PipeKept
  <1>11. StopperCalm'
    BY <1>1, <1>4 DEF StopperCalm
  <1> QED
    BY <1>7, <1>8, <1>10, <1>11

\* A server's step that leaves everything but its own pipe as it is: what the
\* other parts ask of it.
LEMMA ServerKeeps ==
    ASSUME Base, CalmParts, NEW k \in Launches,
           UNCHANGED <<setting, path, stopperPc, job, stopperFd, serverFd,
                       hookPc, hookFd, times>>,
           serverPc[k] # "mkfifo", Up(k), Up(k)', serverPc'[k] # "mkfifo",
           \A j \in Launches \ {k} :
              /\ serverPc'[j] = serverPc[j] /\ line'[j] = line[j]
              /\ fifo'[j] = fifo[j],
           Ends(k)' <=> Ends(k),
           \A h \in Hooks : hookPc[h] = "close" /\ Held(h, k) => Held(h, k)',
           stopperPc = "close" /\ stopperFd = k => Held(Stop, k)',
           PipeCalm(k)'
    PROVE  CalmParts'
  <1> TypeOK
    BY DEF Base
  <1> USE DEF CalmParts
  <1>1. /\ \A j \in Launches \ {k} : \A x : Held(x, j)' <=> Held(x, j)
        /\ \A j \in Launches : Up(j)' <=> Up(j)
        /\ \A h \in Hooks : Active(h)' <=> Active(h)
        /\ \A j \in Launches : NameOf(j)' = NameOf(j)
        /\ \A p, j : Writes(p, j)' <=> Writes(p, j)
        /\ Target' = Target
        /\ \A h \in Hooks : QueueOf(h)' = QueueOf(h)
    BY DEF Up, InLoop, Held, InLine, Active, NameOf, Writes, Target, QueueOf
  <1>2. \A j \in Launches : Ends(j)' <=> Ends(j)
    BY <1>1 DEF Ends
  <1>3. OneUp'
    <2>1. \A i, j \in Launches :
            i # j /\ NameOf(i)' = NameOf(j)' /\ serverPc'[j] = "mkfifo" =>
              Ends(i)' \/ serverPc'[i] \in {"absent", "gone"}
      BY <1>1, <1>2 DEF OneUp, Up, InLoop, Loop
    <2> QED
      BY <1>1, <2>1 DEF OneUp, NameOf
  <1>4. OneActive'
    <2>1. \A h \in Hooks : hookPc[h] = "close" => Held(h, hookFd[h])'
      BY <1>1 DEF OneActive, TypeOK
    <2> QED
      BY <1>1, <2>1 DEF OneActive
  <1>5. PipesCalm'
    <2> SUFFICES ASSUME NEW j \in Launches, Up(j)', j # k PROVE PipeCalm(j)'
      BY DEF PipesCalm
    <2>1. PipeCalm(j)
      BY <1>1 DEF PipesCalm
    <2>2. \A h \in Hooks : Held(h, j) =>
            hookFd[h] = j /\ hookPc[h] \in {"close", "sent"} /\ times[h] = 0
      BY <2>1 DEF PipeCalm, PipeHolds
    <2> QED
      BY <1>1, <2>1, <2>2, PipeKept
  <1>6. StopperCalm'
    <2>1. stopperPc = "close" => Held(Stop, stopperFd)'
      BY <1>1 DEF StopperCalm, TypeOK
    <2> QED
      BY <1>1, <1>2, <2>1 DEF StopperCalm
  <1> QED
    BY <1>3, <1>4, <1>5, <1>6

LEMMA OpenPipeCalm ==
    ASSUME Base, Calm, CalmParts, NEW k \in Launches, OpenPipe(k)
    PROVE  CalmParts'
  <1> TypeOK
    BY DEF Base
  <1>0. /\ serverPc[k] = "open" /\ Up(k) /\ path[NameOf(k)] = k
        /\ PipeCalm(k) /\ serverFd[k] = k
    BY Ups
    DEF OpenPipe, ServerGoes, CalmParts, PipesCalm, Up, InLoop, Loop, OneUp
  <1>1. /\ serverPc'[k] = "read" /\ line'[k] = {}
        /\ \A j \in Launches \ {k} :
              serverPc'[j] = serverPc[j] /\ line'[j] = line[j]
        /\ SetFifo(k, OpenForReading(fifo[k], k))
        /\ UNCHANGED <<setting, path, stopperPc, job, stopperFd, hookPc, hookFd,
                       times>>
    BY <1>0, LifecycleAssumption
    DEF OpenPipe, ServerGoes, ServerOnly, stopperVars, hookVars, TypeOK
  <1>2. serverFd' = serverFd
    BY <1>0, LifecycleAssumption DEF OpenPipe, TypeOK
  <1>3. /\ fifo[k].met = {} /\ fifo[k].data = {} /\ fifo[k].readers = {}
        /\ fifo[k] \in FifoType(Procs, Pieces) /\ k \in Procs
    BY <1>0 DEF PipeCalm, PipeEnds, TypeOK, Procs
  <1>4. /\ fifo'[k].readers = {k}
        /\ fifo'[k].writers = fifo[k].writers
        /\ fifo'[k].data = {}
        /\ fifo'[k].met \subseteq fifo[k].writers \cup {k}
        /\ fifo[k].writers = {} => fifo'[k].met = {}
        /\ \A j \in Launches \ {k} : fifo'[j] = fifo[j]
    BY <1>1, <1>3, FifoOpenForReading, SetFifoType
  <1>5. Up(k)' /\ \A x : ~Held(x, k) /\ ~Held(x, k)'
    BY <1>0, <1>1, <1>4 DEF Up, InLoop, Loop, Held, InLine
  <1>6. \A p, j : Writes(p, j)' <=> Writes(p, j)
    BY <1>1 DEF Writes
  <1>7. PipeCalm(k)'
    <2>1. PipeEnds(k)'
      BY <1>0, <1>1, <1>4, <1>6 DEF PipeCalm, PipeEnds
    <2>2. PipeHolds(k)'
      BY <1>1, <1>4, <1>5 DEF PipeHolds
    <2> QED
      BY <2>1, <2>2 DEF PipeCalm
  <1>8. Ends(k)' <=> Ends(k)
    BY <1>0, <1>1, <1>5 DEF Ends
  <1>9. stopperPc = "close" => stopperFd # k
    BY <1>5 DEF CalmParts, StopperCalm
  <1> QED
    BY <1>0, <1>1, <1>2, <1>4, <1>5, <1>7, <1>8, <1>9, ServerKeeps

LEMMA ReadDataCalm ==
    ASSUME Base, Calm, CalmParts, NEW k \in Launches, ReadData(k)
    PROVE  CalmParts'
  <1> TypeOK
    BY DEF Base
  <1>0. /\ serverPc[k] = "read" /\ Up(k) /\ PipeCalm(k) /\ serverFd[k] = k
        /\ fifo[k] \in FifoType(Procs, Pieces)
    BY
    DEF ReadData, CalmParts, PipesCalm, Up, InLoop, Loop, OneUp, TypeOK, Procs
  <1>1. /\ line'[k] = line[k] \cup fifo[k].data
        /\ \A j \in Launches \ {k} : line'[j] = line[j]
        /\ SetFifo(k, TakeAll(fifo[k]))
        /\ UNCHANGED <<setting, path, stopperPc, job, stopperFd, serverPc,
                       serverFd, hookPc, hookFd, times>>
    BY <1>0 DEF ReadData, ServerOnly, stopperVars, hookVars, TypeOK
  <1>2. /\ fifo'[k].readers = fifo[k].readers
        /\ fifo'[k].writers = fifo[k].writers
        /\ fifo'[k].met = fifo[k].met
        /\ fifo'[k].data = {}
        /\ \A j \in Launches \ {k} : fifo'[j] = fifo[j]
    BY <1>0, <1>1, FifoTakeAll, SetFifoType
  <1>3. /\ Up(k)' /\ (\A x : Held(x, k)' <=> Held(x, k))
        /\ Ends(k)' <=> Ends(k)
    BY <1>0, <1>1, <1>2 DEF Up, InLoop, Held, InLine, Ends
  <1>4. /\ \A p, j : Writes(p, j)' <=> Writes(p, j)
        /\ \A h \in Hooks : Active(h)' <=> Active(h)
    BY <1>1 DEF Writes, Active
  <1>5. PipeCalm(k)'
    <2>1. PipeEnds(k)'
      BY <1>0, <1>1, <1>2, <1>4 DEF PipeCalm, PipeEnds
    <2>2. PipeHolds(k)'
      BY <1>0, <1>1, <1>2, <1>3, <1>4 DEF PipeCalm, PipeHolds
    <2> QED
      BY <2>1, <2>2 DEF PipeCalm
  <1>6. stopperPc = "close" /\ stopperFd = k => Held(Stop, k)'
    BY <1>3 DEF CalmParts, StopperCalm
  <1> QED
    BY <1>0, <1>1, <1>2, <1>3, <1>5, <1>6, ServerKeeps

LEMMA ReadEofCalm ==
    ASSUME Base, Calm, CalmParts, NEW k \in Launches, ReadEof(k)
    PROVE  CalmParts'
  <1> TypeOK
    BY DEF Base
  <1>0. /\ serverPc[k] = "read" /\ Up(k) /\ PipeCalm(k) /\ serverFd[k] = k
        /\ k \in fifo[k].met /\ fifo[k].data = {} /\ fifo[k].writers = {}
    BY
    DEF ReadEof, ServerGoes, AtEof, CalmParts, PipesCalm, Up, InLoop, Loop,
        OneUp
  <1>1. /\ serverPc'[k] = "eof"
        /\ \A j \in Launches \ {k} : serverPc'[j] = serverPc[j]
        /\ UNCHANGED <<setting, path, fifo, stopperPc, job, stopperFd, line,
                       serverFd, hookPc, hookFd, times>>
    BY <1>0
    DEF ReadEof, ServerGoes, ServerOnly, fsVars, stopperVars, hookVars, TypeOK
  <1>2. /\ Up(k)' /\ (\A x : Held(x, k)' <=> Held(x, k))
        /\ Ends(k)' <=> Ends(k)
    BY <1>0, <1>1 DEF Up, InLoop, Loop, Held, InLine, Ends
  <1>3. /\ \A p, j : Writes(p, j)' <=> Writes(p, j)
        /\ \A h \in Hooks : Active(h)' <=> Active(h)
    BY <1>1 DEF Writes, Active
  <1>4. PipeCalm(k)'
    <2>1. PipeEnds(k)'
      BY <1>0, <1>1, <1>3 DEF PipeCalm, PipeEnds
    <2>2. PipeHolds(k)'
      BY <1>0, <1>1, <1>2, <1>3 DEF PipeCalm, PipeHolds
    <2> QED
      BY <2>1, <2>2 DEF PipeCalm
  <1>5. stopperPc = "close" /\ stopperFd = k => Held(Stop, k)'
    BY <1>2 DEF CalmParts, StopperCalm
  <1> QED
    BY <1>0, <1>1, <1>2, <1>4, <1>5, ServerKeeps

\* A server that closes its pipe leaves nothing in it, and prints nothing if it
\* read the stop signal.
LEMMA ClosePipeCalm ==
    ASSUME Base, Calm, CalmParts, NEW k \in Launches, ClosePipe(k)
    PROVE  CalmParts'
  <1> TypeOK
    BY DEF Base
  <1>0. /\ serverPc[k] = "eof" /\ Up(k) /\ PipeCalm(k) /\ serverFd[k] = k
        /\ fifo[k] \in FifoType(Procs, Pieces)
        /\ fifo[k].readers = {k} /\ fifo[k].writers = {} /\ fifo[k].data = {}
    <2>1. /\ serverPc[k] = "eof" /\ Up(k) /\ PipeCalm(k) /\ serverFd[k] = k
      BY
      DEF ClosePipe, ServerGoes, CalmParts, PipesCalm, Up, InLoop, Loop, OneUp
    <2> QED
      BY <2>1 DEF PipeCalm, PipeEnds, TypeOK, Procs
  <1>1. /\ serverPc'[k] = IF line[k] = {Stop} THEN "exit" ELSE "print"
        /\ \A j \in Launches \ {k} : serverPc'[j] = serverPc[j]
        /\ SetFifo(k, CloseEnd(fifo[k], k))
        /\ UNCHANGED <<setting, path, stopperPc, job, stopperFd, line, serverFd,
                       hookPc, hookFd, times>>
    BY <1>0 DEF ClosePipe, ServerGoes, ServerOnly, stopperVars, hookVars, TypeOK
  <1>2. /\ fifo'[k].readers = {} /\ fifo'[k].writers = {}
        /\ fifo'[k].met = {} /\ fifo'[k].data = {}
        /\ \A j \in Launches \ {k} : fifo'[j] = fifo[j]
    <2>1. fifo[k].met \subseteq {k}
      BY <1>0 DEF PipeCalm, PipeEnds
    <2> QED
      BY <1>0, <1>1, <2>1, FifoCloseEnd, SetFifoType
  <1>3. /\ Up(k)'
        /\ line[k] = {Stop} => \A x : ~Held(x, k)'
        /\ line[k] # {Stop} => \A x : Held(x, k)' <=> Held(x, k)
    BY <1>0, <1>1, <1>2 DEF Up, InLoop, Loop, Held, InLine
  <1>4. line[k] # {Stop} => ~Held(Stop, k)
    <2>1. line[k] \subseteq Pieces
      BY DEF TypeOK
    <2>2. \A x \in line[k] : Held(x, k)
      BY <1>0 DEF Held, InLine
    <2>3. Held(Stop, k) => Stop \in line[k] /\ \A x \in line[k] : x = Stop
      BY <1>0, <2>1, <2>2 DEF PipeCalm, PipeHolds, Held, InLine
    <2> QED
      BY <2>3
  <1>5. Ends(k)' <=> Ends(k)
    <2>1. CASE line[k] = {Stop}
      BY <1>0, <1>1, <2>1 DEF Ends, Held, InLine
    <2>2. CASE line[k] # {Stop}
      BY <1>0, <1>1, <1>3, <1>4, <2>2 DEF Ends
    <2> QED
      BY <2>1, <2>2
  <1>6. /\ \A p, j : Writes(p, j)' <=> Writes(p, j)
        /\ \A h \in Hooks : Active(h)' <=> Active(h)
    BY <1>1 DEF Writes, Active
  <1>7. PipeCalm(k)'
    <2>1. PipeEnds(k)'
      BY <1>0, <1>1, <1>2, <1>6 DEF PipeCalm, PipeEnds
    <2>2. CASE line[k] = {Stop}
      <3>1. PipeHolds(k)'
        BY <1>1, <1>2, <1>3, <2>2 DEF PipeHolds
      <3> QED
        BY <2>1, <3>1 DEF PipeCalm
    <2>3. CASE line[k] # {Stop}
      <3>1. PipeHolds(k)'
        BY <1>0, <1>1, <1>3, <1>4, <2>3 DEF PipeCalm, PipeHolds
      <3> QED
        BY <2>1, <3>1 DEF PipeCalm
    <2> QED
      BY <2>2, <2>3
  <1>8. \A h \in Hooks : Held(h, k) => Held(h, k)'
    <2>1. \A h \in Hooks : h # Stop
      BY LifecycleAssumption DEF Stop
    <2>2. line[k] = {Stop} => \A h \in Hooks : ~Held(h, k)
      BY <1>0, <2>1 DEF Held, InLine
    <2> QED
      BY <1>3, <2>2
  <1>9. ~(stopperPc = "close" /\ stopperFd = k)
    BY <1>0, StopperMeets
  <1> QED
    BY <1>0, <1>1, <1>2, <1>3, <1>5, <1>7, <1>8, <1>9, ServerKeeps

\* What a server prints is the request of the only hook on its way.
LEMMA PrintLineCalm ==
    ASSUME Base, Calm, CalmParts, NEW k \in Launches, PrintLine(k)
    PROVE  CalmParts'
  <1> TypeOK
    BY DEF Base
  <1>0. /\ serverPc[k] = "print" /\ serverPc'[k] = "open"
        /\ \A j \in Launches \ {k} : serverPc'[j] = serverPc[j]
        /\ Up(k) /\ PipeCalm(k)
        /\ UNCHANGED <<setting, path, fifo, stopperPc, job, stopperFd, line,
                       serverFd, hookPc, hookFd>>
    BY
    DEF PrintLine, ServerGoes, ServerOnly, CalmParts, PipesCalm, Up, InLoop,
        Loop, fsVars, stopperVars, hookVars, TypeOK
  <1>1. /\ fifo[k].writers = {} /\ fifo[k].data = {} /\ fifo[k].met = {}
        /\ fifo[k].readers = {}
        /\ ~Held(Stop, k)
        /\ \A h \in Hooks : Held(h, k) =>
              hookFd[h] = k /\ hookPc[h] \in {"close", "sent"} /\ times[h] = 0
    BY <1>0 DEF PipeCalm, PipeEnds, PipeHolds
  <1>2. PICK h \in Hooks : Held(h, k)
    BY <1>0, <1>1 DEF PipeCalm, PipeHolds, Pieces
  <1>3. /\ hookFd[h] = k /\ times[h] = 0 /\ Active(h)
        /\ h \in line[k]
        /\ \A g \in Hooks : Active(g) => g = h
    BY <1>0, <1>1, <1>2, Helds DEF CalmParts, OneActive, Held, InLine
  <1>4. hookPc[h] = "sent"
    <2>1. ~Writes(h, k)
      BY <1>0, <1>1 DEF PipeCalm, PipeEnds, Procs
    <2> QED
      BY <1>1, <1>2, <1>3, <2>1 DEF Writes
  <1>5. line[k] = {h}
    <2>1. line[k] \subseteq Pieces /\ \A x \in line[k] : Held(x, k)
      BY <1>0 DEF TypeOK, Held, InLine
    <2>2. \A g \in Hooks : Held(g, k) => g = h
      BY <1>3, Helds DEF CalmParts
    <2>3. \A x \in line[k] : x = h
      BY <1>1, <2>1, <2>2 DEF Pieces
    <2> QED
      BY <1>3, <2>3
  <1>6. times'[h] = 1 /\ \A g \in Hooks \ {h} : times'[g] = times[g]
    BY <1>3, <1>5 DEF PrintLine
  <1>7. /\ \A g \in Hooks : ~Active(g)'
        /\ \A p, j : Writes(p, j)' <=> Writes(p, j)
        /\ \A j \in Launches : NameOf(j)' = NameOf(j)
        /\ \A j \in Launches : Up(j)' <=> Up(j)
        /\ \A x : ~Held(x, k)'
        /\ \A j \in Launches \ {k} : \A x : Held(x, j)' <=> Held(x, j)
        /\ \A j \in Launches : Ends(j)' <=> Ends(j)
    <2>1. \A g \in Hooks : ~Active(g)'
      BY <1>0, <1>3, <1>4, <1>6 DEF Active
    <2>2. /\ \A p, j : Writes(p, j)' <=> Writes(p, j)
          /\ \A j \in Launches : NameOf(j)' = NameOf(j)
      BY <1>0 DEF Writes, NameOf
    <2>3. /\ \A j \in Launches : Up(j)' <=> Up(j)
          /\ \A x : ~Held(x, k)'
          /\ \A j \in Launches \ {k} : \A x : Held(x, j)' <=> Held(x, j)
      BY <1>0 DEF Up, InLoop, Loop, Held, InLine
    <2>4. \A j \in Launches : Ends(j)' <=> Ends(j)
      BY <1>0, <1>1, <2>3 DEF Ends
    <2> QED
      BY <2>1, <2>2, <2>3, <2>4
  <1>8. stopperPc = "idle" /\ stopperPc' = "idle"
    BY <1>0, <1>3 DEF CalmParts, OneActive
  <1>9. OneUp'
    <2>1. \A i, j \in Launches :
            i # j /\ NameOf(i)' = NameOf(j)' /\ serverPc'[j] = "mkfifo" =>
              Ends(i)' \/ serverPc'[i] \in {"absent", "gone"}
      BY <1>0, <1>7 DEF CalmParts, OneUp, Up, InLoop, Loop
    <2> QED
      BY <1>0, <1>7, <2>1 DEF CalmParts, OneUp, NameOf
  <1>10. OneActive'
    <2>1. \A g \in Hooks : hookPc[g] \notin {"write", "close"}
      BY <1>3, <1>4 DEF Active
    <2>2. \A g \in Hooks :
            times'[g] < 2 /\ (times'[g] > 0 => hookPc[g] = "sent")
      BY <1>4, <1>6 DEF CalmParts, OneActive
    <2> QED
      BY <1>0, <1>7, <1>8, <2>1, <2>2 DEF CalmParts, OneActive
  <1>11. PipeCalm(k)'
    <2>1. PipeEnds(k)'
      BY <1>0, <1>1, <1>7 DEF PipeCalm, PipeEnds
    <2>2. PipeHolds(k)'
      BY <1>0, <1>7 DEF PipeHolds
    <2> QED
      BY <2>1, <2>2 DEF PipeCalm
  <1>12. PipesCalm'
    <2> SUFFICES ASSUME NEW j \in Launches, Up(j)', j # k PROVE PipeCalm(j)'
      BY <1>11 DEF PipesCalm
    <2>1. PipeCalm(j)
      BY <1>7 DEF CalmParts, PipesCalm
    <2>2. \A g \in Hooks : ~Held(g, j)
      BY <1>3, Helds DEF CalmParts
    <2> QED
      BY <1>0, <1>7, <2>1, <2>2, PipeKept
  <1>13. StopperCalm'
    BY <1>8 DEF StopperCalm
  <1> QED
    BY <1>9, <1>10, <1>12, <1>13 DEF CalmParts

\* The trap removes the server's own pipe, which nobody writes to.
LEMMA ExitServerCalm ==
    ASSUME Base, Calm, CalmParts, NEW k \in Launches, ExitServer(k)
    PROVE  CalmParts'
  <1> TypeOK
    BY DEF Base
  <1> USE DEF CalmParts
  <1> DEFINE n == NameOf(k)
  <1>0. /\ serverPc[k] = "exit" /\ Up(k) /\ PipeCalm(k) /\ Ends(k)
        /\ n \in Names /\ path[n] = k
    BY Ups DEF ExitServer, ServerGoes, PipesCalm, Up, Ends
  <1>1. /\ serverPc'[k] = "gone" /\ path'[n] = "none"
        /\ \A j \in Launches \ {k} : serverPc'[j] = serverPc[j]
        /\ \A m \in Names \ {n} : path'[m] = path[m]
        /\ UNCHANGED <<setting, fifo, stopperPc, job, stopperFd, line, serverFd,
                       hookPc, hookFd, times>>
    BY <1>0
    DEF ExitServer, ServerGoes, SetPath, ServerOnly, TypeOK, stopperVars,
        hookVars
  <1>2. \A p \in Procs : ~Writes(p, k)
    BY <1>0 DEF PipeCalm, PipeEnds
  <1>3. /\ \A h \in Hooks : hookPc[h] \in {"write", "close"} =>
              hookFd[h] \in Launches \ {k} /\ QueueOf(h) \in Names \ {n}
        /\ stopperPc \in {"write", "close"} =>
              stopperFd \in Launches \ {k} /\ Target \in Names \ {n}
    <2>1. /\ \A h \in Hooks : hookPc[h] \in {"write", "close"} =>
                hookFd[h] # k
          /\ stopperPc \in {"write", "close"} => stopperFd # k
      BY <1>2, Writers
    <2> QED
      BY <1>0, <2>1, NameOfType DEF OneActive, StopperCalm, TypeOK
  <1>4. /\ \A j \in Launches \ {k} : Up(j)' <=> Up(j)
        /\ \A j \in Launches \ {k} : \A x : Held(x, j)' <=> Held(x, j)
        /\ \A j \in Launches \ {k} : Ends(j)' <=> Ends(j)
        /\ ~Up(k)'
        /\ \A h \in Hooks : Active(h)' <=> Active(h)
        /\ \A j \in Launches : NameOf(j)' = NameOf(j)
        /\ \A p, j : Writes(p, j)' <=> Writes(p, j)
        /\ Target' = Target
        /\ \A h \in Hooks : QueueOf(h)' = QueueOf(h)
    BY <1>1
    DEF Up, InLoop, Loop, Held, InLine, Ends, Active, NameOf, Writes, Target,
        QueueOf
  <1>5. OneUp'
    <2>1. \A j \in Launches : Up(j)' <=> (path'[NameOf(j)'] = j)
      BY <1>0, <1>1, <1>4, Ups, LifecycleAssumption DEF OneUp
    <2>2. \A m \in Names : path'[m] # "none" =>
            path'[m] \in Launches /\ setting'.nameOf[path'[m]] = m
      BY <1>1 DEF OneUp, NameOf
    <2>3. \A i, j \in Launches :
            i # j /\ NameOf(i)' = NameOf(j)' /\ serverPc'[j] = "mkfifo" =>
              Ends(i)' \/ serverPc'[i] \in {"absent", "gone"}
      BY <1>1, <1>4 DEF OneUp
    <2> QED
      BY <1>1, <2>1, <2>2, <2>3 DEF OneUp, NameOf
  <1>6. OneActive'
    <2>1. \A h \in Hooks : hookPc[h] \in {"write", "close"} =>
            path'[QueueOf(h)'] = hookFd[h]
      BY <1>1, <1>3, <1>4 DEF OneActive
    <2>2. \A h \in Hooks : hookPc[h] = "close" => Held(h, hookFd[h])'
      BY <1>1, <1>3, <1>4 DEF OneActive
    <2> QED
      BY <1>1, <1>4, <2>1, <2>2 DEF OneActive
  <1>7. PipesCalm'
    <2> SUFFICES ASSUME NEW j \in Launches, Up(j)' PROVE PipeCalm(j)'
      BY DEF PipesCalm
    <2>1. j # k /\ PipeCalm(j)
      BY <1>4 DEF PipesCalm
    <2>2. \A h \in Hooks : Held(h, j) =>
            hookFd[h] = j /\ hookPc[h] \in {"close", "sent"} /\ times[h] = 0
      BY <2>1 DEF PipeCalm, PipeHolds
    <2> QED
      BY <1>1, <1>4, <2>1, <2>2, PipeKept
  <1>8. StopperCalm'
    <2>1. stopperPc \in {"idle", "close"}
      BY <1>0 DEF StopperCalm, TypeOK, StopperPc
    <2>2. stopperPc = "close" =>
            /\ path'[Target'] = stopperFd'
            /\ Held(Stop, stopperFd)'
      BY <1>1, <1>3, <1>4 DEF StopperCalm
    <2> QED
      BY <1>1, <2>1, <2>2 DEF StopperCalm
  <1> QED
    BY <1>5, <1>6, <1>7, <1>8

LEMMA ServerKeepsCalm ==
    ASSUME Base, Calm, CalmParts, NEW k \in Launches, ServerStep(k)
    PROVE  CalmParts'
  BY MakePipeCalm, OpenPipeCalm, ReadDataCalm, ReadEofCalm, ClosePipeCalm,
     PrintLineCalm, ExitServerCalm
  DEF ServerStep

-----------------------------------------------------------------------------
(* The hooks *)

\* A step of one hook, which has its pipe open before or after it: what the
\* other servers see of it.
LEMMA HookKeeps ==
    ASSUME Base, CalmParts, NEW h \in Hooks, NEW k \in Launches, Up(k),
           UNCHANGED <<setting, path, stopperPc, job, stopperFd, serverPc, line,
                       serverFd, times>>,
           hookFd'[h] = k, hookPc[h] # "ready" => hookFd[h] = k,
           \A g \in Hooks \ {h} :
              hookPc'[g] = hookPc[g] /\ hookFd'[g] = hookFd[g],
           \A j \in Launches \ {k} : fifo'[j] = fifo[j],
           \A x : Held(x, k)' <=> Held(x, k) \/ (x = h /\ hookPc'[h] = "close"),
           PipeCalm(k)', OneActive', stopperPc = "idle"
    PROVE  CalmParts'
  <1> TypeOK
    BY DEF Base
  <1> USE DEF CalmParts
  <1>1. /\ \A j \in Launches \ {k} : \A x : Held(x, j)' <=> Held(x, j)
        /\ \A j \in Launches : Up(j)' <=> Up(j)
        /\ \A j \in Launches : NameOf(j)' = NameOf(j)
        /\ \A j \in Launches \ {k} : \A p : Writes(p, j)' <=> Writes(p, j)
    BY DEF Up, InLoop, Held, InLine, NameOf, Writes
  <1>2. \A j \in Launches : Ends(j)' <=> Ends(j)
    BY <1>1, LifecycleAssumption DEF Ends, Stop
  <1>3. OneUp'
    <2>1. \A i, j \in Launches :
            i # j /\ NameOf(i)' = NameOf(j)' /\ serverPc'[j] = "mkfifo" =>
              Ends(i)' \/ serverPc'[i] \in {"absent", "gone"}
      BY <1>1, <1>2 DEF OneUp
    <2> QED
      BY <1>1, <2>1 DEF OneUp, NameOf
  <1>4. PipesCalm'
    <2> SUFFICES ASSUME NEW j \in Launches, Up(j)', j # k PROVE PipeCalm(j)'
      BY DEF PipesCalm
    <2>1. PipeCalm(j)
      BY <1>1 DEF PipesCalm
    <2>2. \A g \in Hooks : Held(g, j) =>
            /\ g # h /\ hookFd[g] = j /\ hookPc[g] \in {"close", "sent"}
            /\ times[g] = 0
      BY <2>1 DEF PipeCalm, PipeHolds
    <2>3. \A g \in Hooks : Active(g)' /\ hookFd'[g] = j =>
            Active(g) /\ hookFd[g] = j
      BY DEF Active
    <2> QED
      BY <1>1, <2>1, <2>2, <2>3, PipeKept
  <1>5. StopperCalm'
    BY DEF StopperCalm
  <1> QED
    BY <1>3, <1>4, <1>5

\* A hook comes when no other is on its way, and finds a server that is
\* listening or about to.
LEMMA OpenQueueCalm ==
    ASSUME Base, Calm, CalmParts, NEW h \in Hooks, OpenQueue(h)
    PROVE  CalmParts'
  <1> TypeOK
    BY DEF Base
  <1> USE DEF CalmParts
  <1>0. /\ MaySend(h) /\ HooksCalm /\ stopperPc = "idle"
        /\ NobodyStops(QueueOf(h))
        /\ QueueOf(h) = NameOf(LaunchOf[h]) /\ QueueOf(h) \in Names
        /\ hookPc[h] = "ready"
    BY NameOfType DEF OpenQueue, MaySend, Calm, QueueOf, HookGoes
  <1>1. PICK k \in Servers(QueueOf(h)) : InLoop(k)
    BY <1>0 DEF MaySend, Calm
  <1>2. /\ k \in Launches /\ Up(k) /\ path[QueueOf(h)] = k /\ PipeCalm(k)
        /\ ~Ends(k)
        /\ fifo[k] \in FifoType(Procs, Pieces) /\ h \in Procs
    <2>1. k \in Launches /\ NameOf(k) = QueueOf(h) /\ Up(k)
      BY <1>1 DEF Servers, Up
    <2>2. ~Ends(k)
      BY <1>0, <1>1, <2>1, Helds DEF NobodyStops
    <2> QED
      BY <2>1, <2>2, Ups DEF PipesCalm, TypeOK, Procs
  <1>3. \A g \in Hooks : ~Active(g)
    BY <1>0 DEF HooksCalm, Active, OneActive
  <1>4. (\A x \in Pieces : ~Held(x, k)) /\ serverPc[k] \in {"open", "read"}
    BY <1>2, <1>3, NothingHeld
  <1>5. /\ hookPc'[h] = "write" /\ hookFd'[h] = k
        /\ \A g \in Hooks \ {h} :
              hookPc'[g] = hookPc[g] /\ hookFd'[g] = hookFd[g]
        /\ SetFifo(k, OpenForWriting(fifo[k], h))
        /\ UNCHANGED <<setting, path, stopperPc, job, stopperFd, serverPc, line,
                       serverFd, times>>
    BY <1>2
    DEF OpenQueue, HookGoes, HookOnly, TypeOK, stopperVars, serverVars
  <1>6. /\ fifo'[k].readers = fifo[k].readers
        /\ fifo'[k].writers = fifo[k].writers \cup {h}
        /\ fifo'[k].data = fifo[k].data
        /\ fifo[k].readers = {} => fifo'[k].met = fifo[k].met
        /\ fifo[k].readers # {} =>
              fifo'[k].met = fifo[k].met \cup fifo[k].readers \cup {h}
        /\ \A j \in Launches \ {k} : fifo'[j] = fifo[j]
    BY <1>2, <1>5, FifoOpenForWriting, SetFifoType
  <1>7. /\ \A x : Held(x, k)' <=> Held(x, k)
        /\ \A g \in Hooks : Active(g)' <=> g = h
        /\ \A p \in Procs : Writes(p, k)' <=> Writes(p, k) \/ p = h
        /\ \A g \in Hooks : QueueOf(g)' = QueueOf(g)
    BY <1>0, <1>3, <1>5, <1>6 DEF Held, InLine, Active, Writes, QueueOf, NameOf
  <1>8. PipeCalm(k)'
    <2>1. PipeEnds(k)'
      BY <1>2, <1>4, <1>5, <1>6, <1>7 DEF PipeCalm, PipeEnds
    <2>2. Stop \in Pieces /\ Hooks \subseteq Pieces
      BY DEF Pieces
    <2>3. PipeHolds(k)'
      BY <1>4, <1>5, <1>6, <1>7, <2>2 DEF PipeHolds
    <2> QED
      BY <2>1, <2>3 DEF PipeCalm
  <1>9. OneActive'
    <2>1. times[h] = 0
      BY <1>0 DEF OneActive, TypeOK
    <2>2. \A g \in Hooks \ {h} : hookPc[g] \notin {"write", "close"}
      BY <1>3 DEF Active
    <2> QED
      BY <1>0, <1>2, <1>5, <1>7, <2>1, <2>2 DEF OneActive
  <1> QED
    BY <1>0, <1>2, <1>5, <1>6, <1>7, <1>8, <1>9, HookKeeps

\* While a hook has the pipe open its server reads it.
LEMMA HookMeets ==
    ASSUME Base, CalmParts, NEW h \in Hooks, hookPc[h] \in {"write", "close"}
    PROVE  /\ hookFd[h] \in Launches /\ Up(hookFd[h]) /\ PipeCalm(hookFd[h])
           /\ path[QueueOf(h)] = hookFd[h]
           /\ h \in fifo[hookFd[h]].writers
           /\ serverPc[hookFd[h]] \in {"open", "read"}
           /\ serverPc[hookFd[h]] = "read" =>
                fifo[hookFd[h]].readers = {hookFd[h]}
           /\ ~Held(Stop, hookFd[h])
           /\ times[h] = 0 /\ stopperPc = "idle"
           /\ Active(h) /\ \A g \in Hooks : Active(g) => g = h
  <1> TypeOK
    BY DEF Base
  <1> USE DEF CalmParts
  <1>1. /\ hookFd[h] \in Launches /\ Writes(h, hookFd[h]) /\ h \in Procs
        /\ Up(hookFd[h]) /\ path[QueueOf(h)] = hookFd[h]
    BY Writers DEF OneActive
  <1>2. PipeCalm(hookFd[h]) /\ h \in fifo[hookFd[h]].writers
    BY <1>1 DEF PipesCalm, PipeCalm, PipeEnds
  <1>3. /\ serverPc[hookFd[h]] \in {"open", "read"}
        /\ serverPc[hookFd[h]] = "read" =>
              fifo[hookFd[h]].readers = {hookFd[h]}
    BY <1>1, <1>2 DEF PipeCalm, PipeEnds, Up, InLoop, Loop
  <1>4. /\ Active(h) /\ stopperPc = "idle"
        /\ \A g \in Hooks : Active(g) => g = h
    BY DEF Active, OneActive
  <1>5. times[h] = 0
    BY DEF OneActive, TypeOK
  <1>6. ~Held(Stop, hookFd[h])
    BY <1>2, <1>4 DEF PipeCalm, PipeHolds
  <1> QED
    BY <1>1, <1>2, <1>3, <1>4, <1>5, <1>6

LEMMA WriteQueueCalm ==
    ASSUME Base, Calm, CalmParts, NEW h \in Hooks, WriteQueue(h)
    PROVE  CalmParts'
  <1> TypeOK
    BY DEF Base
  <1> USE DEF CalmParts
  <1>0. hookPc[h] = "write" /\ h \in fifo[hookFd[h]].met
    BY DEF WriteQueue, HookGoes
  <1>1. PICK k \in Launches : k = hookFd[h]
    BY DEF TypeOK
  <1>2. /\ Up(k) /\ PipeCalm(k) /\ h \in fifo[k].writers
        /\ serverPc[k] = "read" /\ fifo[k].readers = {k}
        /\ fifo[k] \in FifoType(Procs, Pieces) /\ h \in Pieces
        /\ h # Stop
    <2>1. serverPc[k] = "read"
      BY <1>0, <1>1, HookMeets DEF PipeCalm, PipeEnds
    <2> QED
      BY <1>0, <1>1, <2>1, HookMeets, LifecycleAssumption
      DEF TypeOK, Procs, Pieces, Stop
  <1>3. /\ hookPc'[h] = "close" /\ hookFd' = hookFd
        /\ \A g \in Hooks \ {h} : hookPc'[g] = hookPc[g]
        /\ SetFifo(k, WritePiece(fifo[k], h))
        /\ UNCHANGED <<setting, path, stopperPc, job, stopperFd, serverPc, line,
                       serverFd, times>>
    BY <1>1, <1>2
    DEF WriteQueue, HookGoes, HookOnly, TypeOK, stopperVars, serverVars
  <1>4. /\ fifo'[k].readers = fifo[k].readers
        /\ fifo'[k].writers = fifo[k].writers
        /\ fifo'[k].met = fifo[k].met
        /\ fifo'[k].data = fifo[k].data \cup {h}
        /\ \A j \in Launches \ {k} : fifo'[j] = fifo[j]
    BY <1>2, <1>3, FifoWritePiece, SetFifoType
  <1>5. /\ \A x : Held(x, k)' <=> Held(x, k) \/ x = h
        /\ \A g \in Hooks : Active(g)' <=> Active(g)
        /\ \A p, j : Writes(p, j)' <=> Writes(p, j)
        /\ \A g \in Hooks : QueueOf(g)' = QueueOf(g)
    BY <1>0, <1>2, <1>3, <1>4 DEF Held, InLine, Active, Writes, QueueOf, NameOf
  <1>6. /\ ~Held(Stop, k) /\ times[h] = 0 /\ stopperPc = "idle"
        /\ \A g \in Hooks : Active(g) => g = h
    BY <1>0, <1>1, HookMeets
  <1>7. PipeCalm(k)'
    <2>1. PipeEnds(k)'
      BY <1>2, <1>3, <1>4, <1>5 DEF PipeCalm, PipeEnds
    <2>2. PipeHolds(k)'
      BY <1>1, <1>2, <1>3, <1>4, <1>5, <1>6 DEF PipeCalm, PipeHolds
    <2> QED
      BY <2>1, <2>2 DEF PipeCalm
  <1>8. OneActive'
    <2>1. \A g \in Hooks \ {h} : hookPc[g] \notin {"write", "close"}
      BY <1>6 DEF Active
    <2>2. Held(h, hookFd[h])'
      BY <1>1, <1>3, <1>5
    <2> QED
      BY <1>0, <1>3, <1>5, <1>6, <2>1, <2>2 DEF OneActive
  <1> QED
    BY <1>1, <1>2, <1>3, <1>4, <1>5, <1>6, <1>7, <1>8, HookKeeps

LEMMA CloseQueueCalm ==
    ASSUME Base, Calm, CalmParts, NEW h \in Hooks, CloseQueue(h)
    PROVE  CalmParts'
  <1> TypeOK
    BY DEF Base
  <1> USE DEF CalmParts
  <1>0. hookPc[h] = "close"
    BY DEF CloseQueue, HookGoes
  <1>1. PICK k \in Launches : k = hookFd[h]
    BY DEF TypeOK
  <1>2. /\ Up(k) /\ PipeCalm(k) /\ Held(h, k)
        /\ serverPc[k] = "read" /\ fifo[k].readers = {k}
        /\ fifo[k] \in FifoType(Procs, Pieces) /\ h \in Pieces
    <2>1. Held(h, k) /\ serverPc[k] \in {"open", "read"}
      BY <1>0, <1>1, HookMeets DEF OneActive
    <2>2. serverPc[k] = "read"
      BY <2>1 DEF Held, InLine
    <2> QED
      BY <1>0, <1>1, <2>1, <2>2, HookMeets DEF TypeOK, Procs, Pieces
  <1>3. /\ hookPc'[h] = "sent" /\ hookFd' = hookFd
        /\ \A g \in Hooks \ {h} : hookPc'[g] = hookPc[g]
        /\ SetFifo(k, CloseEnd(fifo[k], h))
        /\ UNCHANGED <<setting, path, stopperPc, job, stopperFd, serverPc, line,
                       serverFd, times>>
    BY <1>1
    DEF CloseQueue, HookGoes, HookOnly, TypeOK, stopperVars, serverVars
  <1>4. /\ fifo'[k].readers = fifo[k].readers
        /\ fifo'[k].writers = fifo[k].writers \ {h}
        /\ fifo'[k].met = fifo[k].met \ {h}
        /\ fifo'[k].data = fifo[k].data
        /\ \A j \in Launches \ {k} : fifo'[j] = fifo[j]
    <2>1. k # h
      BY LifecycleAssumption
    <2>2. LET g == CloseEnd(fifo[k], h)
          IN  /\ g \in FifoType(Procs, Pieces)
              /\ g.readers = {k}
              /\ g.writers = fifo[k].writers \ {h}
              /\ g.met = fifo[k].met \ {h}
              /\ g.data = fifo[k].data
      BY <1>2, <2>1, FifoCloseEnd
    <2> QED
      BY <1>2, <1>3, <2>2, SetFifoType
  <1>5. /\ ~Held(Stop, k) /\ times[h] = 0 /\ stopperPc = "idle"
        /\ \A g \in Hooks : Active(g) => g = h
    BY <1>0, <1>1, HookMeets
  <1>6. /\ \A x : Held(x, k)' <=> Held(x, k)
        /\ \A g \in Hooks : Active(g)' <=> Active(g)
        /\ \A p \in Procs : Writes(p, k)' <=> Writes(p, k) /\ p # h
        /\ \A g \in Hooks : QueueOf(g)' = QueueOf(g)
    BY <1>0, <1>2, <1>3, <1>4, <1>5, LifecycleAssumption
    DEF Held, InLine, Active, Writes, QueueOf, NameOf
  <1>7. PipeCalm(k)'
    <2>1. PipeEnds(k)'
      BY <1>2, <1>3, <1>4, <1>6 DEF PipeCalm, PipeEnds
    <2>2. PipeHolds(k)'
      BY <1>1, <1>2, <1>3, <1>4, <1>5, <1>6 DEF PipeCalm, PipeHolds
    <2> QED
      BY <2>1, <2>2 DEF PipeCalm
  <1>8. OneActive'
    <2>1. \A g \in Hooks \ {h} : hookPc[g] \notin {"write", "close"}
      BY <1>5 DEF Active
    <2> QED
      BY <1>3, <1>5, <1>6, <2>1 DEF OneActive
  <1> QED
    BY <1>1, <1>2, <1>3, <1>4, <1>5, <1>6, <1>7, <1>8, HookKeeps

-----------------------------------------------------------------------------
(* What the two invariants are for *)

LEMMA NextCalm == CalmInv /\ [Next]_vars => CalmInv'
  <1> SUFFICES ASSUME CalmInv, [Next]_vars PROVE CalmInv'
    OBVIOUS
  <1>1. Base /\ Base'
    BY NextBase DEF CalmInv
  <1>2. setting' = setting
    BY SettingStays DEF vars
  <1>3. Calm' <=> Calm
    BY <1>2 DEF Calm, Regular, Prompt, Settled, Quiet
  <1>4. ASSUME Calm, Next PROVE CalmParts'
    <2>1. CalmParts
      BY <1>4 DEF CalmInv
    <2>2. ASSUME NEW k \in Launches, MainEnds(k)
          PROVE  CalmParts'
      BY <2>1, <2>2, NothingStirs DEF MainEnds, fsVars
    <2> QED
      BY <1>1, <1>4, <2>1, <2>2, BeginStopCalm, StopperKeepsCalm,
         ServerKeepsCalm, OpenQueueCalm, WriteQueueCalm, CloseQueueCalm
      DEF Next
  <1>5. ASSUME Calm, UNCHANGED vars PROVE CalmParts'
    BY <1>5, NothingStirs DEF CalmInv, vars, fsVars, stopperVars
  <1> QED
    BY <1>1, <1>3, <1>4, <1>5 DEF CalmInv

\* A server that comes and goes as the properties ask prints no request twice,
\* with names of one's own (PiecesOnce) and with shared ones (OneActive).
THEOREM PrintedOnce == Spec => []NoRepeat
  <1>1. OwnInv /\ CalmInv => NoRepeat
    BY
    DEF OwnInv, CalmInv, NoRepeat, Own, Calm, CalmParts, PiecesOnce, OneActive
  <1> QED
    BY <1>1, InitOwn, NextOwn, InitCalm, NextCalm, PTL DEF Spec

\* Of the servers of one name only the one the name leads to takes requests.
THEOREM NeverTwoReaders == Spec => []OneReader
  <1>1. CalmInv => OneReader
    <2> SUFFICES ASSUME CalmInv, Calm, NEW j \in Launches, NEW k \in Launches,
                        NameOf(j) = NameOf(k), InLoop(j), InLoop(k)
                 PROVE  j = k
      BY DEF OneReader, Calm
    <2>1. Up(j) /\ Up(k)
      BY DEF Up
    <2> QED
      BY <2>1, Ups DEF CalmInv, Base, CalmParts
  <1> QED
    BY <1>1, InitCalm, NextCalm, PTL DEF Spec

\* What a name leads to is the pipe of a server that is still to exit.
THEOREM NothingIsLeft == Spec => []NoPipeLeft
  <1>1. CalmInv => NoPipeLeft
    <2> SUFFICES ASSUME CalmInv, Calm, NEW n \in Names, Servers(n) = {},
                        path[n] # "none"
                 PROVE  FALSE
      BY DEF NoPipeLeft, Calm
    <2>1. path[n] \in Launches /\ NameOf(path[n]) = n /\ Up(path[n])
      BY Ups DEF CalmInv, Base, CalmParts
    <2> QED
      BY <2>1 DEF Servers, Up, InLoop, Loop
  <1> QED
    BY <1>1, InitCalm, NextCalm, PTL DEF Spec
=============================================================================
