--------------------------- MODULE ServerLifecycle ---------------------------
(***************************************************************************)
(* The life of launcher servers on POSIX systems: launchDebugeeConfig      *)
(* (deepDebug.ts:384-451) stops the server that may still serve the pipe   *)
(* and spawns a new one, server.sh makes the pipe, reads requests until it *)
(* reads "stopped", and removes the pipe by name on EXIT; the end of the   *)
(* main session sends "stopped" again (deepDebug.ts:98-106).               *)
(*                                                                         *)
(* The name of the pipe is random, or fixed by the launch argument         *)
(* messageQueueName (deepDebug.ts:386).  With a fixed name the servers of  *)
(* successive launches meet at one name, and a name says nothing of which  *)
(* pipe it stands for: a pipe is known here by the server that made it.    *)
(* Where the name leads nowhere, the server's read fails at once and LINE  *)
(* keeps its value, and printf makes a regular file.                       *)
(*                                                                         *)
(* A request is one piece; what becomes of requests that are written at    *)
(* the same time is the subject of LauncherQueue.  The locks never wait    *)
(* (module DirLock) and are left out.                                      *)
(***************************************************************************)
EXTENDS Naturals, Sequences, Fifo

CONSTANTS
    Launches,    \* "deepdbg" launches of one VS Code window, in any order
    Hooks,       \* hook processes, one request each
    Stopper,     \* the process running "server.sh PIPE stopped"
    LaunchOf,    \* the launch whose debuggee runs each hook
    Names,       \* names of pipes
    Settings     \* what the environment may be like

ASSUME LifecycleAssumption ==
    /\ Stopper \notin Hooks \cup Launches
    /\ Hooks \cap Launches = {}
    /\ Launches # {}
    /\ {"none", "file"} \cap Launches = {}
    /\ "stopped" \notin Hooks
    /\ LaunchOf \in [Hooks -> Launches]
    /\ Settings \subseteq [nameOf : [Launches -> Names], hooks : SUBSET Hooks,
                           quiet : BOOLEAN, prompt : BOOLEAN, settled : BOOLEAN]

\* One setting is drawn at the start and never changes:
\*   nameOf    the pipe name of each launch
\*   hooks     the hooks the debuggees may start
\*   quiet     hooks keep away from the moments servers are stopped
\*   prompt    one second is enough for a server to get back to its pipe
\*   settled   servers come up, and exit, before anything else happens
VARIABLES
    setting,     \* what the environment is like
    path,        \* what each name stands for: "none", "file" or a pipe
    file,        \* the content of the regular file, if it is one
    fifo,        \* the pipes, by the server that made them
    main,        \* the main debug session of each launch
    events,      \* main sessions that ended and were not handled, in order
    stopperPc,   \* the extension waits for the stopper unless this is "idle"
    job,         \* what the stopper is for: [what, launch]
    stopperFd,   \* the pipe the stopper has opened
    serverPc, line, serverFd,
    hookPc, hookFd,
    times        \* times each request was printed: 0, 1, or 2 for several

stopperVars == <<events, stopperPc, job, stopperFd>>
serverVars == <<serverPc, line, serverFd>>
hookVars == <<hookPc, hookFd>>
fsVars == <<path, file, fifo>>
vars == <<setting, fsVars, main, stopperVars, serverVars, hookVars, times>>

NameOf(k) == setting.nameOf[k]
Quiet == setting.quiet
Prompt == setting.prompt
Settled == setting.settled

OwnNames == \A j, k \in Launches : NameOf(j) = NameOf(k) => j = k

Stop == "stopped"
Pieces == Hooks \cup {Stop}
MainState == {"none", "running", "terminal", "over"}
Jobs == [what : {"launch", "end"}, launch : Launches]
StopperPc == {"idle", "check", "open", "write", "close", "rm"}
ServerPc == {"absent", "mkfifo", "open", "read", "eof", "print", "exit", "gone"}
HookPc == {"ready", "write", "close", "sent", "killed"}

Loop == {"open", "read", "eof", "print"}

InLoop(k) == serverPc[k] \in Loop

Target == NameOf(job.launch)

QueueOf(h) == NameOf(LaunchOf[h])

\* The servers that may still come to a name's pipe.
Servers(name) == {k \in Launches :
                    NameOf(k) = name /\ serverPc[k] \notin {"absent", "gone"}}

\* A server that was told to stop and is not through with it.
Stops(k) ==
    \/ serverPc[k] = "exit"
    \/ serverPc[k] \in {"read", "eof"} /\ Stop \in line[k]
    \/ serverPc[k] = "read" /\ Stop \in fifo[serverFd[k]].data

NobodyStops(name) == \A k \in Servers(name) : ~Stops(k)

HooksCalm == \A h \in Hooks : hookPc[h] \in {"ready", "killed"} \/ times[h] > 0

ServersSettled ==
    \A k \in Launches : serverPc[k] # "mkfifo" /\ ~Stops(k)

-----------------------------------------------------------------------------
(* The extension *)

\* spawnSync of the stopper: nothing else happens in the extension meanwhile.
BeginStop(what, k) ==
    /\ Quiet => HooksCalm
    /\ Settled => ServersSettled
    /\ stopperPc = "idle"
    /\ stopperPc' = "check"
    /\ job' = [what |-> what, launch |-> k]
    /\ UNCHANGED setting

\* Mutant of LaunchDebugeeConfig: no stopServer before launchServer.
LaunchWithoutStop(k) ==
    /\ main[k] = "none"
    /\ Settled => ServersSettled
    /\ stopperPc = "idle"
    /\ \E m \in {"running", "terminal"} : main' = [main EXCEPT ![k] = m]
    /\ serverPc' = [serverPc EXCEPT ![k] = "mkfifo"]
    /\ UNCHANGED <<setting, line, serverFd, times>>
    /\ UNCHANGED fsVars /\ UNCHANGED stopperVars /\ UNCHANGED hookVars

\* launchDebugeeConfig up to stopServer; the rest of it is in StopperEnds.
LaunchDebugeeConfig(k) ==
    /\ main[k] = "none"
    /\ BeginStop("launch", k)
    /\ UNCHANGED <<main, events, stopperFd, times>>
    /\ UNCHANGED fsVars /\ UNCHANGED serverVars /\ UNCHANGED hookVars

\* The main session ends when its user or its program says so.
MainEnds(k) ==
    /\ main[k] = "running"
    /\ main' = [main EXCEPT ![k] = "over"]
    /\ events' = Append(events, k)
    /\ UNCHANGED <<setting, stopperPc, job, stopperFd, times>>
    /\ UNCHANGED fsVars /\ UNCHANGED serverVars /\ UNCHANGED hookVars

\* onDidTerminateDebugSession: stopServer(configuration.deepDbgHookPipe).
OnTerminate ==
    /\ events # <<>>
    /\ events' = Tail(events)
    /\ BeginStop("end", Head(events))
    /\ UNCHANGED <<main, stopperFd, times>>
    /\ UNCHANGED fsVars /\ UNCHANGED serverVars /\ UNCHANGED hookVars

\* stopServer returns, whatever came of it.  In launchDebugeeConfig it is
\* followed by launchServer, which does not wait for the server to be up, and
\* by startDebugging, or by commands to a terminal, where there is no session
\* whose end would stop the server (deepDebug.ts:429-445).
StopperEnds(from) ==
    /\ stopperPc = from
    /\ stopperPc' = "idle"
    /\ IF job.what = "launch"
         THEN /\ serverPc' = [serverPc EXCEPT ![job.launch] = "mkfifo"]
              /\ \E m \in {"running", "terminal"} :
                    main' = [main EXCEPT ![job.launch] = m]
         ELSE UNCHANGED <<serverPc, main>>
    /\ UNCHANGED <<setting, events, job, line, serverFd, times>>
    /\ UNCHANGED hookVars

StopperGoes(from, to) ==
    /\ stopperPc = from
    /\ stopperPc' = to
    /\ UNCHANGED <<setting, events, job, main, times>>
    /\ UNCHANGED serverVars /\ UNCHANGED hookVars

SetPath(name, what) == path' = [path EXCEPT ![name] = what]

SetFifo(p, f) == fifo' = [fifo EXCEPT ![p] = f]

\* if [ ! -p PIPE ]: nothing to stop.
StopCheck ==
    /\ IF path[Target] \in Launches THEN StopperGoes("check", "open")
                                    ELSE StopperEnds("check")
    /\ UNCHANGED stopperFd /\ UNCHANGED fsVars

\* The redirection of printf, to whatever the name stands for by now.
StopOpen ==
    LET p == path[Target]
    IN  \/ /\ p \in Launches
           /\ StopperGoes("open", "write")
           /\ stopperFd' = p
           /\ SetFifo(p, OpenForWriting(fifo[p], Stopper))
           /\ UNCHANGED <<path, file>>
        \/ /\ p \notin Launches
           /\ StopperEnds("open")
           /\ SetPath(Target, "file")
           /\ file' = [file EXCEPT ![Target] = {Stop}]
           /\ UNCHANGED <<fifo, stopperFd>>

\* Mutant of StopWrite: the pipe is removed whenever the write failed.
StopWriteOrRemove ==
    /\ Stopper \in fifo[stopperFd].met
    /\ \/ /\ fifo[stopperFd].readers # {}
          /\ StopperGoes("write", "close")
          /\ SetFifo(stopperFd, WritePiece(fifo[stopperFd], Stop))
       \/ /\ fifo[stopperFd].readers = {}
          /\ StopperGoes("write", "rm")
          /\ SetFifo(stopperFd, CloseEnd(fifo[stopperFd], Stopper))
    /\ UNCHANGED <<path, file, stopperFd>>

StopWrite ==
    /\ Stopper \in fifo[stopperFd].met
    /\ \/ /\ fifo[stopperFd].readers # {}
          /\ StopperGoes("write", "close")
          /\ SetFifo(stopperFd, WritePiece(fifo[stopperFd], Stop))
       \/ /\ fifo[stopperFd].readers = {}
          /\ StopperEnds("write")
          /\ SetFifo(stopperFd, CloseEnd(fifo[stopperFd], Stopper))
    /\ UNCHANGED <<path, file, stopperFd>>

StopClose ==
    /\ StopperEnds("close")
    /\ SetFifo(stopperFd, CloseEnd(fifo[stopperFd], Stopper))
    /\ UNCHANGED <<path, file, stopperFd>>

\* timeout 1, and nobody has opened the pipe for reading.
StopTimeout ==
    /\ Stopper \notin fifo[stopperFd].met
    /\ Prompt => Servers(Target) = {}
    /\ StopperGoes("write", "rm")
    /\ SetFifo(stopperFd, CloseEnd(fifo[stopperFd], Stopper))
    /\ UNCHANGED <<path, file, stopperFd>>

\* rm PIPE
StopRemove ==
    /\ StopperEnds("rm")
    /\ SetPath(Target, "none")
    /\ UNCHANGED <<file, fifo, stopperFd>>

StopperStep ==
    StopCheck \/ StopOpen \/ StopWrite \/ StopClose \/ StopTimeout \/ StopRemove

-----------------------------------------------------------------------------
(* The server *)

ServerGoes(k, from, to) ==
    serverPc[k] = from /\ serverPc' = [serverPc EXCEPT ![k] = to]

ServerOnly ==
    /\ UNCHANGED <<setting, main>>
    /\ UNCHANGED stopperVars /\ UNCHANGED hookVars

\* mkfifo fails when the name is taken, and the script goes on.
MakePipe(k) ==
    /\ Settled => NobodyStops(NameOf(k))
    /\ ServerGoes(k, "mkfifo", "open")
    /\ IF path[NameOf(k)] = "none"
         THEN SetPath(NameOf(k), k) /\ SetFifo(k, EmptyFifo)
         ELSE UNCHANGED <<path, fifo>>
    /\ UNCHANGED <<file, line, serverFd, times>> /\ ServerOnly

\* read -r LINE < PIPE.  Without a pipe to open, read is not run and LINE stays;
\* a regular file is read to its end.
OpenPipe(k) ==
    LET name == NameOf(k)
        p    == path[name]
    IN  /\ \/ /\ p \in Launches
              /\ ServerGoes(k, "open", "read")
              /\ serverFd' = [serverFd EXCEPT ![k] = p]
              /\ SetFifo(p, OpenForReading(fifo[p], k))
              /\ line' = [line EXCEPT ![k] = {}]
           \/ /\ p = "none"
              /\ ServerGoes(k, "open", "print")
              /\ UNCHANGED <<serverFd, fifo, line>>
           \/ /\ p = "file"
              /\ ServerGoes(k, "open",
                            IF file[name] = {Stop} THEN "exit" ELSE "print")
              /\ line' = [line EXCEPT ![k] = file[name]]
              /\ UNCHANGED <<serverFd, fifo>>
        /\ UNCHANGED <<path, file, times>> /\ ServerOnly

ReadData(k) ==
    LET p == serverFd[k]
    IN  /\ serverPc[k] = "read"
        /\ k \in fifo[p].met
        /\ fifo[p].data # {}
        /\ line' = [line EXCEPT ![k] = @ \cup fifo[p].data]
        /\ SetFifo(p, TakeAll(fifo[p]))
        /\ UNCHANGED <<path, file, serverPc, serverFd, times>> /\ ServerOnly

ReadEof(k) ==
    /\ k \in fifo[serverFd[k]].met
    /\ AtEof(fifo[serverFd[k]])
    /\ ServerGoes(k, "read", "eof")
    /\ UNCHANGED <<line, serverFd, times>> /\ UNCHANGED fsVars /\ ServerOnly

\* Mutant of ClosePipe: the script loops over "stopped", too.
ClosePipeAndLoop(k) ==
    /\ ServerGoes(k, "eof", "print")
    /\ SetFifo(serverFd[k], CloseEnd(fifo[serverFd[k]], k))
    /\ UNCHANGED <<path, file, line, serverFd, times>> /\ ServerOnly

\* End of the redirection; if [ "${LINE}" = 'stopped' ] then break.
ClosePipe(k) ==
    /\ ServerGoes(k, "eof", IF line[k] = {Stop} THEN "exit" ELSE "print")
    /\ SetFifo(serverFd[k], CloseEnd(fifo[serverFd[k]], k))
    /\ UNCHANGED <<path, file, line, serverFd, times>> /\ ServerOnly

\* printf "start|${LINE}|end": the request of a hook if LINE is just that.
PrintLine(k) ==
    /\ ServerGoes(k, "print", "open")
    /\ times' = [h \in Hooks |-> IF line[k] = {h} /\ times[h] < 2
                                   THEN times[h] + 1 ELSE times[h]]
    /\ UNCHANGED <<line, serverFd>> /\ UNCHANGED fsVars /\ ServerOnly

\* Mutant of ExitServer: no trap.
ExitUntrapped(k) ==
    /\ ServerGoes(k, "exit", "gone")
    /\ UNCHANGED <<path, file, fifo, line, serverFd, times>> /\ ServerOnly

\* The EXIT trap: rm -f PIPE, whatever the name stands for by now.
ExitServer(k) ==
    /\ ServerGoes(k, "exit", "gone")
    /\ SetPath(NameOf(k), "none")
    /\ UNCHANGED <<file, fifo, line, serverFd, times>> /\ ServerOnly

ServerStep(k) ==
    \/ MakePipe(k) \/ OpenPipe(k) \/ ReadData(k) \/ ReadEof(k)
    \/ ClosePipe(k) \/ PrintLine(k) \/ ExitServer(k)

-----------------------------------------------------------------------------
(* The hook: printf "%s" "${PARAMS_JSON}" > "${DEEPDEBUGGER_LAUNCHER_QUEUE}" *)

HookGoes(h, from, to) == hookPc[h] = from /\ hookPc' = [hookPc EXCEPT ![h] = to]

HookOnly ==
    /\ UNCHANGED <<setting, main, times>>
    /\ UNCHANGED stopperVars /\ UNCHANGED serverVars

\* Quiet: hooks of one process chain, and only while a server reads their pipe.
MaySend(h) ==
    LET k == LaunchOf[h]
    IN  /\ main[k] # "none"
        /\ h \in setting.hooks
        /\ Quiet => /\ HooksCalm
                    /\ stopperPc = "idle"
                    /\ NobodyStops(NameOf(k))
                    /\ \E j \in Servers(NameOf(k)) : InLoop(j)
        /\ Settled => serverPc[k] # "mkfifo"

\* Without a pipe the redirection makes a regular file.
OpenQueue(h) ==
    LET p == path[QueueOf(h)]
    IN  /\ MaySend(h)
        /\ \/ /\ p \in Launches
              /\ HookGoes(h, "ready", "write")
              /\ hookFd' = [hookFd EXCEPT ![h] = p]
              /\ SetFifo(p, OpenForWriting(fifo[p], h))
              /\ UNCHANGED <<path, file>>
           \/ /\ p \notin Launches
              /\ HookGoes(h, "ready", "sent")
              /\ SetPath(QueueOf(h), "file")
              /\ file' = [file EXCEPT ![QueueOf(h)] = {h}]
              /\ UNCHANGED <<fifo, hookFd>>
        /\ HookOnly

WriteQueue(h) ==
    LET p == hookFd[h]
    IN  /\ h \in fifo[p].met
        /\ \/ /\ fifo[p].readers # {}
              /\ HookGoes(h, "write", "close")
              /\ SetFifo(p, WritePiece(fifo[p], h))
           \/ /\ fifo[p].readers = {}
              /\ HookGoes(h, "write", "killed")
              /\ SetFifo(p, CloseEnd(fifo[p], h))
        /\ UNCHANGED <<path, file, hookFd>> /\ HookOnly

CloseQueue(h) ==
    /\ HookGoes(h, "close", "sent")
    /\ SetFifo(hookFd[h], CloseEnd(fifo[hookFd[h]], h))
    /\ UNCHANGED <<path, file, hookFd>> /\ HookOnly

-----------------------------------------------------------------------------
Init ==
    /\ setting \in Settings
    /\ path = [n \in Names |-> "none"]
    /\ file = [n \in Names |-> {}]
    /\ fifo = [k \in Launches |-> EmptyFifo]
    /\ main = [k \in Launches |-> "none"]
    /\ events = <<>>
    /\ stopperPc = "idle"
    /\ job = CHOOSE j \in Jobs : TRUE
    /\ stopperFd = CHOOSE k \in Launches : TRUE
    /\ serverPc = [k \in Launches |-> "absent"]
    /\ line = [k \in Launches |-> {}]
    /\ serverFd = [k \in Launches |-> k]
    /\ hookPc = [h \in Hooks |-> "ready"]
    /\ hookFd = [h \in Hooks |-> LaunchOf[h]]
    /\ times = [h \in Hooks |-> 0]

Next ==
    \/ \E k \in Launches :
          LaunchDebugeeConfig(k) \/ MainEnds(k) \/ ServerStep(k)
    \/ OnTerminate
    \/ StopperStep
    \/ \E h \in Hooks : OpenQueue(h) \/ WriteQueue(h) \/ CloseQueue(h)

Spec == Init /\ [][Next]_vars

\* Every process runs and the extension handles its events.  Launching, ending
\* a session and starting a hook are up to the user and the program.
FairSpec ==
    /\ Spec
    /\ WF_vars(OnTerminate)
    /\ WF_vars(StopperStep)
    /\ \A k \in Launches : WF_vars(ServerStep(k))
    /\ \A h \in Hooks : WF_vars(WriteQueue(h) \/ CloseQueue(h))

-----------------------------------------------------------------------------
TypeOK ==
    /\ setting \in Settings
    /\ path \in [Names -> Launches \cup {"none", "file"}]
    /\ file \in [Names -> SUBSET Pieces]
    /\ \A k \in Launches :
          fifo[k] \in FifoType(Launches \cup Hooks \cup {Stopper}, Pieces)
    /\ DOMAIN fifo = Launches
    /\ main \in [Launches -> MainState]
    /\ events \in Seq(Launches)
    /\ stopperPc \in StopperPc
    /\ job \in Jobs
    /\ stopperFd \in Launches
    /\ serverPc \in [Launches -> ServerPc]
    /\ line \in [Launches -> SUBSET Pieces]
    /\ serverFd \in [Launches -> Launches]
    /\ hookPc \in [Hooks -> HookPc]
    /\ hookFd \in [Hooks -> Launches]
    /\ times \in [Hooks -> 0..2]

\* The server is back at the pipe within a second, and is up before the hooks
\* come and gone before it is launched again.
Regular == Prompt /\ Settled

\* A request is printed at most once: the server's loop repeats its last LINE
\* when it cannot open the pipe, or finds a regular file there (server.sh:73).
\* A pipe that is up before the hooks come prevents both, however requests and
\* stop signals meet if each launch has a pipe of its own, and even if launches
\* share one when hooks keep away from the stop signals.
NoRepeat ==
    Regular /\ (OwnNames \/ Quiet) => \A h \in Hooks : times[h] < 2

\* Stopping the old server before the new one is launched (deepDebug.ts:391)
\* works: two servers never take requests from one name, not even after a
\* launch in a terminal, which nothing else stops, or a launch while the main
\* session of another of the name still runs.
OneReader ==
    Regular /\ Quiet =>
        \A j, k \in Launches :
            j # k /\ NameOf(j) = NameOf(k) => ~(InLoop(j) /\ InLoop(k))

\* Once the servers of a name are gone, nothing is left under it, whoever else
\* is launched with it.
NoPipeLeft ==
    Regular /\ Quiet =>
        \A n \in Names : Servers(n) = {} => path[n] = "none"

\* The end of the main session makes an end of the server it was launched with.
MainEndStopsServer ==
    \A k \in Launches :
        Regular /\ Quiet /\ OwnNames /\ main[k] = "over"
            ~> serverPc[k] = "gone"
=============================================================================
