------------------------------ MODULE WinPipes ------------------------------
(***************************************************************************)
(* Launcher queue and hook gates on Windows: server.cpp, and cConfig::send *)
(* and cConfig::await (utils.cpp:199-274), which hook.cpp and              *)
(* python_driver.cpp call.                                                 *)
(*                                                                         *)
(* A Windows pipe is a set of instances, each for one client.  The server  *)
(* has one instance to offer at a time, and none between the client it     *)
(* reads and the next CreateNamedPipe, so requests never merge, but a      *)
(* client that finds no free instance is turned away.  A client may come   *)
(* even between CreateNamedPipe and ConnectNamedPipe, which then fails     *)
(* and is taken for an error.                                              *)
(*                                                                         *)
(* The gate of a hook is named after the session its process runs under    *)
(* (utils.cpp:189), so that the hooks of one session share a name, and it  *)
(* is made after the request was sent.                                     *)
(***************************************************************************)
EXTENDS Naturals, Sequences

CONSTANTS
    Hooks,         \* hook processes, one request each
    Parents,       \* functions from hooks to the sessions they run under
    Main,          \* the main session, whose end stops the server
    Stopper,       \* the process running "server.exe PIPE stopped"
    NoOne,
    Parts,         \* pieces the server may read of a request separately
    MaxInstances,  \* 100 in the code
    Killable       \* hooks somebody may kill

ASSUME WinAssumption ==
    /\ Stopper \notin Hooks /\ NoOne \notin Hooks \cup {Stopper}
    /\ Main \notin Hooks
    /\ Parts \in Nat \ {0}
    /\ MaxInstances \in Nat \ {0}
    /\ Killable \subseteq Hooks

VARIABLES
    queue,         \* the newest instance of the launcher queue
    handles,       \* instances of it the server has not closed
    serverPc,      \* where the server is in its loop
    line,          \* the pieces in data
    out,           \* the lines printed to the extension, in order
    gate,          \* the gate of each session
    parent,        \* the session each hook runs under; never changes
    hookPc,        \* where each hook is in send and await
    written,       \* pieces each hook has written
    session,       \* the session each hook asked for
    mainOver,      \* has the main session ended
    stops,         \* sessions that ended and whose stopper is not through
    stopperPc      \* is the stopper's pipe open

queueVars == <<queue, handles>>
serverVars == <<serverPc, line, out>>
hookVars == <<parent, hookPc, written>>
extensionVars == <<session, mainOver, stops, stopperPc>>
vars == <<queueVars, serverVars, gate, hookVars, extensionVars>>

Stop == "stopped"

Request(h) == {h} \X (1..Parts)

Printed(h) == \E i \in 1..Len(out) : out[i] = Request(h)

Gates == UNION {{f[h] : h \in Hooks} : f \in Parents}

-----------------------------------------------------------------------------
(* Instances.  A client that has hung up leaves what it wrote, and the     *)
(* instance is not offered to another.                                     *)

NoInstance ==
    [exists |-> FALSE, client |-> NoOne, open |-> FALSE, data |-> {}]

Fresh == [NoInstance EXCEPT !.exists = TRUE]

Offered(i) == i.exists /\ i.client = NoOne

Accept(i, p) == [i EXCEPT !.client = p, !.open = TRUE]

Put(i, piece) == [i EXCEPT !.data = @ \cup {piece}]

HangUp(i, p) == IF i.client = p THEN [i EXCEPT !.open = FALSE] ELSE i

-----------------------------------------------------------------------------
(* The server *)

ServerGoes(from, to) == serverPc = from /\ serverPc' = to

ServerOnly ==
    UNCHANGED gate /\ UNCHANGED hookVars /\ UNCHANGED extensionVars

\* CreateNamedPipe fails when all instances are in use, and the server exits.
CreateQueue ==
    /\ \/ /\ handles < MaxInstances
          /\ ServerGoes("create", "connect")
          /\ queue' = Fresh
          /\ handles' = handles + 1
       \/ /\ handles = MaxInstances
          /\ ServerGoes("create", "gone")
          /\ UNCHANGED queueVars
    /\ UNCHANGED <<line, out>> /\ ServerOnly

\* Mutant of ConnectQueue: the handle is not closed.
ConnectQueueNoClose ==
    /\ IF queue.client = NoOne
         THEN ServerGoes("connect", "listen") /\ UNCHANGED queueVars
         ELSE /\ ServerGoes("connect", "create")
              /\ queue' = NoInstance
              /\ UNCHANGED handles
    /\ UNCHANGED <<line, out>> /\ ServerOnly

\* ConnectNamedPipe fails when a client is there already: ERROR_PIPE_CONNECTED.
ConnectQueue ==
    /\ IF queue.client = NoOne
         THEN ServerGoes("connect", "listen") /\ UNCHANGED queueVars
         ELSE /\ ServerGoes("connect", "create")
              /\ queue' = NoInstance
              /\ handles' = handles - 1
    /\ UNCHANGED <<line, out>> /\ ServerOnly

\* Mutant of ClientComes: data is declared outside the loop.
ClientComesKeepsData ==
    /\ ServerGoes("listen", "read")
    /\ queue.client # NoOne
    /\ UNCHANGED <<line, out>> /\ UNCHANGED queueVars /\ ServerOnly

\* ConnectNamedPipe returns; data = "start|".
ClientComes ==
    /\ ServerGoes("listen", "read")
    /\ queue.client # NoOne
    /\ line' = {}
    /\ UNCHANGED out /\ UNCHANGED queueVars /\ ServerOnly

\* One ReadFile.  "stopped" ends the server when it is all that was read.
ReadQueue ==
    /\ queue.data # {}
    /\ \/ /\ queue.data = {Stop}
          /\ ServerGoes("read", "gone")
          /\ queue' = NoInstance
          /\ handles' = handles - 1
          /\ UNCHANGED line
       \/ /\ queue.data # {Stop}
          /\ ServerGoes("read", "read")
          /\ queue' = [queue EXCEPT !.data = {}]
          /\ line' = line \cup queue.data
          /\ UNCHANGED handles
    /\ UNCHANGED out /\ ServerOnly

\* Mutant of ReadEnd: one ReadFile is taken for the whole request.
ReadQueueOnce ==
    /\ ServerGoes("read", "print")
    /\ line # {} \/ ~queue.open
    /\ queue.data = {}
    /\ UNCHANGED <<line, out>> /\ UNCHANGED queueVars /\ ServerOnly

\* ReadFile fails with ERROR_BROKEN_PIPE.
ReadEnd ==
    /\ ServerGoes("read", "print")
    /\ queue.data = {} /\ ~queue.open
    /\ UNCHANGED <<line, out>> /\ UNCHANGED queueVars /\ ServerOnly

\* printf("start|...|end").  The handle is not closed; nobody can reach the
\* instance any more.
PrintLine ==
    /\ ServerGoes("print", "create")
    /\ out' = Append(out, line)
    /\ queue' = NoInstance
    /\ UNCHANGED <<handles, line>> /\ ServerOnly

Serve ==
    \/ CreateQueue \/ ConnectQueue \/ ClientComes \/ ReadQueue \/ ReadEnd
    \/ PrintLine

-----------------------------------------------------------------------------
(* The hook *)

HookGoes(h, from, to) ==
    hookPc[h] = from /\ hookPc' = [hookPc EXCEPT ![h] = to]

HookOnly ==
    UNCHANGED parent /\ UNCHANGED serverVars /\ UNCHANGED extensionVars

SetGate(g, i) == gate' = [gate EXCEPT ![g] = i]

\* CreateFile: no free instance, and send gives up.
OpenQueue(h) ==
    /\ \/ /\ Offered(queue)
          /\ HookGoes(h, "start", "write")
          /\ queue' = Accept(queue, h)
       \/ /\ ~Offered(queue)
          /\ HookGoes(h, "start", "failed")
          /\ UNCHANGED queue
    /\ UNCHANGED <<handles, gate, written>> /\ HookOnly

\* WriteFile, a piece at a time, and CloseHandle.  When the server has closed
\* its end WriteFile fails, which send does not look at.
WriteQueue(h) ==
    LET more == written[h] < Parts
        live == queue.client = h
    IN  /\ HookGoes(h, "write", IF more /\ live THEN "write" ELSE "gate")
        /\ queue' = IF more /\ live THEN Put(queue, <<h, written[h] + 1>>)
                                    ELSE HangUp(queue, h)
        /\ written' = [written EXCEPT ![h] = IF more /\ live THEN @ + 1 ELSE @]
        /\ UNCHANGED <<handles, gate>> /\ HookOnly

\* CreateNamedPipe with one instance: fails while another hook of the session
\* has its gate there.
MakeGate(h) ==
    /\ \/ /\ gate[parent[h]].exists
          /\ HookGoes(h, "gate", "failed")
          /\ UNCHANGED gate
       \/ /\ ~gate[parent[h]].exists
          /\ HookGoes(h, "gate", "connect")
          /\ SetGate(parent[h], Fresh)
    /\ UNCHANGED written /\ UNCHANGED queueVars /\ HookOnly

\* ConnectNamedPipe, with the failure of ConnectQueue.
ConnectGate(h) ==
    /\ \/ /\ gate[parent[h]].client = NoOne
          /\ HookGoes(h, "connect", "listen")
          /\ UNCHANGED gate
       \/ /\ gate[parent[h]].client # NoOne
          /\ HookGoes(h, "connect", "failed")
          /\ SetGate(parent[h], NoInstance)
    /\ UNCHANGED written /\ UNCHANGED queueVars /\ HookOnly

\* ReadFile returns what the first client wrote, "stopped" or not.
ReadGate(h) ==
    /\ gate[parent[h]].data # {}
    /\ HookGoes(h, "listen", "returned")
    /\ SetGate(parent[h], NoInstance)
    /\ UNCHANGED written /\ UNCHANGED queueVars /\ HookOnly

HookStep(h) == WriteQueue(h) \/ MakeGate(h) \/ ConnectGate(h) \/ ReadGate(h)

\* The system closes what a killed hook had open.
Kill(h) ==
    /\ h \in Killable
    /\ \E from \in {"write", "gate", "connect", "listen"} :
          /\ HookGoes(h, from, "killed")
          /\ IF from \in {"connect", "listen"}
               THEN SetGate(parent[h], NoInstance) ELSE UNCHANGED gate
    /\ queue' = HangUp(queue, h)
    /\ UNCHANGED <<handles, written>> /\ HookOnly

-----------------------------------------------------------------------------
(* The extension *)

ExtensionOnly == UNCHANGED serverVars /\ UNCHANGED hookVars

\* onStart starts the session of a line it can parse, or fails to.
OnStart(h) ==
    /\ Printed(h)
    /\ session[h] = "none"
    /\ \E s \in {"running", "dropped"} :
          session' = [session EXCEPT ![h] = s]
    /\ UNCHANGED <<mainOver, stops, stopperPc, gate>>
    /\ UNCHANGED queueVars /\ ExtensionOnly

\* Mutant of SessionEnds: two listeners stop the hook.
SessionEndsTwice(h) ==
    /\ session[h] = "running"
    /\ session' = [session EXCEPT ![h] = "over"]
    /\ stops' = stops \o <<h, h>>
    /\ UNCHANGED <<mainOver, stopperPc, gate>>
    /\ UNCHANGED queueVars /\ ExtensionOnly

\* onDidTerminateDebugSession: one stopServer per session, its pipe being
\* deleted from the configuration by the first listener.
SessionEnds(h) ==
    /\ session[h] = "running"
    /\ session' = [session EXCEPT ![h] = "over"]
    /\ stops' = Append(stops, h)
    /\ UNCHANGED <<mainOver, stopperPc, gate>>
    /\ UNCHANGED queueVars /\ ExtensionOnly

MainEnds ==
    /\ ~mainOver
    /\ mainOver' = TRUE
    /\ stops' = Append(stops, Main)
    /\ UNCHANGED <<session, stopperPc, gate>>
    /\ UNCHANGED queueVars /\ ExtensionOnly

\* CreateFile of the stopper, one try; the extension waits in spawnSync.
StopOpen ==
    /\ stops # <<>>
    /\ stopperPc = "idle"
    /\ LET k == Head(stops)
           i == IF k = Main THEN queue ELSE gate[parent[k]]
       IN  \/ /\ ~Offered(i)
              /\ stops' = Tail(stops)
              /\ UNCHANGED <<stopperPc, queue, gate>>
           \/ /\ Offered(i)
              /\ stopperPc' = "write"
              /\ IF k = Main
                   THEN queue' = Accept(queue, Stopper) /\ UNCHANGED gate
                   ELSE /\ SetGate(parent[k], Accept(i, Stopper))
                        /\ UNCHANGED queue
              /\ UNCHANGED stops
    /\ UNCHANGED <<session, mainOver, handles>> /\ ExtensionOnly

Told(i) == IF i.client = Stopper THEN HangUp(Put(i, Stop), Stopper) ELSE i

\* Mutant of StopWrite: nothing is written.
StopSilently ==
    /\ stopperPc = "write"
    /\ stopperPc' = "idle"
    /\ stops' = Tail(stops)
    /\ UNCHANGED <<session, mainOver, queue, gate, handles>> /\ ExtensionOnly

\* WriteFile and CloseHandle of the stopper, if the pipe is still there.
StopWrite ==
    /\ stopperPc = "write"
    /\ stopperPc' = "idle"
    /\ stops' = Tail(stops)
    /\ LET k == Head(stops)
       IN  IF k = Main
             THEN queue' = Told(queue) /\ UNCHANGED gate
             ELSE SetGate(parent[k], Told(gate[parent[k]])) /\ UNCHANGED queue
    /\ UNCHANGED <<session, mainOver, handles>> /\ ExtensionOnly

StopperStep == StopOpen \/ StopWrite

-----------------------------------------------------------------------------
Init ==
    /\ queue = NoInstance /\ handles = 0
    /\ serverPc = "create" /\ line = {} /\ out = <<>>
    /\ gate = [g \in Gates |-> NoInstance]
    /\ parent \in Parents
    /\ hookPc = [h \in Hooks |-> "start"]
    /\ written = [h \in Hooks |-> 0]
    /\ session = [h \in Hooks |-> "none"]
    /\ mainOver = FALSE /\ stops = <<>> /\ stopperPc = "idle"

Next ==
    \/ Serve
    \/ \E h \in Hooks :
          \/ OpenQueue(h) \/ HookStep(h) \/ Kill(h)
          \/ OnStart(h) \/ SessionEnds(h)
    \/ MainEnds \/ StopperStep

Spec == Init /\ [][Next]_vars

\* Processes run and the extension handles its events.  Starting a hook, ending
\* a session and killing are up to the program and its user.
FairSpec ==
    /\ Spec
    /\ WF_vars(Serve)
    /\ \A h \in Hooks : WF_vars(HookStep(h))
    /\ WF_vars(StopperStep)

-----------------------------------------------------------------------------
\* Requests come out at most once, and only when all of them was sent; a client
\* that is killed leaves garbage.
Channel == INSTANCE RequestChannel WITH
    Messages <- SUBSET (Hooks \X (1..Parts)),
    Requests <- {Request(h) : h \in Hooks},
    sent <- {Request(h) : h \in {g \in Hooks : written[g] = Parts}},
    got <- out

IsRequestChannel == Channel!Spec

\* A request whose client came while the server was listening is printed whole
\* (server.cpp:60-91), whoever else knocks meanwhile.
AcceptedIsPrinted ==
    \A h \in Hooks :
        queue.client = h /\ serverPc = "listen"
            ~> Printed(h) \/ hookPc[h] = "killed"

\* The server leaves its loop by itself only when it has printed as many lines
\* as the pipe has instances: a line costs an instance, since the handle is not
\* closed after it (server.cpp:88-91), and nothing else does.
LinesCostInstances ==
    handles = Len(out) + (IF serverPc \in {"create", "gone"} THEN 0 ELSE 1)

Active(h) == hookPc[h] \notin {"start", "returned", "failed"}

\* Under each session hooks run one after the other, and nobody kills one.
OneChainEach ==
    \A g, h \in Hooks :
        /\ hookPc[h] # "killed"
        /\ g # h /\ parent[g] = parent[h] => ~(Active(g) /\ Active(h))

\* A hook that lets the debuggee go on is through with its session, or never
\* asked for one.
Released(h) ==
    hookPc[h] \in {"returned", "failed"} =>
        session[h] = "over" \/ written[h] = 0

\* As long as the hooks of a session follow one another their common gate name
\* does no harm: however many sessions there are, no hook returns before its
\* own session is over (utils.cpp:189, 239-273).
NoEarlyReturn == []OneChainEach => [](\A h \in Hooks : Released(h))

\* Then the end of a session that lasts until its hook is at the gate lets this
\* very hook go.
SessionEndReleasesHook ==
    []OneChainEach =>
        \A h \in Hooks :
            [](hookPc[h] = "listen" /\ session[h] = "running"
                 => [](session[h] = "over" => <>(hookPc[h] = "returned")))
=============================================================================
