------------------------------ MODULE HookGate ------------------------------
(***************************************************************************)
(* How hooks on POSIX systems wait for the debug sessions they asked for.  *)
(*                                                                         *)
(* A hook waits on a named pipe of its own, its gate (hook.sh:49-60, and   *)
(* with the same code python_driver.sh:88-98).  It makes the gate only     *)
(* after it has sent its request, so the session may be over before the    *)
(* gate exists.  When a session ends, the extension runs "server.sh GATE   *)
(* stopped" (deepDebug.ts:98-106, 120-127), here the stopper, and waits    *)
(* for it: spawnSync blocks the extension's only thread until the script   *)
(* has written to the gate, found none, or given up after a second         *)
(* (server.sh:48-62).                                                      *)
(*                                                                         *)
(* The gate is named by the hook's pid, and so are those of earlier hooks  *)
(* that had this pid and were killed: a pipe may be left of one, and its   *)
(* session, whose end nobody waits for any more, has a stopper, too, which *)
(* comes to the gate of the hook that has the pid now (hook.sh:32).        *)
(*                                                                         *)
(* The lock around each part never waits (module DirLock) and is left out. *)
(***************************************************************************)
EXTENDS Sequences, FiniteSets, Fifo

CONSTANTS
    Hooks,          \* hook processes; each has sent its request
    Stopper,        \* the process running "server.sh GATE stopped"
    Killable,       \* hooks somebody may kill
    Leftover,       \* hooks that may find a pipe of an earlier one of their pid
    Earlier,        \* sessions that such earlier hooks, now gone, asked for
    Heir            \* the hook that has the pid of the one gone

ASSUME GateAssumption ==
    /\ Stopper \notin Hooks
    /\ Killable \subseteq Hooks
    /\ Leftover \subseteq Hooks
    /\ Earlier \cap Hooks = {}
    /\ Heir \in [Earlier -> Hooks]

VARIABLES
    session,     \* the debug sessions, each named by the hook that asked
    path,        \* what is in the file system under each gate's name
    fifo,        \* the pipes themselves, which outlive their names
    hookPc,
    trapped,     \* has the hook set its EXIT trap
    events,      \* ended sessions the extension has not handled, in order
    stopperPc,   \* the extension is free when this is "idle"
    target,      \* the session whose end the latest stopper is to tell
    outcome      \* how the stopper ended for each session

vars == <<session, path, fifo, hookPc, trapped,
          events, stopperPc, target, outcome>>
hookVars == <<hookPc, trapped>>
stopperVars == <<stopperPc, target, outcome>>

SessionState == {"requested", "dropped", "running", "terminated"}
PathState == {"none", "fifo", "file"}
HookPc == {"sent", "mkfifo", "wait", "read", "exit", "returned", "killed"}
StopperPc == {"idle", "check", "open", "write", "close", "rm"}
Outcome == {"none", "nopipe", "newfile", "sigpipe", "sent", "removed"}

Sessions == Hooks \cup Earlier

\* deepDbgHookPipe: the hook whose gate the stopper of session s comes to
GateOf(s) == IF s \in Hooks THEN s ELSE Heir[s]

HookGoes(h, from, to) ==
    hookPc[h] = from /\ hookPc' = [hookPc EXCEPT ![h] = to]

StopperGoes(from, to) ==
    /\ stopperPc = from
    /\ stopperPc' = to
    /\ UNCHANGED <<target, outcome>>

StopperEnds(from, how) ==
    /\ stopperPc = from
    /\ stopperPc' = "idle"
    /\ outcome' = [outcome EXCEPT ![target] = how]
    /\ UNCHANGED target

SetPath(h, what) == path' = [path EXCEPT ![h] = what]

SetFifo(h, f) == fifo' = [fifo EXCEPT ![h] = f]

-----------------------------------------------------------------------------
(* The debug sessions, as the extension sees them *)

\* onStart, when the extension is free: startDebugging, or nothing at all (the
\* request did not parse, decodeConfig threw, transformConfig refused).
OnStart(s) ==
    /\ stopperPc = "idle"
    /\ session[s] = "requested"
    /\ session' \in {[session EXCEPT ![s] = to] : to \in {"running", "dropped"}}
    /\ UNCHANGED <<path, fifo, events>>
    /\ UNCHANGED hookVars /\ UNCHANGED stopperVars

TerminateSession(s) ==
    /\ session[s] = "running"
    /\ session' = [session EXCEPT ![s] = "terminated"]
    /\ events' = Append(events, s)
    /\ UNCHANGED <<path, fifo>> /\ UNCHANGED hookVars /\ UNCHANGED stopperVars

\* Mutant of OnTerminate: only the first of several waiting events is handled.
OnTerminateOne ==
    /\ stopperPc = "idle"
    /\ events # <<>>
    /\ stopperPc' = "check"
    /\ target' = Head(events)
    /\ events' = <<>>
    /\ UNCHANGED <<session, path, fifo, outcome>> /\ UNCHANGED hookVars

\* onDidTerminateDebugSession: stopServer(deepDbgHookPipe), once, since the
\* handler deletes the property.
OnTerminate ==
    /\ stopperPc = "idle"
    /\ events # <<>>
    /\ stopperPc' = "check"
    /\ target' = Head(events)
    /\ events' = Tail(events)
    /\ UNCHANGED <<session, path, fifo, outcome>> /\ UNCHANGED hookVars

-----------------------------------------------------------------------------
(* The hook *)

\* if [ ! -p GATE ]; then trap ... EXIT
CheckGate(h) ==
    /\ \/ /\ path[h] = "fifo"
          /\ HookGoes(h, "sent", "wait")
          /\ UNCHANGED trapped
       \/ /\ path[h] # "fifo"
          /\ HookGoes(h, "sent", "mkfifo")
          /\ trapped' = [trapped EXCEPT ![h] = TRUE]
    /\ UNCHANGED <<session, path, fifo, events>> /\ UNCHANGED stopperVars

\* mkfifo GATE; it fails when the name is taken, and the script goes on.
MakeGate(h) ==
    /\ HookGoes(h, "mkfifo", "wait")
    /\ IF path[h] = "none"
         THEN SetPath(h, "fifo") /\ SetFifo(h, EmptyFifo)
         ELSE UNCHANGED <<path, fifo>>
    /\ UNCHANGED <<session, trapped, events>> /\ UNCHANGED stopperVars

\* read -r LINE < GATE: a pipe blocks until somebody writes; a missing file
\* or a regular one does not.
OpenGate(h) ==
    /\ \/ /\ path[h] = "fifo"
          /\ HookGoes(h, "wait", "read")
          /\ SetFifo(h, OpenForReading(fifo[h], h))
       \/ /\ path[h] # "fifo"
          /\ HookGoes(h, "wait", "exit")
          /\ UNCHANGED fifo
    /\ UNCHANGED <<session, path, trapped, events>> /\ UNCHANGED stopperVars

ReadStop(h) ==
    /\ hookPc[h] = "read"
    /\ h \in fifo[h].met
    /\ fifo[h].data # {}
    /\ SetFifo(h, TakeAll(fifo[h]))
    /\ UNCHANGED <<session, path, events>>
    /\ UNCHANGED hookVars /\ UNCHANGED stopperVars

\* Mutant of ReadEnd: the gate was opened without waiting for a writer.
ReadEndNonBlocking(h) ==
    /\ AtEof(fifo[h])
    /\ HookGoes(h, "read", "exit")
    /\ SetFifo(h, CloseEnd(fifo[h], h))
    /\ UNCHANGED <<session, path, trapped, events>> /\ UNCHANGED stopperVars

\* The message has no newline: read returns at end-of-file.
ReadEnd(h) ==
    /\ h \in fifo[h].met
    /\ AtEof(fifo[h])
    /\ HookGoes(h, "read", "exit")
    /\ SetFifo(h, CloseEnd(fifo[h], h))
    /\ UNCHANGED <<session, path, trapped, events>> /\ UNCHANGED stopperVars

\* Mutant of ExitHook: no trap.
ExitHookUntrapped(h) ==
    /\ HookGoes(h, "exit", "returned")
    /\ UNCHANGED <<session, path, fifo, trapped, events>>
    /\ UNCHANGED stopperVars

\* The EXIT trap removes the name, the process ends, the debuggee goes on.
ExitHook(h) ==
    /\ HookGoes(h, "exit", "returned")
    /\ IF trapped[h] THEN SetPath(h, "none") ELSE UNCHANGED path
    /\ UNCHANGED <<session, fifo, trapped, events>> /\ UNCHANGED stopperVars

\* Whether a shell that is killed runs its EXIT trap depends on the signal
\* and on the shell.
KillHook(h) ==
    /\ h \in Killable
    /\ hookPc[h] \notin {"returned", "killed"}
    /\ hookPc' = [hookPc EXCEPT ![h] = "killed"]
    /\ SetFifo(h, CloseEnd(fifo[h], h))
    /\ \/ UNCHANGED path
       \/ trapped[h] /\ SetPath(h, "none")
    /\ UNCHANGED <<session, trapped, events>> /\ UNCHANGED stopperVars

-----------------------------------------------------------------------------
(* The stopper *)

gate == GateOf(target)

StopCheck ==
    /\ IF path[gate] = "fifo"
         THEN StopperGoes("check", "open")
         ELSE StopperEnds("check", "nopipe")
    /\ UNCHANGED <<session, path, fifo, events>> /\ UNCHANGED hookVars

\* Mutant of StopOpen: the gate is removed before it is written to.
StopOpenAfresh ==
    /\ StopperEnds("open", "newfile")
    /\ SetPath(gate, "file")
    /\ UNCHANGED <<session, fifo, events>> /\ UNCHANGED hookVars

\* The redirection of printf: it makes a regular file when the pipe has gone
\* since StopCheck.
StopOpen ==
    /\ \/ /\ path[gate] = "fifo"
          /\ StopperGoes("open", "write")
          /\ SetFifo(gate, OpenForWriting(fifo[gate], Stopper))
          /\ UNCHANGED path
       \/ /\ path[gate] # "fifo"
          /\ StopperEnds("open", "newfile")
          /\ SetPath(gate, "file")
          /\ UNCHANGED fifo
    /\ UNCHANGED <<session, events>> /\ UNCHANGED hookVars

StopWrite ==
    /\ Stopper \in fifo[gate].met
    /\ \/ /\ fifo[gate].readers # {}
          /\ StopperGoes("write", "close")
          /\ SetFifo(gate, WritePiece(fifo[gate], "stopped"))
       \/ /\ fifo[gate].readers = {}
          /\ StopperEnds("write", "sigpipe")
          /\ SetFifo(gate, CloseEnd(fifo[gate], Stopper))
    /\ UNCHANGED <<session, path, events>> /\ UNCHANGED hookVars

StopClose ==
    /\ StopperEnds("close", "sent")
    /\ SetFifo(gate, CloseEnd(fifo[gate], Stopper))
    /\ UNCHANGED <<session, path, events>> /\ UNCHANGED hookVars

\* Mutant of StopTimeout: no timeout while the gate is in its place.
StopTimeoutNot ==
    /\ Stopper \notin fifo[gate].met
    /\ path[gate] # "fifo"
    /\ StopperGoes("write", "rm")
    /\ SetFifo(gate, CloseEnd(fifo[gate], Stopper))
    /\ UNCHANGED <<session, path, events>> /\ UNCHANGED hookVars

\* timeout 1 kills the writer nobody reads from.  A second is taken to be
\* enough for the shell to get as far as the open.
StopTimeout ==
    /\ Stopper \notin fifo[gate].met
    /\ StopperGoes("write", "rm")
    /\ SetFifo(gate, CloseEnd(fifo[gate], Stopper))
    /\ UNCHANGED <<session, path, events>> /\ UNCHANGED hookVars

\* if [ $? = 124 ]; then rm GATE
StopRemove ==
    /\ StopperEnds("rm", "removed")
    /\ SetPath(gate, "none")
    /\ UNCHANGED <<session, fifo, events>> /\ UNCHANGED hookVars

-----------------------------------------------------------------------------
Init ==
    /\ session = [s \in Sessions |-> "requested"]
    /\ path \in {[h \in Hooks |-> IF h \in left THEN "fifo" ELSE "none"] :
                    left \in SUBSET Leftover}
    /\ fifo = [h \in Hooks |-> EmptyFifo]
    /\ hookPc = [h \in Hooks |-> "sent"]
    /\ trapped = [h \in Hooks |-> FALSE]
    /\ events = <<>>
    /\ stopperPc = "idle"
    /\ target \in Hooks
    /\ outcome = [s \in Sessions |-> "none"]

HookStep(h) ==
    \/ CheckGate(h) \/ MakeGate(h) \/ OpenGate(h)
    \/ ReadStop(h) \/ ReadEnd(h) \/ ExitHook(h)

StopperStep ==
    StopCheck \/ StopOpen \/ StopWrite \/ StopClose \/ StopTimeout \/ StopRemove

Next ==
    \/ \E s \in Sessions : OnStart(s) \/ TerminateSession(s)
    \/ \E h \in Hooks : HookStep(h) \/ KillHook(h)
    \/ OnTerminate
    \/ StopperStep

Spec == Init /\ [][Next]_vars

\* Every process runs, and the extension handles its events.  How long a
\* session lasts is up to its user.
FairSpec ==
    /\ Spec
    /\ \A h \in Hooks : WF_vars(HookStep(h))
    /\ WF_vars(OnTerminate)
    /\ WF_vars(StopperStep)

-----------------------------------------------------------------------------
TypeOK ==
    /\ session \in [Sessions -> SessionState]
    /\ path \in [Hooks -> PathState]
    /\ \A h \in Hooks : fifo[h] \in FifoType({h, Stopper}, {"stopped"})
    /\ DOMAIN fifo = Hooks
    /\ hookPc \in [Hooks -> HookPc]
    /\ trapped \in [Hooks -> BOOLEAN]
    /\ events \in Seq(Sessions)
    /\ stopperPc \in StopperPc
    /\ target \in Sessions
    /\ outcome \in [Sessions -> Outcome]

\* An earlier hook of the same pid, gone by now, has its session end only when
\* hook h is there: the stopper of that one comes to the gate of h.
Misled(h) ==
    \E e \in Earlier : Heir[e] = h /\ session[e] = "terminated"

\* A hook never returns while its session may still start or is running,
\* whatever file, leftover pipe or race it meets at its gate, but for one case:
\* the session of an earlier hook of its pid has ended, and the stopper was for
\* that one (hook.sh:32, deepDebug.ts:102-104).
NoEarlyReturn ==
    \A h \in Hooks :
        hookPc[h] \in {"exit", "returned"} =>
            session[h] = "terminated" \/ Misled(h)

\* Unless a leftover pipe or the stopper of an earlier session misleads it, a
\* hook that came through leaves nothing behind in the temporary directory, and
\* its stopper, however late it is, puts nothing there again.
NoResidue ==
    \A h \in Hooks \ Leftover :
        hookPc[h] = "returned" /\ ~Misled(h) => path[h] = "none"

\* The extension gets its event loop back, hook or no hook: every way through
\* the stopper ends, so every session that ended is handled.
ExtensionUnblocked ==
    \A s \in Sessions : session[s] = "terminated" ~> outcome[s] # "none"

\* The hook waits at its own gate for a session that is running, and no earlier
\* session is left whose stopper could come to that gate.
Waits(h) ==
    /\ hookPc[h] = "read" /\ path[h] = "fifo"
    /\ session[h] = "running"
    /\ \A e \in Earlier :
          Heir[e] = h => session[e] = "dropped" \/ outcome[e] # "none"

\* The end of a session that lasts until its hook waits at the gate always lets
\* the hook go, also when earlier sessions have ended at that gate before.
SessionEndReleasesHook ==
    \A h \in Hooks :
        [](Waits(h) => [](session[h] = "terminated"
                            => <>(hookPc[h] \in {"returned", "killed"})))
=============================================================================
