---------------------------- MODULE DeepDebugger ----------------------------
(***************************************************************************)
(* The way of a blocking hook through the whole of the POSIX system: its   *)
(* request goes through the launcher queue and is printed by server.sh,    *)
(* the extension puts the output together (module Inbox) and starts the    *)
(* session, and the end of the session opens the hook's gate (HookGate).   *)
(*                                                                         *)
(* The parts share the extension's only thread: while it waits for a       *)
(* stopper it takes nothing from the server, whose output then arrives in  *)
(* larger chunks, of which onMessage starts only the first request.  And   *)
(* a chain of processes that blocks in its hook sends no other request:    *)
(* that is what paces the requests of a serial program.                    *)
(*                                                                         *)
(* The queue is taken for what LauncherQueue shows it to implement, a      *)
(* channel that may overtake and lose; the lost ones are those the server  *)
(* never comes to print.  Hooks in Killed take no step once they have sent *)
(* their request, whose session comes and goes all the same; no hook is    *)
(* killed at its gate, nor any other process.                              *)
(***************************************************************************)
EXTENDS Inbox, FiniteSets, Functions

CONSTANTS
    Hooks,       \* processes that run hook.sh, once
    Killed,      \* those that are killed when they have sent their request
    Stopper      \* the process running "server.sh GATE stopped"

ASSUME HooksAssumption ==
    /\ Cardinality(Hooks) = MaxLines
    /\ Stopper \notin Hooks
    /\ Killed \subseteq Hooks

VARIABLES
    asked,       \* hooks that have sent their request
    order,       \* whose requests the server has begun to print, in order
    session, path, fifo, hookPc, trapped,
    events, stopperPc, target, outcome    \* those of HookGate

gateVars == <<session, path, fifo, hookPc, trapped,
              events, stopperPc, target, outcome>>
systemVars == <<vars, asked, order, gateVars>>

\* The pids of these hooks were not those of others before.
Gate == INSTANCE HookGate WITH
    Killable <- {}, Leftover <- {}, Earlier <- {}, Heir <- [e \in {} |-> e]

HookOf(line) == order[(line \div LinePieces) + 1]

-----------------------------------------------------------------------------
\* With paced requests the processes are one chain: the next hook is started
\* after the one before has returned.
SendRequest(h) ==
    /\ h \notin asked
    /\ paced => h \notin Killed /\ \A g \in asked : hookPc[g] = "returned"
    /\ asked' = asked \cup {h}
    /\ UNCHANGED vars /\ UNCHANGED <<order, gateVars>>

\* The server prints a request it has read from the queue, piece by piece.
PrintRequest ==
    /\ PrintLine
    /\ IF AtLineStart(printed)
         THEN \E h \in asked \ Range(order) : order' = Append(order, h)
         ELSE UNCHANGED order
    /\ UNCHANGED <<asked, gateVars>>

\* onMessage and, when it takes a request, onStart, in the thread that waits
\* for no stopper.
Receive(to) ==
    /\ stopperPc = "idle"
    /\ InMarker(to) => cut
    /\ OnMessage(to)
    /\ IF started' # started /\ session[HookOf(responce)] = "requested"
         THEN Gate!OnStart(HookOf(responce))
         ELSE UNCHANGED gateVars
    /\ UNCHANGED <<asked, order>>

\* A hook makes its gate when its request is sent.
HookStep(h) ==
    /\ h \in asked \ Killed
    /\ Gate!HookStep(h)
    /\ UNCHANGED vars /\ UNCHANGED <<asked, order>>

SessionEnds(h) ==
    /\ Gate!TerminateSession(h)
    /\ UNCHANGED vars /\ UNCHANGED <<asked, order>>

ExtensionStops ==
    /\ Gate!OnTerminate
    /\ UNCHANGED vars /\ UNCHANGED <<asked, order>>

StopperStep ==
    /\ Gate!StopperStep
    /\ UNCHANGED vars /\ UNCHANGED <<asked, order>>

-----------------------------------------------------------------------------
SystemInit ==
    /\ Init /\ Gate!Init
    /\ asked = {} /\ order = <<>>
    /\ target = CHOOSE h \in Hooks : TRUE    \* of no stopper yet

Receiving == \E to \in 1..printed : Receive(to)

SystemNext ==
    \/ PrintRequest \/ Receiving \/ ExtensionStops \/ StopperStep
    \/ \E h \in Hooks : SendRequest(h) \/ HookStep(h) \/ SessionEnds(h)

SystemSpec == SystemInit /\ [][SystemNext]_systemVars

\* What HookGate and Inbox assume: processes run, the extension handles what it
\* is given.  Nobody has to start a hook or to end a session.
SystemFairSpec ==
    /\ SystemSpec
    /\ WF_systemVars(PrintRequest) /\ WF_systemVars(Receiving)
    /\ WF_systemVars(ExtensionStops) /\ WF_systemVars(StopperStep)
    /\ \A h \in Hooks : WF_systemVars(HookStep(h))

-----------------------------------------------------------------------------
\* What the caller of a hook sees.
CallOf(h) ==
    CASE h \notin asked -> "idle"
      [] hookPc[h] = "returned" -> "returned"
      [] OTHER -> CASE session[h] = "running" -> "debugged"
                    [] session[h] = "terminated" -> "over"
                    [] OTHER -> "waiting"

Call == INSTANCE BlockingCall WITH
    Callers <- Hooks,
    call <- [h \in Hooks |-> CallOf(h)]

\* From its request to its return a hook is a blocking call: it goes through a
\* session of its own, once, and never returns without it, in whatever chunks
\* its request arrives and whichever of the races at its gate it meets.
IsBlockingCall == Call!Spec

\* Nothing but a race at its gate, a request that onStart does not start, or a
\* session that goes on keeps a hook of a serial program waiting, when no chunk
\* ends inside an end marker: its request is taken whatever the extension is
\* busy with, and its session releases it.
SerialHookReturns ==
    \A h \in Hooks :
        h \in asked /\ paced /\ ~cut
          ~> \/ hookPc[h] = "returned"
             \/ session[h] = "dropped"
             \/ outcome[h] \in {"nopipe", "removed"}
             \/ [](session[h] = "running")
=============================================================================
