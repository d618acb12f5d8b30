--------------------------- MODULE HookGateProofs ---------------------------
(***************************************************************************)
(* HookGate for any number of hooks, any of which may be killed, find a    *)
(* leftover gate or have the pid of earlier hooks: a hook returns before   *)
(* its session is over only when the session of such an earlier hook has   *)
(* ended.                                                                  *)
(***************************************************************************)
EXTENDS HookGate, FifoLemmas, Naturals

Over(s) == session[s] = "terminated"

\* A stopper may come to the gate of h, or has come.
Due(h) == Over(h) \/ Misled(h)

\* Everything that can let a hook go happens on behalf of a stopper, and a
\* stopper runs only for sessions that are over.
StoppersAreDue ==
    /\ \A i \in 1..Len(events) : Over(events[i])
    /\ stopperPc # "idle" => Over(target)

\* Contact at the gate, a gate removed under the hook, or a regular file in its
\* place all are a stopper's doing.
GateTouchedOnlyWhenDue ==
    \A h \in Hooks :
        /\ fifo[h].writers # {} \/ fifo[h].met # {} => Due(h)
        /\ path[h] = "file" => Due(h)
        /\ hookPc[h] = "wait" /\ path[h] = "none" => Due(h)

Inv == TypeOK /\ StoppersAreDue /\ GateTouchedOnlyWhenDue /\ NoEarlyReturn

-----------------------------------------------------------------------------
LEMMA InitInv == Init => Inv
  <1> SUFFICES ASSUME Init PROVE Inv
    OBVIOUS
  <1> USE GateAssumption DEF Init
  <1>1. \A h \in Hooks : fifo[h] = EmptyFifo
    OBVIOUS
  <1>2. path \in [Hooks -> PathState] /\ \A h \in Hooks : path[h] # "file"
    BY DEF PathState
  <1>3. TypeOK
    BY <1>1, <1>2, FifoEmpty
    DEF TypeOK, Sessions, SessionState, HookPc, StopperPc, Outcome
  <1> QED
    BY <1>1, <1>2, <1>3, FifoEmpty
    DEF Inv, StoppersAreDue, GateTouchedOnlyWhenDue, NoEarlyReturn

\* The stopper comes to some hook's gate.
LEMMA GateIsHook ==
    ASSUME NEW s \in Sessions
    PROVE  /\ GateOf(s) \in Hooks
           /\ s \in Hooks => GateOf(s) = s
           /\ s \notin Hooks => s \in Earlier /\ Heir[s] = GateOf(s)
  BY GateAssumption DEF GateOf, Sessions

\* It is due there once the session is over.
LEMMA OverIsDue ==
    ASSUME NEW s \in Sessions, Over(s)
    PROVE  Due(GateOf(s))
  BY GateIsHook DEF Due, Misled, Over

LEMMA TypeNext == TypeOK /\ [Next]_vars => TypeOK'
  <1> SUFFICES ASSUME TypeOK, [Next]_vars PROVE TypeOK'
    OBVIOUS
  <1> USE GateAssumption DEF TypeOK, SessionState, PathState, HookPc,
          StopperPc, Outcome, hookVars, stopperVars
  <1>0. gate \in Hooks /\ Hooks \subseteq Sessions
    BY GateIsHook DEF gate, Sessions
  <1>1. ASSUME NEW h \in Sessions, OnStart(h) PROVE TypeOK'
    BY <1>1 DEF OnStart
  <1>2. ASSUME NEW h \in Sessions, TerminateSession(h) PROVE TypeOK'
    <2>1. session' \in [Sessions -> SessionState]
      BY <1>2 DEF TerminateSession
    <2>2. events' \in Seq(Sessions)
      BY <1>2 DEF TerminateSession
    <2> QED
      BY <1>2, <2>1, <2>2 DEF TerminateSession
  <1>3. CASE OnTerminate
    BY <1>3 DEF OnTerminate
  <1>4. ASSUME NEW h \in Hooks, CheckGate(h) PROVE TypeOK'
    BY <1>4 DEF CheckGate, HookGoes
  <1>5. ASSUME NEW h \in Hooks, MakeGate(h) PROVE TypeOK'
    BY <1>5, FifoEmpty DEF MakeGate, HookGoes, SetPath, SetFifo
  <1>6. ASSUME NEW h \in Hooks, OpenGate(h) PROVE TypeOK'
    BY <1>6, FifoOpenForReading DEF OpenGate, HookGoes, SetFifo
  <1>7. ASSUME NEW h \in Hooks, ReadStop(h) PROVE TypeOK'
    BY <1>7, FifoTakeAll DEF ReadStop, SetFifo
  <1>8. ASSUME NEW h \in Hooks, ReadEnd(h) PROVE TypeOK'
    BY <1>8, FifoCloseEnd DEF ReadEnd, HookGoes, SetFifo
  <1>9. ASSUME NEW h \in Hooks, ExitHook(h) PROVE TypeOK'
    BY <1>9 DEF ExitHook, HookGoes, SetPath
  <1>10. ASSUME NEW h \in Hooks, KillHook(h) PROVE TypeOK'
    BY <1>10, FifoCloseEnd DEF KillHook, SetPath, SetFifo
  <1>11. CASE StopCheck
    BY <1>11 DEF StopCheck, StopperGoes, StopperEnds
  <1>12. CASE StopOpen
    BY <1>0, <1>12, FifoOpenForWriting
    DEF StopOpen, StopperGoes, StopperEnds, SetPath, SetFifo
  <1>13. CASE StopWrite
    <2>1. UNCHANGED <<session, path, events, hookPc, trapped, target>>
      BY <1>13 DEF StopWrite, StopperGoes, StopperEnds
    <2>2. stopperPc' \in StopperPc /\ outcome' \in [Sessions -> Outcome]
      BY <1>13 DEF StopWrite, StopperGoes, StopperEnds
    <2>3. \/ fifo' = [fifo EXCEPT ![gate] =
                                  WritePiece(fifo[gate], "stopped")]
          \/ fifo' = [fifo EXCEPT ![gate] = CloseEnd(fifo[gate], Stopper)]
      BY <1>13 DEF StopWrite, SetFifo
    <2>4. DOMAIN fifo' = Hooks /\ \A h \in Hooks :
            fifo'[h] \in FifoType({h, Stopper}, {"stopped"})
      BY <1>0, <2>3, FifoWritePiece, FifoCloseEnd
    <2> QED
      BY <2>1, <2>2, <2>4
  <1>14. CASE StopClose
    BY <1>0, <1>14, FifoCloseEnd DEF StopClose, StopperEnds, SetFifo
  <1>15. CASE StopTimeout
    BY <1>0, <1>15, FifoCloseEnd DEF StopTimeout, StopperGoes, SetFifo
  <1>16. CASE StopRemove
    <2>1. /\ stopperPc' = "idle" /\ target' = target
          /\ outcome' = [outcome EXCEPT ![target] = "removed"]
          /\ path' = [path EXCEPT ![gate] = "none"]
          /\ UNCHANGED <<session, fifo, events, hookPc, trapped>>
      BY <1>16 DEF StopRemove, StopperEnds, SetPath
    <2>2. /\ path' \in [Hooks -> PathState]
          /\ outcome' \in [Sessions -> Outcome]
      BY <1>0, <2>1
    <2> QED
      BY <2>1, <2>2
  <1>17. CASE UNCHANGED vars
    BY <1>17 DEF vars
  <1> QED
    BY <1>1, <1>2, <1>3, <1>4, <1>5, <1>6, <1>7, <1>8, <1>9, <1>10, <1>11,
       <1>12, <1>13, <1>14, <1>15, <1>16, <1>17
    DEF Next, HookStep, StopperStep

\* A session that is over stays over.
LEMMA OverStays ==
    ASSUME TypeOK, [Next]_vars, NEW h \in Sessions, Over(h)
    PROVE  Over(h)'
  <1> USE DEF Over, TypeOK
  <1>1. ASSUME NEW g \in Sessions, OnStart(g) PROVE Over(h)'
    BY <1>1 DEF OnStart
  <1>2. ASSUME NEW g \in Sessions, TerminateSession(g) PROVE Over(h)'
    BY <1>2 DEF TerminateSession
  <1>3. ASSUME session' = session PROVE Over(h)'
    BY <1>3
  <1> QED
    BY <1>1, <1>2, <1>3
    DEF Next, HookStep, StopperStep, vars, OnTerminate, CheckGate, MakeGate,
        OpenGate, ReadStop, ReadEnd, ExitHook, KillHook, StopCheck, StopOpen,
        StopWrite, StopClose, StopTimeout, StopRemove

LEMMA DueStays ==
    ASSUME TypeOK, [Next]_vars, NEW h \in Hooks
    PROVE  /\ Misled(h) => Misled(h)'
           /\ Due(h) => Due(h)'
  <1>1. \A s \in Sessions : Over(s) => Over(s)'
    BY OverStays
  <1> QED
    BY <1>1 DEF Due, Misled, Over, Sessions

LEMMA StoppersNext == Inv /\ [Next]_vars => StoppersAreDue'
  <1> SUFFICES ASSUME Inv, [Next]_vars PROVE StoppersAreDue'
    OBVIOUS
  <1>0. TypeOK /\ StoppersAreDue /\ TypeOK'
    BY TypeNext DEF Inv
  <1>1. \A h \in Sessions : Over(h) => Over(h)'
    BY <1>0, OverStays
  <1>2. ASSUME NEW h \in Sessions, TerminateSession(h) PROVE StoppersAreDue'
    <2>1. Over(h)'
      BY <1>0, <1>2 DEF TerminateSession, Over, TypeOK
    <2>2. events' = Append(events, h) /\ stopperPc' = stopperPc
          /\ target' = target
      BY <1>2 DEF TerminateSession, stopperVars
    <2>3. events \in Seq(Sessions) /\ target \in Sessions
      BY <1>0 DEF TypeOK
    <2>4. \A i \in 1..Len(events) : session'[events[i]] = "terminated"
      BY <1>0, <1>1, <2>3 DEF StoppersAreDue, Over
    <2>5. \A i \in 1..Len(events') : session'[events'[i]] = "terminated"
      BY <2>1, <2>2, <2>3, <2>4 DEF Over
    <2> QED
      BY <1>0, <1>1, <2>2, <2>3, <2>5 DEF StoppersAreDue, Over
  <1>3. CASE OnTerminate
    <2>1. /\ events \in Seq(Sessions) /\ events # <<>>
          /\ target' = Head(events) /\ events' = Tail(events)
      BY <1>0, <1>3 DEF OnTerminate, TypeOK
    <2>2. Head(events) = events[1] /\ 1 \in 1..Len(events)
      BY <2>1
    <2>3. \A i \in 1..Len(events') :
            events'[i] = events[i + 1] /\ i + 1 \in 1..Len(events)
      BY <2>1
    <2>4. \A i \in 1..Len(events) : events[i] \in Sessions /\ Over(events[i])
      BY <1>0, <2>1 DEF StoppersAreDue
    <2> QED
      BY <1>1, <2>1, <2>2, <2>3, <2>4 DEF StoppersAreDue
  <1>4. ASSUME events' = events, target' = target,
               stopperPc' # "idle" => stopperPc # "idle"
        PROVE  StoppersAreDue'
    <2>1. \A i \in 1..Len(events) : events[i] \in Sessions
      BY <1>0 DEF TypeOK
    <2> QED
      BY <1>0, <1>1, <1>4, <2>1 DEF StoppersAreDue, TypeOK
  <1> QED
    BY <1>2, <1>3, <1>4
    DEF Next, HookStep, StopperStep, vars, OnStart, CheckGate, MakeGate,
        OpenGate, ReadStop, ReadEnd, ExitHook, KillHook, StopCheck, StopOpen,
        StopWrite, StopClose, StopTimeout, StopRemove, StopperGoes,
        StopperEnds, stopperVars

\* What may let a hook go, gate by gate.
Gate(h) ==
    /\ fifo[h].writers # {} \/ fifo[h].met # {} => Due(h)
    /\ path[h] = "file" => Due(h)
    /\ hookPc[h] = "wait" /\ path[h] = "none" => Due(h)
    /\ hookPc[h] \in {"exit", "returned"} => Due(h)

LEMMA GatesUnfolded ==
    GateTouchedOnlyWhenDue /\ NoEarlyReturn <=> \A h \in Hooks : Gate(h)
  BY DEF GateTouchedOnlyWhenDue, NoEarlyReturn, Gate, Due, Over

\* Each step leaves the gates, the hooks and the pipes so that whatever may let
\* a hook go comes of a session that is over.
LEMMA GateNext == Inv /\ [Next]_vars => \A h \in Hooks : Gate(h)'
  <1> SUFFICES ASSUME Inv, [Next]_vars, NEW h \in Hooks PROVE Gate(h)'
    OBVIOUS
  <1>0. TypeOK /\ Gate(h) /\ (Due(h) => Due(h)')
    BY GatesUnfolded, DueStays DEF Inv
  <1>1. fifo[h] \in FifoType({h, Stopper}, {"stopped"})
    BY <1>0 DEF TypeOK
  <1>2. stopperPc # "idle" => Due(gate)
    BY <1>0, OverIsDue DEF Inv, StoppersAreDue, TypeOK, gate
  <1>3. /\ path[h] \in PathState /\ path'[h] \in PathState
        /\ DOMAIN path = Hooks /\ DOMAIN fifo = Hooks /\ DOMAIN hookPc = Hooks
    BY <1>0, TypeNext DEF TypeOK
  \* A step that leaves this gate's fifo, name and hook alone.
  <1>4. ASSUME fifo'[h] = fifo[h], path'[h] = path[h], hookPc'[h] = hookPc[h]
        PROVE  Gate(h)'
    BY <1>0, <1>4 DEF Gate
  \* Nothing to show once a stopper is due.
  <1>5. ASSUME Due(h) PROVE Gate(h)'
    BY <1>0, <1>5 DEF Gate
  <1>6. ASSUME NEW g \in Hooks, g # h, HookStep(g) \/ KillHook(g)
        PROVE  Gate(h)'
    BY <1>3, <1>4, <1>6
    DEF HookStep, KillHook, CheckGate, MakeGate, OpenGate, ReadStop, ReadEnd,
        ExitHook, HookGoes, SetPath, SetFifo, hookVars
  <1>7. CASE CheckGate(h)
    BY <1>0, <1>3, <1>7 DEF CheckGate, HookGoes, Gate
  <1>8. CASE MakeGate(h)
    <2>1. CASE path[h] = "none"
      <3>1. fifo'[h] = EmptyFifo /\ path'[h] = "fifo" /\ hookPc'[h] = "wait"
        BY <1>3, <1>8, <2>1 DEF MakeGate, HookGoes, SetPath, SetFifo
      <3> QED
        BY <3>1, FifoEmpty DEF Gate
    <2>2. CASE path[h] # "none"
      BY <1>0, <1>3, <1>8, <2>2 DEF MakeGate, HookGoes, Gate
    <2> QED
      BY <2>1, <2>2
  <1>9. CASE OpenGate(h)
    <2>1. CASE path[h] = "fifo" /\ fifo[h].writers = {}
      <3>1. /\ fifo'[h] = OpenForReading(fifo[h], h)
            /\ path'[h] = "fifo" /\ hookPc'[h] = "read"
        BY <1>3, <1>9, <2>1 DEF OpenGate, HookGoes, SetFifo
      <3>2. fifo'[h].writers = {} /\ fifo'[h].met = fifo[h].met
        BY <1>1, <2>1, <3>1, FifoOpenForReading
      <3> QED
        BY <1>0, <3>1, <3>2 DEF Gate
    <2>2. CASE path[h] # "fifo" \/ fifo[h].writers # {}
      <3>1. Due(h)
        BY <1>0, <1>3, <1>9, <2>2 DEF OpenGate, HookGoes, Gate, PathState
      <3> QED
        BY <1>5, <3>1
    <2> QED
      BY <2>1, <2>2
  <1>10. CASE ReadStop(h) \/ ReadEnd(h)
    BY <1>0, <1>5, <1>10 DEF ReadStop, ReadEnd, Gate
  <1>11. CASE ExitHook(h)
    BY <1>0, <1>5, <1>11 DEF ExitHook, HookGoes, Gate
  <1>12. CASE KillHook(h)
    <2>1. /\ fifo'[h] = CloseEnd(fifo[h], h) /\ hookPc'[h] = "killed"
          /\ path'[h] \in {path[h], "none"}
      BY <1>3, <1>12 DEF KillHook, SetPath, SetFifo
    <2>2. /\ fifo'[h].writers \subseteq fifo[h].writers
          /\ fifo'[h].met \subseteq fifo[h].met
      BY <1>1, <2>1, FifoCloseEnd
    <2> QED
      BY <1>0, <2>1, <2>2 DEF Gate
  \* The stopper touches one gate, where it is due.
  <1>13. CASE StopperStep /\ gate # h
    BY <1>3, <1>4, <1>13
    DEF StopperStep, StopCheck, StopOpen, StopWrite, StopClose, StopTimeout,
        StopRemove, SetPath, SetFifo, hookVars
  <1>14. CASE StopperStep /\ gate = h
    BY <1>2, <1>5, <1>14
    DEF StopperStep, StopCheck, StopOpen, StopWrite, StopClose, StopTimeout,
        StopRemove, StopperGoes, StopperEnds
  <1>15. ASSUME UNCHANGED <<path, fifo, hookPc>> PROVE Gate(h)'
    BY <1>4, <1>15
  <1>16. ASSUME NEW g \in Sessions, OnStart(g) \/ TerminateSession(g)
         PROVE  Gate(h)'
    BY <1>15, <1>16 DEF OnStart, TerminateSession, hookVars
  <1> QED
    BY <1>6, <1>7, <1>8, <1>9, <1>10, <1>11, <1>12, <1>13, <1>14, <1>15, <1>16
    DEF Next, HookStep, OnTerminate, hookVars, vars

LEMMA NextInv == Inv /\ [Next]_vars => Inv'
  <1> SUFFICES ASSUME Inv, [Next]_vars PROVE Inv'
    OBVIOUS
  <1>1. TypeOK' /\ StoppersAreDue'
    BY TypeNext, StoppersNext DEF Inv
  <1>2. GateTouchedOnlyWhenDue' /\ NoEarlyReturn'
    BY GateNext DEF GateTouchedOnlyWhenDue, NoEarlyReturn, Gate, Due, Over
  <1> QED
    BY <1>1, <1>2 DEF Inv

\* Every variable keeps its type, for any hooks.
THEOREM TypeCorrect == Spec => []TypeOK
  <1>1. Inv => TypeOK
    BY DEF Inv
  <1> QED
    BY <1>1, InitInv, NextInv, PTL DEF Spec

\* hook.sh returns to the debuggee only after the session it asked for is over,
\* whatever files and races it meets at its gate, unless the session of an
\* earlier hook of its pid ended and had its stopper come there (hook.sh:32).
THEOREM HookNeverReturnsEarly == Spec => []NoEarlyReturn
  <1>1. Inv => NoEarlyReturn
    BY DEF Inv
  <1> QED
    BY <1>1, InitInv, NextInv, PTL DEF Spec
-----------------------------------------------------------------------------
(* What is left behind *)

\* A session ends once, and so there is one stopper for each.
OneStopper ==
    /\ \A i, j \in 1..Len(events) : events[i] = events[j] => i = j
    /\ \A i \in 1..Len(events) : outcome[events[i]] = "none"
    /\ stopperPc # "idle" =>
          /\ outcome[target] = "none"
          /\ \A i \in 1..Len(events) : events[i] # target
    /\ \A s \in Sessions : outcome[s] # "none" => Over(s)

\* The stopper has opened the gate, or will not any more.
Past(s) ==
    \/ outcome[s] # "none"
    \/ target = s /\ stopperPc \in {"write", "close", "rm"}

\* Whatever may let a hook go not only belongs to a session that is over, but
\* comes of a stopper that has done with opening, as long as no earlier session
\* has a stopper there.
PastGate(h) ==
    /\ fifo[h].writers # {} \/ fifo[h].met # {} => Past(h)
    /\ path[h] = "file" => Past(h)
    /\ hookPc[h] = "wait" /\ path[h] = "none" => Past(h)
    /\ hookPc[h] \in {"exit", "returned"} => Past(h)

\* A hook that finds no leftover makes its gate itself and has set its trap.
Tidy(h) ==
    /\ hookPc[h] \in {"sent", "mkfifo"} =>
          path[h] = "none" /\ (target = h => stopperPc \in {"idle", "check"})
    /\ hookPc[h] \in {"mkfifo", "wait", "read", "exit"} => trapped[h]
    /\ hookPc[h] = "returned" => path[h] = "none"

TidyInv ==
    /\ Inv
    /\ OneStopper
    /\ \A h \in Hooks : ~Misled(h) => PastGate(h)
    /\ \A h \in Hooks \ Leftover : ~Misled(h) => Tidy(h)

LEMMA TidyInit == Init => TidyInv
  <1> SUFFICES ASSUME Init PROVE TidyInv
    OBVIOUS
  <1>1. Inv
    BY InitInv
  <1>2. OneStopper
    BY DEF Init, OneStopper
  <1>3. \A h \in Hooks : PastGate(h)
    BY FifoEmpty DEF Init, PastGate
  <1>4. \A h \in Hooks \ Leftover : Tidy(h)
    <2>1. \A h \in Hooks \ Leftover : path[h] = "none" /\ hookPc[h] = "sent"
      BY DEF Init
    <2> QED
      BY <2>1 DEF Init, Tidy
  <1> QED
    BY <1>1, <1>2, <1>3, <1>4 DEF TidyInv

\* What a step does to events, stopper and outcomes.
LEMMA OneStopperNext == TidyInv /\ [Next]_vars => OneStopper'
  <1> SUFFICES ASSUME TidyInv, [Next]_vars PROVE OneStopper'
    OBVIOUS
  <1>0. TypeOK /\ StoppersAreDue /\ OneStopper
    BY DEF TidyInv, Inv
  <1>1. \A h \in Sessions : Over(h) => Over(h)'
    BY <1>0, OverStays
  <1>2. /\ events \in Seq(Sessions)
        /\ \A i \in 1..Len(events) : events[i] \in Sessions
    BY <1>0 DEF TypeOK
  <1>3. ASSUME NEW h \in Sessions, TerminateSession(h) PROVE OneStopper'
    <2>1. /\ events' = Append(events, h) /\ session[h] = "running"
          /\ UNCHANGED <<stopperPc, target, outcome>>
      BY <1>3 DEF TerminateSession, stopperVars
    <2>2. ~Over(h)
      BY <2>1 DEF Over
    <2>3. /\ outcome[h] = "none"
          /\ \A i \in 1..Len(events) : events[i] # h
          /\ stopperPc # "idle" => target # h
      BY <1>0, <2>2 DEF OneStopper, StoppersAreDue
    <2>4. /\ Len(events') = Len(events) + 1
          /\ events'[Len(events) + 1] = h
          /\ \A i \in 1..Len(events) : events'[i] = events[i]
          /\ Len(events) \in Nat
      BY <1>2, <2>1
    <2>5. \A i \in 1..Len(events') : i \in 1..Len(events) \/ i = Len(events) + 1
      BY <2>4
    <2>6. \A i, j \in 1..Len(events') : events'[i] = events'[j] => i = j
      BY <1>0, <2>3, <2>4, <2>5 DEF OneStopper
    <2>7. /\ \A i \in 1..Len(events') : outcome'[events'[i]] = "none"
          /\ stopperPc' # "idle" =>
                /\ outcome'[target'] = "none"
                /\ \A i \in 1..Len(events') : events'[i] # target'
      BY <1>0, <2>1, <2>3, <2>4, <2>5 DEF OneStopper
    <2> QED
      BY <1>0, <1>1, <2>1, <2>6, <2>7 DEF OneStopper
  <1>4. CASE OnTerminate
    <2>1. /\ events # <<>> /\ target' = Head(events) /\ events' = Tail(events)
          /\ outcome' = outcome
      BY <1>4 DEF OnTerminate
    <2>2. Head(events) = events[1] /\ 1 \in 1..Len(events)
      BY <1>2, <2>1
    <2>3. \A i \in 1..Len(events') :
            /\ events'[i] = events[i + 1]
            /\ i \in Nat /\ i + 1 \in 1..Len(events) /\ i + 1 # 1
      BY <1>2, <2>1
    <2>4. \A i, j \in 1..Len(events') : events'[i] = events'[j] => i = j
      BY <1>0, <2>3 DEF OneStopper
    <2>5. /\ \A i \in 1..Len(events') : outcome'[events'[i]] = "none"
          /\ outcome'[target'] = "none"
          /\ \A i \in 1..Len(events') : events'[i] # target'
      BY <1>0, <2>1, <2>2, <2>3 DEF OneStopper
    <2> QED
      BY <1>0, <1>1, <2>1, <2>4, <2>5 DEF OneStopper
  <1>5. ASSUME UNCHANGED <<events, target, outcome>>,
               stopperPc' # "idle" => stopperPc # "idle"
        PROVE  OneStopper'
    BY <1>0, <1>1, <1>5 DEF OneStopper
  <1>6. ASSUME NEW from, NEW how, StopperEnds(from, how), from # "idle",
               UNCHANGED events
        PROVE  OneStopper'
    <2>1. /\ stopperPc # "idle" /\ stopperPc' = "idle" /\ target' = target
          /\ outcome' = [outcome EXCEPT ![target] = how]
      BY <1>6 DEF StopperEnds
    <2>2. /\ target \in Sessions /\ Over(target)
          /\ outcome \in [Sessions -> Outcome]
      BY <1>0, <2>1 DEF TypeOK, StoppersAreDue
    <2>3. \A h \in Sessions : h # target => outcome'[h] = outcome[h]
      BY <2>1, <2>2
    <2>4. \A i \in 1..Len(events) : outcome'[events[i]] = "none"
      BY <1>0, <1>2, <2>1, <2>3 DEF OneStopper
    <2>5. \A h \in Sessions : outcome'[h] # "none" => Over(h)'
      BY <1>0, <1>1, <2>2, <2>3 DEF OneStopper
    <2> QED
      BY <1>0, <1>6, <2>1, <2>4, <2>5 DEF OneStopper
  <1>7. CASE StopperStep
    BY <1>5, <1>6, <1>7
    DEF StopperStep, StopCheck, StopOpen, StopWrite, StopClose, StopTimeout,
        StopRemove, StopperGoes
  <1> QED
    BY <1>3, <1>4, <1>5, <1>7
    DEF Next, HookStep, vars, OnStart, CheckGate, MakeGate, OpenGate, ReadStop,
        ReadEnd, ExitHook, KillHook, stopperVars

\* What a stopper has done with it never undoes.
LEMMA PastStays ==
    ASSUME TypeOK, [Next]_vars, NEW h \in Sessions, Past(h)
    PROVE  Past(h)'
  <1>0. outcome \in [Sessions -> Outcome] /\ target \in Sessions
    BY DEF TypeOK
  <1>1. ASSUME UNCHANGED stopperVars PROVE Past(h)'
    BY <1>1 DEF Past, stopperVars
  <1>2. CASE OnTerminate
    BY <1>2 DEF OnTerminate, Past
  <1>3. ASSUME NEW from, NEW how, StopperEnds(from, how), how # "none"
        PROVE  Past(h)'
    BY <1>0, <1>3 DEF StopperEnds, Past
  <1>4. ASSUME NEW from, NEW to, StopperGoes(from, to),
               from \in {"check", "open"} \/ to \in {"write", "close", "rm"}
        PROVE  Past(h)'
    BY <1>4 DEF StopperGoes, Past
  <1>5. CASE StopperStep
    BY <1>3, <1>4, <1>5
    DEF StopperStep, StopCheck, StopOpen, StopWrite, StopClose, StopTimeout,
        StopRemove
  <1> QED
    BY <1>1, <1>2, <1>5
    DEF Next, HookStep, vars, OnStart, TerminateSession, CheckGate, MakeGate,
        OpenGate, ReadStop, ReadEnd, ExitHook, KillHook, stopperVars

\* After any step of the stopper but the first, it is past its gate.
LEMMA StopperIsPast ==
    ASSUME TypeOK, StopperStep, ~StopCheck
    PROVE  Past(target)'
  <1>0. outcome \in [Sessions -> Outcome] /\ target \in Sessions
    BY DEF TypeOK
  <1>1. ASSUME NEW from, NEW how, StopperEnds(from, how), how # "none"
        PROVE  Past(target)'
    BY <1>0, <1>1 DEF StopperEnds, Past
  <1>2. ASSUME NEW from, NEW to, StopperGoes(from, to),
               to \in {"write", "close", "rm"}
        PROVE  Past(target)'
    BY <1>2 DEF StopperGoes, Past
  <1> QED
    BY <1>1, <1>2
    DEF StopperStep, StopOpen, StopWrite, StopClose, StopTimeout, StopRemove

\* As long as no earlier session has ended at this gate, a stopper that comes
\* to it is the hook's own.
LEMMA NotMisledStopper ==
    ASSUME TypeOK, StoppersAreDue, StopperStep,
           NEW h \in Hooks, ~Misled(h)', gate = h
    PROVE  target = h
  <1>1. target \in Sessions /\ Over(target)
    BY DEF StopperStep, StopCheck, StopOpen, StopWrite, StopClose,
           StopTimeout, StopRemove, StopperGoes, StopperEnds, TypeOK,
           StoppersAreDue
  <1>2. ~Misled(h)
    BY DEF Misled, StopperStep, StopCheck, StopOpen, StopWrite, StopClose,
           StopTimeout, StopRemove
  <1>3. target \notin Hooks => Misled(h)
    BY <1>1, GateIsHook DEF Misled, Over, gate
  <1> QED
    BY <1>1, <1>2, <1>3, GateIsHook DEF gate

\* As GateNext, with the stopper's progress in place of the session's end.
LEMMA PastGateNext ==
    ASSUME TidyInv, [Next]_vars, NEW h \in Hooks, ~Misled(h)'
    PROVE  PastGate(h)'
  <1>0. TypeOK /\ PastGate(h) /\ (Past(h) => Past(h)')
    <2>1. TypeOK /\ ~Misled(h) /\ h \in Sessions
      BY DueStays DEF TidyInv, Inv, Sessions
    <2> QED
      BY <2>1, PastStays DEF TidyInv
  <1>1. fifo[h] \in FifoType({h, Stopper}, {"stopped"})
    BY <1>0 DEF TypeOK
  <1>2. StopperStep /\ gate = h => target = h
    BY NotMisledStopper DEF TidyInv, Inv
  <1>3. /\ path[h] \in PathState
        /\ DOMAIN path = Hooks /\ DOMAIN fifo = Hooks /\ DOMAIN hookPc = Hooks
    BY <1>0 DEF TypeOK
  <1>4. ASSUME fifo'[h] = fifo[h], path'[h] = path[h], hookPc'[h] = hookPc[h]
        PROVE  PastGate(h)'
    BY <1>0, <1>4 DEF PastGate
  <1>5. ASSUME Past(h) PROVE PastGate(h)'
    BY <1>0, <1>5 DEF PastGate
  <1>6. ASSUME NEW g \in Hooks, g # h, HookStep(g) \/ KillHook(g)
        PROVE  PastGate(h)'
    BY <1>3, <1>4, <1>6
    DEF HookStep, KillHook, CheckGate, MakeGate, OpenGate, ReadStop, ReadEnd,
        ExitHook, HookGoes, SetPath, SetFifo, hookVars
  <1>7. CASE CheckGate(h)
    BY <1>0, <1>3, <1>7 DEF CheckGate, HookGoes, PastGate
  <1>8. CASE MakeGate(h)
    <2>1. CASE path[h] = "none"
      <3>1. fifo'[h] = EmptyFifo /\ path'[h] = "fifo" /\ hookPc'[h] = "wait"
        BY <1>3, <1>8, <2>1 DEF MakeGate, HookGoes, SetPath, SetFifo
      <3> QED
        BY <3>1, FifoEmpty DEF PastGate
    <2>2. CASE path[h] # "none"
      BY <1>0, <1>3, <1>8, <2>2 DEF MakeGate, HookGoes, PastGate
    <2> QED
      BY <2>1, <2>2
  <1>9. CASE OpenGate(h)
    <2>1. CASE path[h] = "fifo" /\ fifo[h].writers = {}
      <3>1. /\ fifo'[h] = OpenForReading(fifo[h], h)
            /\ path'[h] = "fifo" /\ hookPc'[h] = "read"
        BY <1>3, <1>9, <2>1 DEF OpenGate, HookGoes, SetFifo
      <3>2. fifo'[h].writers = {} /\ fifo'[h].met = fifo[h].met
        BY <1>1, <2>1, <3>1, FifoOpenForReading
      <3> QED
        BY <1>0, <3>1, <3>2 DEF PastGate
    <2>2. CASE path[h] # "fifo" \/ fifo[h].writers # {}
      <3>1. Past(h)
        BY <1>0, <1>3, <1>9, <2>2 DEF OpenGate, HookGoes, PastGate, PathState
      <3> QED
        BY <1>5, <3>1
    <2> QED
      BY <2>1, <2>2
  <1>10. CASE ReadStop(h) \/ ReadEnd(h)
    BY <1>0, <1>5, <1>10 DEF ReadStop, ReadEnd, PastGate
  <1>11. CASE ExitHook(h)
    BY <1>0, <1>5, <1>11 DEF ExitHook, HookGoes, PastGate
  <1>12. CASE KillHook(h)
    <2>1. /\ fifo'[h] = CloseEnd(fifo[h], h) /\ hookPc'[h] = "killed"
          /\ path'[h] \in {path[h], "none"}
      BY <1>3, <1>12 DEF KillHook, SetPath, SetFifo
    <2>2. /\ fifo'[h].writers \subseteq fifo[h].writers
          /\ fifo'[h].met \subseteq fifo[h].met
      BY <1>1, <2>1, FifoCloseEnd
    <2> QED
      BY <1>0, <2>1, <2>2 DEF PastGate
  <1>13. CASE StopperStep /\ gate # h
    BY <1>3, <1>4, <1>13
    DEF StopperStep, StopCheck, StopOpen, StopWrite, StopClose, StopTimeout,
        StopRemove, SetPath, SetFifo, hookVars
  <1>14. CASE StopperStep /\ gate = h
    <2>1. CASE StopCheck
      BY <1>4, <2>1 DEF StopCheck, hookVars
    <2>2. CASE ~StopCheck
      <3>1. target' = h
        BY <1>2, <1>14 DEF StopperStep, StopCheck, StopOpen, StopWrite,
           StopClose, StopTimeout, StopRemove, StopperGoes, StopperEnds
      <3>2. Past(target)'
        BY <1>0, <1>14, <2>2, StopperIsPast
      <3> QED
        BY <3>1, <3>2 DEF PastGate, Past
    <2> QED
      BY <2>1, <2>2
  <1>15. ASSUME UNCHANGED <<path, fifo, hookPc>> PROVE PastGate(h)'
    BY <1>4, <1>15
  <1>16. ASSUME NEW g \in Sessions, OnStart(g) \/ TerminateSession(g)
         PROVE  PastGate(h)'
    BY <1>15, <1>16 DEF OnStart, TerminateSession, hookVars
  <1> QED
    BY <1>6, <1>7, <1>8, <1>9, <1>10, <1>11, <1>12, <1>13, <1>14, <1>15, <1>16
    DEF Next, HookStep, OnTerminate, hookVars, vars

\* A stopper that opens a gate late finds no returned hook's name to take.
LEMMA TidyNext ==
    ASSUME TidyInv, [Next]_vars, NEW h \in Hooks \ Leftover, ~Misled(h)'
    PROVE  Tidy(h)'
  <1>0. /\ Tidy(h) /\ PastGate(h) /\ OneStopper
        /\ DOMAIN path = Hooks /\ DOMAIN hookPc = Hooks
        /\ DOMAIN trapped = Hooks
    <2>1. TypeOK /\ ~Misled(h)
      BY DueStays DEF TidyInv, Inv
    <2> QED
      BY <2>1 DEF TidyInv, TypeOK
  <1>1. ASSUME path'[h] = path[h], hookPc'[h] = hookPc[h],
               trapped'[h] = trapped[h], UNCHANGED <<stopperPc, target>>
        PROVE  Tidy(h)'
    BY <1>0, <1>1 DEF Tidy
  <1>2. ASSUME NEW g \in Hooks, g # h, HookStep(g) \/ KillHook(g)
        PROVE  Tidy(h)'
    BY <1>0, <1>1, <1>2
    DEF HookStep, KillHook, CheckGate, MakeGate, OpenGate, ReadStop, ReadEnd,
        ExitHook, HookGoes, SetPath, hookVars, stopperVars
  <1>3. CASE CheckGate(h)
    BY <1>0, <1>3 DEF CheckGate, HookGoes, stopperVars, Tidy
  <1>4. CASE MakeGate(h) \/ OpenGate(h) \/ ReadEnd(h)
    BY <1>0, <1>4 DEF MakeGate, OpenGate, ReadEnd, HookGoes, Tidy
  <1>5. CASE ReadStop(h)
    BY <1>1, <1>5 DEF ReadStop, hookVars, stopperVars
  <1>6. CASE ExitHook(h)
    BY <1>0, <1>6 DEF ExitHook, HookGoes, SetPath, Tidy
  <1>7. CASE KillHook(h)
    BY <1>0, <1>7 DEF KillHook, Tidy
  <1>8. ASSUME NEW g \in Sessions, OnStart(g) \/ TerminateSession(g)
        PROVE  Tidy(h)'
    BY <1>1, <1>8 DEF OnStart, TerminateSession, hookVars, stopperVars
  <1>9. CASE OnTerminate
    BY <1>0, <1>9 DEF OnTerminate, hookVars, Tidy
  \* The stopper that comes to this gate is the hook's own.
  <1>16. StopperStep => gate \in Hooks /\ (gate = h <=> target = h)
    BY NotMisledStopper, GateIsHook DEF TidyInv, Inv, TypeOK, gate
  <1>10. CASE StopperStep /\ target # h
    BY <1>0, <1>16, <1>10
    DEF StopperStep, StopCheck, StopOpen, StopWrite, StopClose, StopTimeout,
        StopRemove, StopperGoes, StopperEnds, SetPath, hookVars, Tidy
  <1>11. CASE StopCheck /\ target = h
    BY <1>0, <1>16, <1>11
    DEF StopperStep, StopCheck, StopperGoes, StopperEnds, hookVars, Tidy
  <1>12. CASE StopOpen /\ target = h
    <2>1. hookPc[h] \notin {"sent", "mkfifo"}
      BY <1>0, <1>12 DEF StopOpen, StopperGoes, StopperEnds, Tidy
    <2>2. ~Past(h)
      BY <1>0, <1>12 DEF StopOpen, StopperGoes, StopperEnds, Past, OneStopper
    <2>3. hookPc[h] # "returned"
      BY <1>0, <2>2 DEF PastGate
    <2> QED
      BY <1>0, <1>12, <2>1, <2>3 DEF StopOpen, hookVars, Tidy
  <1>13. CASE (StopWrite \/ StopClose \/ StopTimeout) /\ target = h
    <2>1. hookPc[h] \notin {"sent", "mkfifo"}
      BY <1>0, <1>13
      DEF StopWrite, StopClose, StopTimeout, StopperGoes, StopperEnds, Tidy
    <2> QED
      BY <1>0, <1>13, <2>1
      DEF StopWrite, StopClose, StopTimeout, hookVars, Tidy
  <1>14. CASE StopRemove /\ target = h
    BY <1>0, <1>14 DEF StopRemove, StopperEnds, SetPath, hookVars, Tidy
  <1>15. CASE UNCHANGED vars
    BY <1>1, <1>15 DEF vars
  <1> QED
    BY <1>2, <1>3, <1>4, <1>5, <1>6, <1>7, <1>8, <1>9, <1>10, <1>11, <1>12,
       <1>13, <1>14, <1>15
    DEF Next, HookStep, StopperStep

\* A hook that returned has removed its gate, and no stopper of its own puts
\* anything under that name afterwards (server.sh:48-62).
THEOREM HookLeavesNothing == Spec => []NoResidue
  <1>1. TidyInv /\ [Next]_vars => TidyInv'
    <2> SUFFICES ASSUME TidyInv, [Next]_vars PROVE TidyInv'
      OBVIOUS
    <2> QED
      BY NextInv, OneStopperNext, PastGateNext, TidyNext DEF TidyInv
  <1>2. TidyInv => NoResidue
    BY DEF TidyInv, Tidy, NoResidue
  <1> QED
    BY <1>1, <1>2, TidyInit, PTL DEF Spec
=============================================================================
