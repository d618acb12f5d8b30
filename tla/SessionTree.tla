----------------------------- MODULE SessionTree -----------------------------
(***************************************************************************)
(* How debug sessions get their ids and their place in the session tree    *)
(* (deepDebug.ts:55-56, 92-106, 169-193, 209-251, 331-362).                *)
(*                                                                         *)
(* The extension numbers sessions with one static counter and writes the   *)
(* number of a session into the environment of its debuggee.  Processes    *)
(* inherit their environment, so a hook knows, by DEEPDEBUGGER_SESSION_ID, *)
(* the session it is under; decodeEnvironment turns that number into the   *)
(* parent's and puts the new one in its place.  The parent's session is    *)
(* looked up in sessionDict, which two listeners fill and empty as VS Code *)
(* reports starts and ends; every DeepDebugSession ever made adds two      *)
(* listeners and removes none.  The end of a session therefore runs a loop *)
(* of all the listeners there are, over one configuration they share: what *)
(* one of them deletes, the next ones no longer see.  The extension's      *)
(* thread does nothing else until the last of them has returned.           *)
(*                                                                         *)
(* A debuggee started in a terminal has no number in its environment       *)
(* (deepDebug.ts:430-445), and neither have the sessions under it.         *)
(***************************************************************************)
EXTENDS Integers, Sequences

CONSTANTS
    Processes,      \* debuggee processes
    MaxSessions,    \* debug sessions of one run of the extension
    Hierarchy       \* the setting debugSessionsHierarchy

ASSUME SessionTreeAssumption ==
    /\ MaxSessions \in Nat
    /\ Hierarchy \in BOOLEAN

VARIABLES
    sessionID,      \* the static counter
    sessionDict,    \* started sessions by id
    listeners,      \* DeepDebugSession objects, whose listeners are all alive
    sessions,       \* the sessions startDebugging was called for, in order
    stops,          \* how often stopServer was called for each of them
    left,           \* listeners still to be told of the end being reported
    env,            \* DEEPDEBUGGER_SESSION_ID of each process, or NoId
    owner,          \* the session each process is under, known to nobody
    process         \* the state of each process

vars == <<sessionID, sessionDict, listeners, sessions, stops, left,
          env, owner, process>>
processVars == <<env, owner, process>>

NoId == -1

NoSession == 0

Ids == 0..(MaxSessions - 1)

Numbers == 1..MaxSessions

SessionState == {"starting", "running", "ending", "over", "failed"}
ProcessState == {"free", "running", "hook", "driver", "asked"}

\* parentId is DEEPDEBUGGER_PARENT_SESSION_ID, parent the parentSession given
\* to startDebugging.  under and seen say whose debuggee asked for the session,
\* and what state that session was in when the request was handled.  hookPipe:
\* the configuration has a deepDbgHookPipe.
SessionType ==
    [from : {"user", "hook", "driver"},
     id : Ids \cup {NoId}, parentId : Ids \cup {NoId},
     parent : Numbers \cup {NoSession}, under : Numbers \cup {NoSession},
     seen : SessionState \cup {"none"}, hookPipe : BOOLEAN,
     state : SessionState]

\* No listener is at work: the extension may take its next event.
Idle == left = 0

Room == Len(sessions) < MaxSessions

Lookup(id) == IF id \in DOMAIN sessionDict THEN sessionDict[id] ELSE NoSession

Add(session) ==
    /\ sessions' = Append(sessions, session)
    /\ stops' = Append(stops, 0)

SetState(s, from, to) ==
    /\ sessions[s].state = from
    /\ sessions' = [sessions EXCEPT ![s].state = to]

-----------------------------------------------------------------------------
(* Launches *)

\* new DeepDebugSession, launchDebugeeConfig, setConfigEnvironment.
LaunchConfig ==
    /\ Idle
    /\ Room
    /\ listeners' = listeners + 1
    /\ sessionID' = sessionID + 1
    /\ Add([from |-> "user", id |-> sessionID, parentId |-> NoId,
            parent |-> NoSession, under |-> NoSession, seen |-> "none",
            hookPipe |-> TRUE, state |-> "starting"])
    /\ UNCHANGED <<sessionDict, left>> /\ UNCHANGED processVars

\* Not a session but commands to a terminal, whose shell runs the debuggee.
LaunchTerminal(p) ==
    /\ Idle
    /\ listeners < MaxSessions
    /\ process[p] = "free"
    /\ listeners' = listeners + 1
    /\ process' = [process EXCEPT ![p] = "running"]
    /\ UNCHANGED <<sessionID, sessionDict, sessions, stops, left, env, owner>>

-----------------------------------------------------------------------------
(* The debuggees *)

\* VS Code runs the program of a session, maybe before it reports the start.
RunDebuggee(s, p) ==
    /\ sessions[s].state \in {"starting", "running"}
    /\ process[p] = "free"
    /\ process' = [process EXCEPT ![p] = "running"]
    /\ env' = [env EXCEPT ![p] = sessions[s].id]
    /\ owner' = [owner EXCEPT ![p] = s]
    /\ UNCHANGED <<sessionID, sessionDict, listeners, sessions, stops, left>>

Fork(p, q) ==
    /\ process[p] = "running"
    /\ process[q] = "free"
    /\ process' = [process EXCEPT ![q] = "running"]
    /\ env' = [env EXCEPT ![q] = env[p]]
    /\ owner' = [owner EXCEPT ![q] = owner[p]]
    /\ UNCHANGED <<sessionID, sessionDict, listeners, sessions, stops, left>>

\* The process becomes a hook or the python driver, whose request is on its
\* way.
Run(p, program) ==
    /\ process[p] = "running"
    /\ process' = [process EXCEPT ![p] = program]
    /\ UNCHANGED <<sessionID, sessionDict, listeners, sessions, stops, left,
                   env, owner>>

-----------------------------------------------------------------------------
(* The extension *)

AskedBy(p) == IF owner[p] = NoSession THEN "none" ELSE sessions[owner[p]].state

\* Mutants of NewSession: the debuggee keeps its parent's number; the parent
\* is looked up by the new number.
SameId(p) ==
    [from |-> process[p],
     id |-> env[p], parentId |-> env[p],
     parent |-> IF Hierarchy /\ process[p] = "hook" THEN Lookup(env[p])
                ELSE NoSession,
     under |-> owner[p], seen |-> AskedBy(p), hookPipe |-> TRUE,
     state |-> "starting"]

LastParent(p) ==
    [from |-> process[p],
     id |-> IF env[p] = NoId THEN NoId ELSE sessionID, parentId |-> env[p],
     parent |-> IF Hierarchy /\ process[p] = "hook" THEN Lookup(sessionID - 1)
                ELSE NoSession,
     under |-> owner[p], seen |-> AskedBy(p), hookPipe |-> TRUE,
     state |-> "starting"]

\* decodeEnvironment, and the parentSession of onStart.  Only hook.sh sends
\* deepDbgParentSessionID (hook.sh:36), python_driver.sh does not; both send a
\* deepDbgHookPipe (hook.sh:37, python_driver.sh:75).
NewSession(p) ==
    [from |-> process[p],
     id |-> IF env[p] = NoId THEN NoId ELSE sessionID, parentId |-> env[p],
     parent |-> IF Hierarchy /\ process[p] = "hook" THEN Lookup(env[p])
                ELSE NoSession,
     under |-> owner[p], seen |-> AskedBy(p), hookPipe |-> TRUE,
     state |-> "starting"]

OnStart(p) ==
    /\ Idle
    /\ Room
    /\ process[p] \in {"hook", "driver"}
    /\ process' = [process EXCEPT ![p] = "asked"]
    /\ Add(NewSession(p))
    /\ sessionID' = IF env[p] = NoId THEN sessionID ELSE sessionID + 1
    /\ UNCHANGED <<sessionDict, listeners, left, env, owner>>

\* The request is lost, does not parse, or is not confirmed.
Drop(p) ==
    /\ process[p] \in {"hook", "driver"}
    /\ process' = [process EXCEPT ![p] = "asked"]
    /\ UNCHANGED <<sessionID, sessionDict, listeners, sessions, stops, left,
                   env, owner>>

\* Mutant of OnDidStart: the parent's number is taken for the session's.
OnDidStartByParent(s) ==
    /\ Idle
    /\ listeners > 0
    /\ SetState(s, "starting", "running")
    /\ sessionDict' =
          IF sessions[s].id = NoId THEN sessionDict
          ELSE [id \in DOMAIN sessionDict \cup {sessions[s].parentId} |->
                  IF id = sessions[s].parentId THEN s ELSE sessionDict[id]]
    /\ UNCHANGED <<sessionID, listeners, stops, left>> /\ UNCHANGED processVars

\* onDidStartDebugSession, in every listener.
OnDidStart(s) ==
    /\ Idle
    /\ listeners > 0
    /\ SetState(s, "starting", "running")
    /\ sessionDict' =
          IF sessions[s].id = NoId THEN sessionDict
          ELSE [id \in DOMAIN sessionDict \cup {sessions[s].id} |->
                  IF id = sessions[s].id THEN s ELSE sessionDict[id]]
    /\ UNCHANGED <<sessionID, listeners, stops, left>> /\ UNCHANGED processVars

\* startDebugging fails; nobody looks at its result.
FailStart(s) ==
    /\ SetState(s, "starting", "failed")
    /\ UNCHANGED <<sessionID, sessionDict, listeners, stops, left>>
    /\ UNCHANGED processVars

\* VS Code tells the extension of the end of a session; its listeners follow.
EndSession(s) ==
    /\ Idle
    /\ SetState(s, "running", "ending")
    /\ left' = listeners
    /\ UNCHANGED <<sessionID, sessionDict, listeners, stops>>
    /\ UNCHANGED processVars

Forget(s) ==
    sessionDict' = [id \in DOMAIN sessionDict \ {sessions[s].id} |->
                      sessionDict[id]]

\* if (hasOwnProperty('deepDbgHookPipe')) stopServer(...)
StopServer(s) ==
    stops' = IF sessions[s].hookPipe THEN [stops EXCEPT ![s] = @ + 1] ELSE stops

Told == IF left = 1 THEN "over" ELSE "ending"

\* Mutants of OnDidTerminate: the configuration keeps its deepDbgHookPipe; the
\* dictionary keeps the session.
OnDidTerminateAll(s) ==
    /\ sessions[s].state = "ending"
    /\ Forget(s)
    /\ StopServer(s)
    /\ sessions' = [sessions EXCEPT ![s].state = Told]
    /\ left' = left - 1
    /\ UNCHANGED <<sessionID, listeners>> /\ UNCHANGED processVars

OnDidTerminateKeep(s) ==
    /\ sessions[s].state = "ending"
    /\ StopServer(s)
    /\ sessions' = [sessions EXCEPT ![s] = [@ EXCEPT !.hookPipe = FALSE,
                                                     !.state = Told]]
    /\ left' = left - 1
    /\ UNCHANGED <<sessionID, sessionDict, listeners>>
    /\ UNCHANGED processVars

\* One listener's onDidTerminateDebugSession.
OnDidTerminate(s) ==
    /\ sessions[s].state = "ending"
    /\ Forget(s)
    /\ StopServer(s)
    /\ sessions' = [sessions EXCEPT ![s] = [@ EXCEPT !.hookPipe = FALSE,
                                                     !.state = Told]]
    /\ left' = left - 1
    /\ UNCHANGED <<sessionID, listeners>> /\ UNCHANGED processVars

-----------------------------------------------------------------------------
Init ==
    /\ sessionID = 0
    /\ sessionDict = <<>>
    /\ listeners = 0
    /\ sessions = <<>>
    /\ stops = <<>>
    /\ left = 0
    /\ env = [p \in Processes |-> NoId]
    /\ owner = [p \in Processes |-> NoSession]
    /\ process = [p \in Processes |-> "free"]

Next ==
    \/ LaunchConfig
    \/ \E p \in Processes :
          \/ LaunchTerminal(p) \/ OnStart(p) \/ Drop(p)
          \/ Run(p, "hook") \/ Run(p, "driver")
          \/ \E q \in Processes : Fork(p, q)
    \/ \E s \in 1..Len(sessions) :
          \/ OnDidStart(s) \/ FailStart(s) \/ EndSession(s) \/ OnDidTerminate(s)
          \/ \E p \in Processes : RunDebuggee(s, p)

Spec == Init /\ [][Next]_vars

-----------------------------------------------------------------------------
TypeOK ==
    /\ sessionID \in 0..MaxSessions
    /\ sessionDict \in [DOMAIN sessionDict -> Numbers]
    /\ DOMAIN sessionDict \subseteq Ids
    /\ listeners \in Nat
    /\ left \in 0..listeners
    /\ sessions \in Seq(SessionType)
    /\ stops \in Seq(Nat)
    /\ Len(stops) = Len(sessions)
    /\ env \in [Processes -> Ids \cup {NoId}]
    /\ owner \in [Processes -> Numbers \cup {NoSession}]
    /\ process \in [Processes -> ProcessState]

\* No two sessions ever have the same number, whichever of the two ways gave it
\* (setConfigEnvironment, decodeEnvironment) and whatever became of the others.
IdsUnique ==
    \A i, j \in 1..Len(sessions) :
        i # j /\ sessions[i].id # NoId => sessions[i].id # sessions[j].id

\* The sessions a listener has been told the start of, and none the end of.
Listed ==
    {s \in 1..Len(sessions) :
        \/ sessions[s].state = "running"
        \/ sessions[s].state = "ending" /\ left = listeners}

\* sessionDict holds the sessions that are running, each under its number, and
\* no others, however starts, ends and listeners mix: the first listener told of
\* an end takes the session out, and the others leave the dictionary alone.
DictIsRunning ==
    /\ \A id \in DOMAIN sessionDict :
          sessionDict[id] \in Listed /\ sessions[sessionDict[id]].id = id
    /\ \A s \in Listed :
          sessions[s].id # NoId => sessions[s].id \in DOMAIN sessionDict

\* The session VS Code shows a child under is the one whose debuggee ran the
\* hook, through any number of processes in between, and the parent number in
\* the child's environment is that session's.
ParentIsOwner ==
    \A s \in 1..Len(sessions) :
        LET c == sessions[s]
        IN  /\ c.parent \in {NoSession, c.under}
            /\ c.under # NoSession => c.parentId = sessions[c.under].id

\* A child that a hook of a numbered session asked for is shown at the top level
\* only when its parent had not been reported as started, or was over, when the
\* request came (deepDebug.ts:338-340).  A child of the python driver always is.
NestedIfParentRuns ==
    \A s \in 1..Len(sessions) :
        LET c == sessions[s]
        IN  Hierarchy /\ c.from = "hook" /\ c.seen = "running"
              /\ c.parentId # NoId
            => c.parent = c.under

\* The end of a session calls stopServer once, though every "deepdbg" launch
\* has left a listener behind and each of them is told (deepDebug.ts:98-106):
\* not before the end, and not again by listeners that joined in the meantime.
StoppedOnce ==
    \A s \in 1..Len(sessions) :
        /\ stops[s] <= 1
        /\ stops[s] = 1 => sessions[s].state \in {"ending", "over"}
        /\ sessions[s].state = "over" => stops[s] = 1
=============================================================================
