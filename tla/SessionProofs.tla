-------------------------- MODULE SessionProofs --------------------------
(***************************************************************************)
(* Proofs about sessions.  Module SessionTree, for any number of sessions  *)
(* and processes: the numbering of sessions, the dictionary, and the       *)
(* parent of a session.  Modules SessionArgs and OnStart, for arguments    *)
(* and environments of any length: what a request brings to its session.   *)
(***************************************************************************)
EXTENDS SessionTree, OnStart, SequenceTheorems, FiniteSetTheorems, TLAPS

\* Numbers given out are below the counter, which the sessions bound.
Numbered ==
    /\ sessionID <= Len(sessions)
    /\ Len(sessions) <= MaxSessions
    /\ \A s \in 1..Len(sessions) : sessions[s].id < sessionID

\* The environment of a process names the session it is under.
EnvNamesOwner ==
    \A p \in Processes :
        /\ owner[p] = NoSession => env[p] = NoId
        /\ owner[p] # NoSession =>
              owner[p] \in 1..Len(sessions) /\ env[p] = sessions[owner[p]].id

\* Sessions point to earlier sessions only.
UnderEarlier ==
    \A s \in 1..Len(sessions) : sessions[s].under \in 0..Len(sessions)

\* TypeOK without the bounds that follow from Numbered.
Types ==
    /\ sessionID \in Nat
    /\ sessionDict \in [DOMAIN sessionDict -> Numbers]
    /\ DOMAIN sessionDict \subseteq Nat
    /\ listeners \in Nat
    /\ left \in 0..listeners
    /\ sessions \in Seq(SessionType)
    /\ stops \in Seq(Nat)
    /\ Len(stops) = Len(sessions)
    /\ env \in [Processes -> Ids \cup {NoId}]
    /\ owner \in [Processes -> Numbers \cup {NoSession}]
    /\ process \in [Processes -> ProcessState]

\* While a listener has yet to be told of an end, it is the end of one session,
\* which the listeners that are through have taken deepDbgHookPipe from.
Ending ==
    /\ \A s \in 1..Len(sessions) :
          /\ sessions[s].state = "running" => listeners > 0
          /\ sessions[s].state = "ending" => left > 0
          /\ sessions[s].state = "ending" =>
                (sessions[s].hookPipe <=> left = listeners)
    /\ \A i, j \in 1..Len(sessions) :
          sessions[i].state = "ending" /\ sessions[j].state = "ending" => i = j

\* A configuration has its deepDbgHookPipe until stopServer has been called.
PipeUntilStopped ==
    \A s \in 1..Len(sessions) :
        /\ stops[s] = IF sessions[s].hookPipe THEN 0 ELSE 1
        /\ sessions[s].state \notin {"ending", "over"} => sessions[s].hookPipe
        /\ sessions[s].state = "over" => ~sessions[s].hookPipe

Inv ==
    /\ Types
    /\ Numbered
    /\ Ending
    /\ PipeUntilStopped
    /\ EnvNamesOwner
    /\ UnderEarlier
    /\ IdsUnique
    /\ DictIsRunning
    /\ ParentIsOwner
    /\ NestedIfParentRuns

-----------------------------------------------------------------------------
LEMMA InitInv == Init => Inv
  BY SessionTreeAssumption
  DEF Init, Inv, Types, Numbered, EnvNamesOwner, UnderEarlier, IdsUnique,
      DictIsRunning, ParentIsOwner, NestedIfParentRuns, Ending,
      PipeUntilStopped, Listed, NoId, NoSession, ProcessState

\* What appending a session does to the sequences.
LEMMA AddSteps ==
    ASSUME NEW x \in SessionType, Types, Add(x)
    PROVE  /\ sessions' \in Seq(SessionType)
           /\ stops' \in Seq(Nat)
           /\ Len(sessions') = Len(sessions) + 1
           /\ Len(stops') = Len(sessions')
           /\ sessions'[Len(sessions) + 1] = x
           /\ stops'[Len(sessions) + 1] = 0
           /\ \A i \in 1..Len(sessions) :
                 sessions'[i] = sessions[i] /\ stops'[i] = stops[i]
  <1>1. sessions \in Seq(SessionType) /\ stops \in Seq(Nat)
        /\ Len(stops) = Len(sessions)
    BY DEF Types
  <1>2. sessions' = Append(sessions, x) /\ stops' = Append(stops, 0)
    BY DEF Add
  <1> QED
    BY <1>1, <1>2

\* What a change of a session's state leaves as it is.
LEMMA StateSteps ==
    ASSUME NEW s \in 1..Len(sessions), NEW from, NEW to \in SessionState,
           Types, SetState(s, from, to)
    PROVE  /\ sessions' \in Seq(SessionType)
           /\ Len(sessions') = Len(sessions)
           /\ sessions[s].state = from
           /\ sessions'[s].state = to
           /\ \A i \in 1..Len(sessions) :
                 /\ sessions'[i].id = sessions[i].id
                 /\ sessions'[i].parentId = sessions[i].parentId
                 /\ sessions'[i].parent = sessions[i].parent
                 /\ sessions'[i].under = sessions[i].under
                 /\ sessions'[i].seen = sessions[i].seen
                 /\ sessions'[i].from = sessions[i].from
                 /\ sessions'[i].hookPipe = sessions[i].hookPipe
                 /\ i # s => sessions'[i].state = sessions[i].state
  <1> DEFINE new == [sessions[s] EXCEPT !.state = to]
  <1>1. sessions \in Seq(SessionType) /\ sessions[s] \in SessionType
    BY DEF Types
  <1>2. /\ sessions' = [sessions EXCEPT ![s] = new]
        /\ sessions[s].state = from
    BY DEF SetState
  <1>3. /\ new \in SessionType
        /\ new.id = sessions[s].id
        /\ new.parentId = sessions[s].parentId
        /\ new.parent = sessions[s].parent
        /\ new.under = sessions[s].under
        /\ new.seen = sessions[s].seen
        /\ new.from = sessions[s].from
        /\ new.hookPipe = sessions[s].hookPipe
        /\ new.state = to
    BY <1>1 DEF SessionType
  <1> HIDE DEF new
  <1>4. /\ sessions' \in Seq(SessionType)
        /\ Len(sessions') = Len(sessions)
        /\ sessions'[s] = new
        /\ \A i \in 1..Len(sessions) : i # s => sessions'[i] = sessions[i]
    BY <1>1, <1>2, <1>3
  <1> QED
    BY <1>2, <1>3, <1>4

\* Ids are integers and sessions point into the sequence.
LEMMA SessionFacts ==
    ASSUME Inv, NEW i \in 1..Len(sessions)
    PROVE  /\ sessions[i].id \in Int
           /\ sessions[i].under \in 0..Len(sessions)
           /\ sessions[i].id \in Nat \cup {NoId}
           /\ i \in Numbers
  <1>1. sessions[i] \in SessionType
    BY DEF Inv, Types
  <1>2. sessions[i].id \in Ids \cup {NoId}
    BY <1>1 DEF SessionType
  <1>3. sessions[i].id \in Int /\ sessions[i].id \in Nat \cup {NoId}
    BY <1>2, SessionTreeAssumption DEF Ids, NoId
  <1>4. i \in Numbers
    BY SessionTreeAssumption DEF Inv, Types, Numbered, Numbers
  <1> QED
    BY <1>3, <1>4 DEF Inv, UnderEarlier

\* What a listener told of the end of a session makes of the session.
LEMMA ListenerSteps ==
    ASSUME NEW s \in 1..Len(sessions), Types, OnDidTerminate(s)
    PROVE  /\ sessions' \in Seq(SessionType)
           /\ Len(sessions') = Len(sessions)
           /\ sessions[s].state = "ending"
           /\ sessions'[s].state = Told
           /\ ~sessions'[s].hookPipe
           /\ \A i \in 1..Len(sessions) :
                 /\ sessions'[i].id = sessions[i].id
                 /\ sessions'[i].parentId = sessions[i].parentId
                 /\ sessions'[i].parent = sessions[i].parent
                 /\ sessions'[i].under = sessions[i].under
                 /\ sessions'[i].seen = sessions[i].seen
                 /\ sessions'[i].from = sessions[i].from
                 /\ i # s => /\ sessions'[i].state = sessions[i].state
                             /\ sessions'[i].hookPipe = sessions[i].hookPipe
  <1> DEFINE new == [sessions[s] EXCEPT !.hookPipe = FALSE, !.state = Told]
  <1>1. sessions \in Seq(SessionType) /\ sessions[s] \in SessionType
    BY DEF Types
  <1>2. /\ sessions' = [sessions EXCEPT ![s] = new]
        /\ sessions[s].state = "ending"
    BY DEF OnDidTerminate
  <1>a. Told \in SessionState
    BY DEF Told, SessionState
  <1>3. /\ new \in SessionType
        /\ new.id = sessions[s].id
        /\ new.parentId = sessions[s].parentId
        /\ new.parent = sessions[s].parent
        /\ new.under = sessions[s].under
        /\ new.seen = sessions[s].seen
        /\ new.from = sessions[s].from
        /\ new.hookPipe = FALSE
        /\ new.state = Told
    BY <1>1, <1>a DEF SessionType
  <1> HIDE DEF new
  <1>4. /\ sessions' \in Seq(SessionType)
        /\ Len(sessions') = Len(sessions)
        /\ sessions'[s] = new
        /\ \A i \in 1..Len(sessions) : i # s => sessions'[i] = sessions[i]
    BY <1>1, <1>2, <1>3
  <1> QED
    BY <1>2, <1>3, <1>4

\* What changes neither the number nor the place of a session keeps all that
\* depends on these alone.
LEMMA PlaceKeeps ==
    ASSUME Inv,
           Len(sessions') = Len(sessions),
           \A i \in 1..Len(sessions) :
              /\ sessions'[i].id = sessions[i].id
              /\ sessions'[i].parentId = sessions[i].parentId
              /\ sessions'[i].parent = sessions[i].parent
              /\ sessions'[i].under = sessions[i].under
              /\ sessions'[i].seen = sessions[i].seen
              /\ sessions'[i].from = sessions[i].from,
           UNCHANGED <<sessionID, env, owner, process>>
    PROVE  /\ Numbered' /\ EnvNamesOwner' /\ UnderEarlier' /\ IdsUnique'
           /\ ParentIsOwner' /\ NestedIfParentRuns'
  <1>0. Types
    BY DEF Inv
  <1>1. /\ Len(sessions') = Len(sessions)
        /\ \A i \in 1..Len(sessions) :
              /\ sessions'[i].id = sessions[i].id
              /\ sessions'[i].parentId = sessions[i].parentId
              /\ sessions'[i].parent = sessions[i].parent
              /\ sessions'[i].under = sessions[i].under
              /\ sessions'[i].seen = sessions[i].seen
              /\ sessions'[i].from = sessions[i].from
    OBVIOUS
  <1>2. Numbered'
    BY <1>1 DEF Inv, Numbered
  <1>3. EnvNamesOwner'
    BY <1>1 DEF Inv, EnvNamesOwner
  <1>4. UnderEarlier'
    BY <1>1 DEF Inv, UnderEarlier
  <1>5. IdsUnique'
    BY <1>1 DEF Inv, IdsUnique
  <1>6. ParentIsOwner'
    <2> SUFFICES ASSUME NEW i \in 1..Len(sessions)
                 PROVE  /\ sessions[i].parent \in {NoSession, sessions[i].under}
                        /\ sessions[i].under # NoSession =>
                              sessions[i].parentId =
                                sessions'[sessions[i].under].id
      BY <1>1 DEF ParentIsOwner
    <2>1. sessions[i].under # NoSession =>
            sessions[i].under \in 1..Len(sessions)
      BY <1>0, SessionFacts, SMT DEF Types, NoSession
    <2> QED
      BY <1>1, <2>1 DEF Inv, ParentIsOwner
  <1>7. NestedIfParentRuns'
    BY <1>1 DEF Inv, NestedIfParentRuns
  <1> QED
    BY <1>2, <1>3, <1>4, <1>5, <1>6, <1>7

-----------------------------------------------------------------------------
\* The session a request gets is of the right type, and its parent, if any, is
\* the session its hook was under.
LEMMA NewSessionFacts ==
    ASSUME NEW p \in Processes, Inv, Room, process[p] \in {"hook", "driver"}
    PROVE  /\ NewSession(p) \in SessionType
           /\ NewSession(p).parent \in {NoSession, owner[p]}
           /\ /\ Hierarchy /\ process[p] = "hook"
              /\ env[p] # NoId /\ owner[p] # NoSession
              /\ sessions[owner[p]].state = "running"
              => NewSession(p).parent = owner[p]
  <1> USE SessionTreeAssumption
  <1>1. /\ sessionID \in 0..(MaxSessions - 1)
        /\ env[p] \in Ids \cup {NoId}
        /\ owner[p] \in Numbers \cup {NoSession}
    BY DEF Inv, Types, Numbered, Room
  <1>2. ASSUME env[p] \in DOMAIN sessionDict
        PROVE  sessionDict[env[p]] = owner[p] /\ owner[p] \in Numbers
    <2>1. /\ sessionDict[env[p]] \in 1..Len(sessions)
          /\ sessions[sessionDict[env[p]]].id = env[p]
      BY <1>2 DEF Inv, DictIsRunning, Listed
    <2>2. env[p] # NoId
      BY <1>2 DEF Inv, Types, NoId
    <2>3. /\ owner[p] # NoSession
          /\ owner[p] \in 1..Len(sessions)
          /\ sessions[owner[p]].id = env[p]
      BY <2>2 DEF Inv, EnvNamesOwner
    <2> QED
      BY <1>1, <2>1, <2>2, <2>3 DEF Inv, IdsUnique, NoSession, Numbers
  <1>3. Lookup(env[p]) \in {NoSession, owner[p]}
    BY <1>2 DEF Lookup
  <1>4. ASSUME env[p] # NoId, owner[p] # NoSession,
               sessions[owner[p]].state = "running"
        PROVE  Lookup(env[p]) = owner[p]
    <2>1. env[p] \in DOMAIN sessionDict
      BY <1>4 DEF Inv, EnvNamesOwner, DictIsRunning, Listed
    <2> QED
      BY <1>2, <2>1 DEF Lookup
  <1>5. owner[p] # NoSession => sessions[owner[p]].state \in SessionState
    <2>1. ASSUME owner[p] # NoSession PROVE sessions[owner[p]] \in SessionType
      BY <2>1 DEF Inv, Types, EnvNamesOwner
    <2> QED
      BY <2>1 DEF SessionType
  <1>6. NewSession(p) \in SessionType
    BY <1>1, <1>3, <1>5
    DEF NewSession, AskedBy, SessionType, Ids, Numbers, SessionState, NoSession
  <1> QED
    BY <1>3, <1>4, <1>6 DEF NewSession

LEMMA InvNext == Inv /\ [Next]_vars => Inv'
  <1> SUFFICES ASSUME Inv, [Next]_vars PROVE Inv'
    OBVIOUS
  <1> USE SessionTreeAssumption
  <1>0. Types
    BY DEF Inv
  \* Steps of processes.
  <1>1. ASSUME UNCHANGED <<sessionID, sessionDict, sessions, stops, left>>,
               \/ listeners' = listeners
               \/ Idle /\ listeners' = listeners + 1,
               process' \in [Processes -> ProcessState],
               env' \in [Processes -> Ids \cup {NoId}],
               owner' \in [Processes -> Numbers \cup {NoSession}],
               EnvNamesOwner'
        PROVE  Inv'
    <2>1. Types'
      BY <1>0, <1>1 DEF Types
    <2>2. Ending' /\ DictIsRunning'
      <3>1. CASE listeners' = listeners
        <4>1. Listed' = Listed
          BY <1>1, <3>1 DEF Listed
        <4> QED
          BY <1>1, <3>1, <4>1 DEF Inv, Ending, DictIsRunning
      <3>2. CASE Idle /\ listeners' = listeners + 1
        <4>1. listeners \in Nat /\ left = 0
          BY <1>0, <3>2 DEF Types, Idle
        <4>2. \A i \in 1..Len(sessions) : sessions[i].state # "ending"
          BY <4>1 DEF Inv, Ending
        <4>3. Listed' = Listed
          BY <1>1, <4>2 DEF Listed
        <4>4. Ending'
          BY <1>1, <3>2, <4>1, <4>2 DEF Inv, Ending
        <4> QED
          BY <1>1, <4>3, <4>4 DEF Inv, DictIsRunning
      <3> QED
        BY <1>1, <3>1, <3>2
    <2>3. PipeUntilStopped'
      BY <1>1 DEF Inv, PipeUntilStopped
    <2> QED
      BY <1>1, <2>1, <2>2, <2>3
      DEF Inv, Numbered, UnderEarlier, IdsUnique, ParentIsOwner,
          NestedIfParentRuns
  <1>2. ASSUME NEW p \in Processes, LaunchTerminal(p) \/ Drop(p)
               \/ Run(p, "hook") \/ Run(p, "driver")
        PROVE  Inv'
    <2>1. process' \in [Processes -> ProcessState]
      BY <1>0, <1>2 DEF LaunchTerminal, Run, Drop, Types, ProcessState
    <2>2. /\ UNCHANGED <<sessionID, sessionDict, sessions, stops, left>>
          /\ UNCHANGED <<env, owner>>
          /\ \/ listeners' = listeners
             \/ Idle /\ listeners' = listeners + 1
      BY <1>2 DEF LaunchTerminal, Run, Drop
    <2> QED
      BY <1>0, <1>1, <2>1, <2>2 DEF Inv, Types, EnvNamesOwner
  <1>3. ASSUME NEW p \in Processes, NEW q \in Processes, Fork(p, q) PROVE Inv'
    <2>1. /\ UNCHANGED <<sessionID, sessionDict, listeners, sessions, stops,
                         left>>
          /\ process' = [process EXCEPT ![q] = "running"]
          /\ env' = [env EXCEPT ![q] = env[p]]
          /\ owner' = [owner EXCEPT ![q] = owner[p]]
      BY <1>3 DEF Fork
    <2>2. /\ process' \in [Processes -> ProcessState]
          /\ env' \in [Processes -> Ids \cup {NoId}]
          /\ owner' \in [Processes -> Numbers \cup {NoSession}]
      BY <1>0, <2>1 DEF Types, ProcessState
    <2>3. EnvNamesOwner'
      BY <1>0, <2>1 DEF Inv, Types, EnvNamesOwner
    <2> QED
      BY <1>1, <2>1, <2>2, <2>3
  <1>4. ASSUME NEW s \in 1..Len(sessions), NEW p \in Processes,
               RunDebuggee(s, p)
        PROVE  Inv'
    <2>1. /\ UNCHANGED <<sessionID, sessionDict, listeners, sessions, stops,
                         left>>
          /\ process' = [process EXCEPT ![p] = "running"]
          /\ env' = [env EXCEPT ![p] = sessions[s].id]
          /\ owner' = [owner EXCEPT ![p] = s]
      BY <1>4 DEF RunDebuggee
    <2>2. s \in Numbers /\ s # NoSession /\ sessions[s] \in SessionType
      BY <1>0 DEF Inv, Types, Numbered, Numbers, NoSession
    <2>3. /\ process' \in [Processes -> ProcessState]
          /\ env' \in [Processes -> Ids \cup {NoId}]
          /\ owner' \in [Processes -> Numbers \cup {NoSession}]
      BY <1>0, <2>1, <2>2 DEF Types, ProcessState, SessionType
    <2>4. EnvNamesOwner'
      BY <1>0, <2>1, <2>2 DEF Inv, Types, EnvNamesOwner
    <2> QED
      BY <1>1, <2>1, <2>3, <2>4
  \* Steps that add a session.
  <1>5. ASSUME NEW x \in SessionType, Room, Add(x),
               x.state = "starting",
               x.under \in 0..Len(sessions),
               x.parent \in {NoSession, x.under},
               x.under # NoSession => x.parentId = sessions[x.under].id,
               /\ Hierarchy /\ x.from = "hook" /\ x.seen = "running"
                  /\ x.parentId # NoId
                  => x.parent = x.under,
               \/ x.id = NoId /\ sessionID' = sessionID
               \/ x.id = sessionID /\ sessionID' = sessionID + 1,
               x.hookPipe, Idle,
               listeners' \in {listeners, listeners + 1},
               UNCHANGED <<sessionDict, left, env, owner>>,
               process' \in [Processes -> ProcessState]
        PROVE  Inv'
    <2>1. /\ sessions' \in Seq(SessionType)
          /\ stops' \in Seq(Nat)
          /\ Len(sessions') = Len(sessions) + 1
          /\ Len(stops') = Len(sessions')
          /\ sessions'[Len(sessions) + 1] = x
          /\ stops'[Len(sessions) + 1] = 0
          /\ \A i \in 1..Len(sessions) :
                sessions'[i] = sessions[i] /\ stops'[i] = stops[i]
      BY <1>0, <1>5, AddSteps
    <2>2. Len(sessions) \in Nat /\ sessionID \in Nat
      BY <1>0 DEF Types
    <2>3. Types'
      BY <1>0, <1>5, <2>1, <2>2 DEF Types
    <2>a. \A i \in 1..Len(sessions) : sessions[i].id \in Int
      BY SessionFacts
    <2>4. Numbered'
      <3>1. sessionID' <= Len(sessions') /\ Len(sessions') <= MaxSessions
        BY <1>5, <2>1, <2>2 DEF Inv, Numbered, Room
      <3>2. ASSUME NEW i \in 1..Len(sessions')
            PROVE  sessions'[i].id < sessionID'
        <4>1. CASE i \in 1..Len(sessions)
          BY <1>5, <2>1, <2>2, <2>a, <4>1 DEF Inv, Numbered
        <4>2. CASE i = Len(sessions) + 1
          BY <1>5, <2>1, <2>2, <4>2 DEF NoId
        <4> QED
          BY <2>1, <2>2, <4>1, <4>2
      <3> QED
        BY <3>1, <3>2 DEF Numbered
    <2>5. EnvNamesOwner'
      BY <1>5, <2>1, <2>2 DEF Inv, EnvNamesOwner
    <2>6. UnderEarlier'
      BY <1>5, <2>1, <2>2 DEF Inv, UnderEarlier
    <2>7. IdsUnique'
      <3>1. \A i \in 1..Len(sessions) : x.id # NoId => sessions[i].id # x.id
        BY <1>5, <2>2, <2>a DEF Inv, Numbered
      <3> SUFFICES ASSUME NEW i \in 1..Len(sessions'),
                          NEW j \in 1..Len(sessions'), i # j,
                          sessions'[i].id # NoId
                   PROVE  sessions'[i].id # sessions'[j].id
        BY DEF IdsUnique
      <3>2. CASE i = Len(sessions) + 1 \/ j = Len(sessions) + 1
        BY <2>1, <2>2, <3>1, <3>2
      <3>3. CASE i \in 1..Len(sessions) /\ j \in 1..Len(sessions)
        BY <2>1, <3>3 DEF Inv, IdsUnique
      <3> QED
        BY <2>1, <2>2, <3>2, <3>3
    <2>b. Listed' = Listed
      <3>1. left = 0 /\ left' = 0
        BY <1>5 DEF Idle
      <3>2. \A i \in 1..Len(sessions) : sessions[i].state # "ending"
        BY <1>0, <3>1 DEF Inv, Types, Ending
      <3>3. ASSUME NEW i \in Listed'
            PROVE  i \in Listed
        <4>1. i \in 1..Len(sessions')
          BY DEF Listed
        <4>2. i # Len(sessions) + 1
          BY <1>5, <2>1 DEF Listed
        <4>3. i \in 1..Len(sessions) /\ sessions'[i] = sessions[i]
          BY <2>1, <2>2, <4>1, <4>2
        <4> QED
          BY <3>2, <4>3 DEF Listed
      <3>4. ASSUME NEW i \in Listed
            PROVE  i \in Listed'
        <4>1. i \in 1..Len(sessions) /\ sessions[i].state = "running"
          BY <3>2 DEF Listed
        <4>2. i \in 1..Len(sessions') /\ sessions'[i] = sessions[i]
          BY <2>1, <2>2, <4>1
        <4> QED
          BY <4>1, <4>2 DEF Listed
      <3> QED
        BY <3>3, <3>4
    <2>8. DictIsRunning'
      <3>1. \A i \in Listed : i \in 1..Len(sessions)
        BY DEF Listed
      <3> QED
        BY <1>5, <2>1, <2>b, <3>1 DEF Inv, DictIsRunning
    <2>9. ParentIsOwner'
      BY <1>5, <2>1, <2>2 DEF Inv, ParentIsOwner, UnderEarlier, NoSession
    <2>10. NestedIfParentRuns'
      BY <1>5, <2>1, <2>2 DEF Inv, NestedIfParentRuns
    <2>11. Ending'
      <3>1. left = 0 /\ left' = 0
        BY <1>5 DEF Idle
      <3>2. \A i \in 1..Len(sessions) : sessions[i].state # "ending"
        BY <1>0, <3>1 DEF Inv, Types, Ending
      <3>3. \A i \in 1..Len(sessions') : sessions'[i].state # "ending"
        BY <1>5, <2>1, <2>2, <3>2
      <3>4. \A i \in 1..Len(sessions') :
              sessions'[i].state = "running" => listeners' > 0
        BY <1>0, <1>5, <2>1, <2>2 DEF Inv, Types, Ending
      <3> QED
        BY <3>3, <3>4 DEF Ending
    <2>12. PipeUntilStopped'
      BY <1>5, <2>1, <2>2 DEF Inv, PipeUntilStopped
    <2> QED
      BY <2>3, <2>4, <2>5, <2>6, <2>7, <2>8, <2>9, <2>10, <2>11, <2>12
      DEF Inv
  <1>6. CASE LaunchConfig
    <2> DEFINE x == [from |-> "user", id |-> sessionID, parentId |-> NoId,
                     parent |-> NoSession, under |-> NoSession,
                     seen |-> "none", hookPipe |-> TRUE, state |-> "starting"]
    <2>1. sessionID \in Ids
      BY <1>0, <1>6 DEF LaunchConfig, Room, Inv, Types, Numbered, Ids
    <2>2. x \in SessionType
      BY <2>1 DEF SessionType, SessionState
    <2>3. /\ x.state = "starting" /\ x.from = "user" /\ x.id = sessionID
          /\ x.under = NoSession /\ x.parent = NoSession /\ x.hookPipe
      OBVIOUS
    <2>4. /\ Room /\ Idle /\ Add(x) /\ sessionID' = sessionID + 1
          /\ listeners' \in {listeners, listeners + 1}
          /\ UNCHANGED <<sessionDict, left, env, owner, process>>
      BY <1>6 DEF LaunchConfig, processVars
    <2> HIDE DEF x
    <2>5. x.under \in 0..Len(sessions)
      BY <1>0, <2>3 DEF Types, NoSession
    <2>6. process' \in [Processes -> ProcessState]
      BY <1>0, <2>4 DEF Types
    <2> QED
      BY <1>5, <2>2, <2>3, <2>4, <2>5, <2>6, Zenon
  <1>7. ASSUME NEW p \in Processes, OnStart(p) PROVE Inv'
    <2> DEFINE x == NewSession(p)
    <2>1. /\ x \in SessionType
          /\ x.parent \in {NoSession, owner[p]}
          /\ /\ Hierarchy /\ process[p] = "hook"
             /\ env[p] # NoId /\ owner[p] # NoSession
             /\ sessions[owner[p]].state = "running"
             => x.parent = owner[p]
      BY <1>7, NewSessionFacts DEF OnStart
    <2>2. /\ x.id = IF env[p] = NoId THEN NoId ELSE sessionID
          /\ x.parentId = env[p] /\ x.under = owner[p]
          /\ x.state = "starting" /\ x.from = process[p] /\ x.hookPipe
          /\ x.seen = IF owner[p] = NoSession
                        THEN "none" ELSE sessions[owner[p]].state
      BY DEF NewSession, AskedBy
    <2> HIDE DEF x
    <2>3. owner[p] \in 0..Len(sessions)
      BY <1>0, SMT DEF Inv, Types, EnvNamesOwner, NoSession
    <2>4. owner[p] # NoSession => env[p] = sessions[owner[p]].id
      BY DEF Inv, EnvNamesOwner
    <2>5. process' \in [Processes -> ProcessState]
      BY <1>0, <1>7 DEF OnStart, Types, ProcessState
    <2>6. /\ Room /\ Idle /\ Add(x)
          /\ listeners' \in {listeners, listeners + 1}
          /\ UNCHANGED <<sessionDict, left, env, owner>>
          /\ sessionID' = IF env[p] = NoId THEN sessionID ELSE sessionID + 1
      BY <1>7 DEF OnStart, x
    <2> QED
      BY <1>5, <2>1, <2>2, <2>3, <2>4, <2>5, <2>6
  \* Steps that change a session's state.
  <1>8. ASSUME NEW s \in 1..Len(sessions), NEW from, NEW to \in SessionState,
               SetState(s, from, to), Idle \/ to = "failed",
               UNCHANGED <<sessionID, listeners, stops, env, owner, process>>,
               \/ /\ from = "starting" /\ to = "failed"
                  /\ UNCHANGED <<sessionDict, left>>
               \/ /\ from = "starting" /\ to = "running" /\ listeners > 0
                  /\ UNCHANGED left
                  /\ sessionDict' =
                       IF sessions[s].id = NoId THEN sessionDict
                       ELSE [num \in DOMAIN sessionDict
                                       \cup {sessions[s].id} |->
                               IF num = sessions[s].id THEN s
                               ELSE sessionDict[num]]
               \/ /\ from = "running" /\ to = "ending" /\ left' = listeners
                  /\ UNCHANGED sessionDict
        PROVE  Inv'
    <2>1. /\ sessions' \in Seq(SessionType)
          /\ Len(sessions') = Len(sessions)
          /\ sessions[s].state = from
          /\ sessions'[s].state = to
          /\ \A i \in 1..Len(sessions) :
                /\ sessions'[i].id = sessions[i].id
                /\ sessions'[i].parentId = sessions[i].parentId
                /\ sessions'[i].parent = sessions[i].parent
                /\ sessions'[i].under = sessions[i].under
                /\ sessions'[i].seen = sessions[i].seen
                /\ sessions'[i].from = sessions[i].from
                /\ sessions'[i].hookPipe = sessions[i].hookPipe
                /\ i # s => sessions'[i].state = sessions[i].state
      BY <1>0, <1>8, StateSteps
    <2>2. /\ Numbered' /\ EnvNamesOwner' /\ UnderEarlier' /\ IdsUnique'
          /\ ParentIsOwner' /\ NestedIfParentRuns'
      BY <1>8, <2>1, PlaceKeeps
    <2>3. /\ listeners \in Nat /\ left \in 0..listeners
          /\ to # "failed" =>
                /\ left = 0
                /\ \A i \in 1..Len(sessions) : sessions[i].state # "ending"
      BY <1>0, <1>8 DEF Inv, Types, Ending, Idle
    <2>4. s \in Numbers /\ sessions[s].id \in Nat \cup {NoId}
      BY SessionFacts
    <2>5. Types'
      <3>1. /\ sessionDict' \in [DOMAIN sessionDict' -> Numbers]
            /\ DOMAIN sessionDict' \subseteq Nat
        BY <1>0, <1>8, <2>4 DEF Types
      <3>2. left' \in 0..listeners
        BY <1>0, <1>8, <2>3
      <3> QED
        BY <1>0, <1>8, <2>1, <3>1, <3>2 DEF Types
    <2>6. Ending'
      <3>a. CASE to = "failed"
        BY <1>8, <2>1, <3>a DEF Inv, Ending
      <3>b. CASE to # "failed"
        <4>1. ASSUME NEW i \in 1..Len(sessions), sessions'[i].state = "ending"
              PROVE  /\ i = s /\ to = "ending"
                     /\ left' = listeners /\ left' > 0
                     /\ sessions'[i].hookPipe
          <5>1. i = s /\ to = "ending"
            BY <2>1, <2>3, <3>b, <4>1
          <5>2. from = "running" /\ left' = listeners
            BY <1>8, <5>1
          <5>3. listeners > 0
            BY <2>1, <5>2 DEF Inv, Ending
          <5>4. sessions[s].hookPipe
            BY <2>1, <5>2 DEF Inv, PipeUntilStopped
          <5> QED
            BY <2>1, <5>1, <5>2, <5>3, <5>4
        <4>2. \A i \in 1..Len(sessions) :
                sessions'[i].state = "running" => listeners > 0
          BY <1>8, <2>1 DEF Inv, Ending
        <4> QED
          BY <1>8, <2>1, <4>1, <4>2 DEF Ending
      <3> QED
        BY <3>a, <3>b
    <2>7. PipeUntilStopped'
      BY <1>8, <2>1 DEF Inv, PipeUntilStopped
    <2>8. /\ s \in Listed' <=> to \in {"running", "ending"}
          /\ s \in Listed <=> from = "running"
          /\ \A i \in 1..Len(sessions) :
                i # s => (i \in Listed' <=> i \in Listed)
          /\ Listed \subseteq 1..Len(sessions)
          /\ Listed' \subseteq 1..Len(sessions)
      BY <1>8, <2>1, <2>3 DEF Listed
    <2>9. \A num \in DOMAIN sessionDict :
            sessionDict[num] \in Listed /\ sessions[sessionDict[num]].id = num
      BY DEF Inv, DictIsRunning
    <2>10. DictIsRunning'
      <3>1. CASE from = "running"
        <4>1. to = "ending" /\ sessionDict' = sessionDict
          BY <1>8, <3>1
        <4>a. \A i \in 1..Len(sessions) : i \in Listed' <=> i \in Listed
          BY <2>8, <3>1, <4>1
        <4>2. Listed' = Listed
          BY <2>8, <4>a
        <4> QED
          BY <2>1, <2>8, <4>1, <4>2 DEF Inv, DictIsRunning
      <3>2. CASE from = "starting" /\ (to = "failed" \/ sessions[s].id = NoId)
        <4>1. sessionDict' = sessionDict
          BY <1>8, <3>2
        <4>2. \A num \in DOMAIN sessionDict : sessionDict[num] \in Listed'
          BY <2>8, <2>9, <3>2
        <4>3. \A i \in Listed' : sessions[i].id # NoId => i \in Listed
          BY <1>8, <2>8, <3>2
        <4> QED
          BY <2>1, <2>8, <4>1, <4>2, <4>3 DEF Inv, DictIsRunning
      <3>3. CASE from = "starting" /\ to = "running" /\ sessions[s].id # NoId
        <4>1. \A num \in DOMAIN sessionDict :
                sessionDict[num] # s /\ sessionDict[num] \in Listed'
          BY <2>8, <2>9, <3>3
        <4>2. sessions[s].id \notin DOMAIN sessionDict
          BY <2>8, <2>9, <3>3, <4>1 DEF Inv, IdsUnique
        <4>3. /\ DOMAIN sessionDict' = DOMAIN sessionDict \cup {sessions[s].id}
              /\ sessionDict'[sessions[s].id] = s
              /\ \A num \in DOMAIN sessionDict :
                    sessionDict'[num] = sessionDict[num]
          BY <1>8, <3>3, <4>2
        <4>4. s \in Listed'
          BY <2>8, <3>3
        <4>5. ASSUME NEW num \in DOMAIN sessionDict'
              PROVE  /\ sessionDict'[num] \in Listed'
                     /\ sessions'[sessionDict'[num]].id = num
          <5>1. CASE num \in DOMAIN sessionDict
            <6>1. sessionDict'[num] = sessionDict[num]
              BY <4>3, <5>1
            <6>2. sessionDict[num] \in 1..Len(sessions)
              BY <2>8, <2>9, <5>1
            <6> QED
              BY <2>1, <2>9, <4>1, <5>1, <6>1, <6>2
          <5>2. CASE num = sessions[s].id
            BY <2>1, <4>3, <4>4, <5>2
          <5> QED
            BY <4>3, <5>1, <5>2
        <4>6. \A i \in Listed' :
                sessions'[i].id # NoId =>
                   sessions'[i].id \in DOMAIN sessionDict'
          BY <2>1, <2>8, <4>3 DEF Inv, DictIsRunning
        <4> QED
          BY <4>5, <4>6 DEF DictIsRunning
      <3> QED
        BY <1>8, <3>1, <3>2, <3>3
    <2> QED
      BY <2>2, <2>5, <2>6, <2>7, <2>10 DEF Inv
  <1>9. ASSUME NEW s \in 1..Len(sessions),
               FailStart(s) \/ OnDidStart(s) \/ EndSession(s)
        PROVE  Inv'
    <2>1. CASE FailStart(s)
      <3>1. /\ SetState(s, "starting", "failed")
            /\ UNCHANGED <<sessionID, sessionDict, listeners, stops, left>>
            /\ UNCHANGED <<env, owner, process>>
        BY <2>1 DEF FailStart, processVars
      <3> QED
        BY <1>8, <3>1 DEF SessionState
    <2>2. CASE OnDidStart(s)
      BY <1>8, <2>2, Zenon DEF OnDidStart, processVars, SessionState
    <2>3. CASE EndSession(s)
      BY <1>8, <2>3 DEF EndSession, processVars, SessionState
    <2> QED
      BY <1>9, <2>1, <2>2, <2>3
  <1>10. ASSUME NEW s \in 1..Len(sessions), OnDidTerminate(s) PROVE Inv'
    <2>1. /\ sessions' \in Seq(SessionType)
          /\ Len(sessions') = Len(sessions)
          /\ sessions[s].state = "ending"
          /\ sessions'[s].state = Told
          /\ ~sessions'[s].hookPipe
          /\ \A i \in 1..Len(sessions) :
                /\ sessions'[i].id = sessions[i].id
                /\ sessions'[i].parentId = sessions[i].parentId
                /\ sessions'[i].parent = sessions[i].parent
                /\ sessions'[i].under = sessions[i].under
                /\ sessions'[i].seen = sessions[i].seen
                /\ sessions'[i].from = sessions[i].from
                /\ i # s => /\ sessions'[i].state = sessions[i].state
                            /\ sessions'[i].hookPipe = sessions[i].hookPipe
      BY <1>0, <1>10, ListenerSteps
    <2>2. /\ sessionDict' = [num \in DOMAIN sessionDict \ {sessions[s].id} |->
                               sessionDict[num]]
          /\ stops' = IF sessions[s].hookPipe
                        THEN [stops EXCEPT ![s] = @ + 1] ELSE stops
          /\ left' = left - 1
          /\ UNCHANGED <<sessionID, listeners, env, owner, process>>
      BY <1>10 DEF OnDidTerminate, Forget, StopServer, processVars
    <2>3. /\ Numbered' /\ EnvNamesOwner' /\ UnderEarlier' /\ IdsUnique'
          /\ ParentIsOwner' /\ NestedIfParentRuns'
      BY <2>1, <2>2, PlaceKeeps
    <2>4. /\ listeners \in Nat /\ left \in 0..listeners /\ left > 0
          /\ \A i \in 1..Len(sessions) : i # s => sessions[i].state # "ending"
      BY <1>0, <2>1 DEF Inv, Types, Ending
    <2>5. /\ stops' \in Seq(Nat) /\ Len(stops') = Len(stops)
          /\ \A i \in 1..Len(stops) : i # s => stops'[i] = stops[i]
          /\ stops'[s] = IF sessions[s].hookPipe
                           THEN stops[s] + 1 ELSE stops[s]
      BY <1>0, <2>2 DEF Types
    <2>6. Types'
      <3>1. /\ sessionDict' \in [DOMAIN sessionDict' -> Numbers]
            /\ DOMAIN sessionDict' \subseteq Nat
        BY <1>0, <2>2 DEF Types
      <3>2. left' \in 0..listeners
        BY <2>2, <2>4
      <3> QED
        BY <1>0, <2>1, <2>2, <2>5, <3>1, <3>2 DEF Types
    <2>7. Ending'
      <3>1. ASSUME NEW i \in 1..Len(sessions), sessions'[i].state = "ending"
            PROVE  /\ i = s /\ left' > 0 /\ left' # listeners
                   /\ ~sessions'[i].hookPipe
        <4>1. i = s
          BY <2>1, <2>4, <3>1
        <4>2. left # 1
          BY <2>1, <3>1, <4>1 DEF Told
        <4> QED
          BY <2>1, <2>2, <2>4, <4>1, <4>2
      <3>2. \A i \in 1..Len(sessions) :
              sessions'[i].state = "running" => listeners > 0
        BY <2>4
      <3> QED
        BY <2>1, <2>2, <3>1, <3>2 DEF Ending
    <2>8. PipeUntilStopped'
      <3>1. ASSUME NEW i \in 1..Len(sessions), i # s
            PROVE  /\ stops'[i] = IF sessions'[i].hookPipe THEN 0 ELSE 1
                   /\ sessions'[i].state \notin {"ending", "over"} =>
                         sessions'[i].hookPipe
                   /\ sessions'[i].state = "over" => ~sessions'[i].hookPipe
        BY <1>0, <2>1, <2>5, <3>1 DEF Inv, Types, PipeUntilStopped
      <3>2. stops'[s] = 1
        BY <2>5 DEF Inv, PipeUntilStopped
      <3>3. sessions'[s].state \in {"ending", "over"}
        BY <2>1 DEF Told
      <3> QED
        BY <2>1, <3>1, <3>2, <3>3 DEF PipeUntilStopped
    <2>9. Listed' = Listed \ {s} /\ Listed \subseteq 1..Len(sessions)
      <3>1. s \notin Listed'
        BY <2>1, <2>2, <2>4 DEF Listed, Told
      <3>2. \A i \in 1..Len(sessions) :
              i # s => (i \in Listed' <=> i \in Listed)
        BY <2>1, <2>4 DEF Listed
      <3> QED
        BY <2>1, <3>1, <3>2 DEF Listed
    <2>10. DictIsRunning'
      <3>1. \A num \in DOMAIN sessionDict :
              sessionDict[num] \in Listed /\ sessions[sessionDict[num]].id = num
        BY DEF Inv, DictIsRunning
      <3>2. \A num \in DOMAIN sessionDict' :
              /\ num \in DOMAIN sessionDict
              /\ sessionDict'[num] = sessionDict[num]
              /\ sessionDict[num] # s
        BY <2>2, <3>1
      <3>3. ASSUME NEW num \in DOMAIN sessionDict'
            PROVE  /\ sessionDict'[num] \in Listed'
                   /\ sessions'[sessionDict'[num]].id = num
        <4>1. /\ sessionDict'[num] = sessionDict[num]
              /\ sessionDict[num] \in Listed' /\ num \in DOMAIN sessionDict
          BY <2>9, <3>1, <3>2
        <4>2. sessionDict[num] \in 1..Len(sessions)
          BY <2>9, <4>1
        <4> QED
          BY <2>1, <3>1, <4>1, <4>2
      <3>4. ASSUME NEW i \in Listed', sessions'[i].id # NoId
            PROVE  sessions'[i].id \in DOMAIN sessionDict'
        <4>1. i \in 1..Len(sessions) /\ i # s /\ i \in Listed
              /\ sessions[i].id = sessions'[i].id
          BY <2>1, <2>9
        <4>2. sessions[i].id # sessions[s].id
          BY <3>4, <4>1 DEF Inv, IdsUnique
        <4> QED
          BY <2>2, <3>4, <4>1, <4>2 DEF Inv, DictIsRunning
      <3> QED
        BY <3>3, <3>4 DEF DictIsRunning
    <2> QED
      BY <2>3, <2>6, <2>7, <2>8, <2>10 DEF Inv
  <1>11. CASE UNCHANGED vars
    BY <1>0, <1>1, <1>11 DEF vars, Inv, Types, EnvNamesOwner
  <1> QED
    BY <1>2, <1>3, <1>4, <1>6, <1>7, <1>9, <1>10, <1>11 DEF Next

\* The inductive invariant holds.
THEOREM InvHolds == Spec => []Inv
  BY InitInv, InvNext, PTL DEF Spec

\* Every variable keeps its type; in particular the counter never exceeds the
\* number of sessions.
THEOREM TypeCorrect == Spec => []TypeOK
  <1>1. Inv => TypeOK
    <2> SUFFICES ASSUME Inv PROVE TypeOK
      OBVIOUS
    <2>1. sessionID \in 0..MaxSessions
      BY SessionTreeAssumption DEF Inv, Types, Numbered
    <2>2. DOMAIN sessionDict \subseteq Ids
      <3> SUFFICES ASSUME NEW num \in DOMAIN sessionDict PROVE num \in Ids
        OBVIOUS
      <3>1. /\ sessionDict[num] \in 1..Len(sessions)
            /\ sessions[sessionDict[num]].id = num
        BY DEF Inv, DictIsRunning, Listed
      <3>2. sessions[sessionDict[num]] \in SessionType
        BY <3>1 DEF Inv, Types
      <3>3. num \in Ids \cup {NoId} /\ num \in Nat
        BY <3>1, <3>2 DEF Inv, Types, SessionType
      <3> QED
        BY <3>3 DEF NoId
    <2> QED
      BY <2>1, <2>2 DEF TypeOK, Inv, Types
  <1> QED
    BY <1>1, InvHolds, PTL

\* Session numbers are never reused (deepDebug.ts:170, 221).
THEOREM NumbersUnique == Spec => []IdsUnique
  BY InvHolds, PTL DEF Inv

\* sessionDict holds exactly the running sessions that have a number.
THEOREM DictExact == Spec => []DictIsRunning
  BY InvHolds, PTL DEF Inv

\* A session's parent is the session whose debuggee asked for it, however many
\* processes and sessions there are.
THEOREM ParentRight == Spec => []ParentIsOwner
  BY InvHolds, PTL DEF Inv

\* A request from under a running session is nested below it.
THEOREM Nested == Spec => []NestedIfParentRuns
  BY InvHolds, PTL DEF Inv

\* The end of a session makes one call of stopServer, however many listeners are
\* told of it: the first one takes deepDbgHookPipe from the configuration.
THEOREM StopOnce == Spec => []StoppedOnce
  <1>1. Inv => StoppedOnce
    BY DEF Inv, Types, PipeUntilStopped, StoppedOnce
  <1> QED
    BY <1>1, InvHolds, PTL

-----------------------------------------------------------------------------
(* The arguments on their way.  Nothing marks where those of the program   *)
(* end: the invariant says which elements have been passed on, and where   *)
(* the loop of decodeConfig stands among them.                             *)

\* What may stand in a list of arguments.
Anything == Arguments \cup {OwnCwd, OwnName, "log", "program"}

LogArgs == {<<>>, <<LogSwitch, "log">>}

\* What the sender is to pass on; the switch for the log file may follow.
Kept == IF sender = "hook" THEN <<"program">> \o user ELSE Own \o Switches

Inputs ==
    /\ user \in Seq(Anything)
    /\ platform \in {"posix", "win32"}
    /\ sender \in {"launcher", "debuggee", "hook"}

\* The sender does not take an argument of the program for one of its own.
Undisturbed ==
    \/ platform = "win32"
    \/ ~Holds(user, Empty) /\ (sender = "hook" \/ ~Holds(user, LogSwitch))

\* Two parts of a list, one after the other.
Parted(s, a, b) ==
    /\ Len(a) + Len(b) = Len(s)
    /\ \A k \in 1..Len(a) : a[k] = s[k]
    /\ \A k \in 1..Len(b) : b[k] = s[Len(a) + k]

\* The scripts pass on what stands before the switch for the log file, one by
\* one, the programs for Windows everything at once.
Passing ==
    /\ args \in Seq(Anything) /\ todo \in Seq(Anything)
    /\ \/ todo = <<>> /\ args = Kept /\ platform = "posix"
       \/ \E log \in LogArgs :
             /\ sender = "hook" => log = <<>>
             /\ Parted(Kept \o log, args, todo)
             /\ IF platform = "posix"
                  THEN Len(args) <= Len(Kept)
                  ELSE args = <<>> \/ todo = <<>>

\* All of it has been passed on, on POSIX without the switch for the log file.
Whole ==
    \E log \in LogArgs :
        /\ sender = "hook" \/ platform = "posix" => log = <<>>
        /\ args = Kept \o log

\* Where the loop of decodeConfig stands among the switches, and what it has
\* found before.
Looping ==
    LET m == Len(Own) IN
    /\ m >= 1
    /\ at \in Nat /\ at >= 2
    /\ at <= m + 3 \/ at >= m + 5
    /\ at = m + 2 => Own[m] = CwdSwitch
    /\ at >= m + 3 => cwd = OwnCwd \/ Own[m] = CwdSwitch
    /\ at >= m + 5 => name = OwnName

ArgsInv ==
    /\ Inputs
    /\ Undisturbed =>
          /\ stage = "send" => Passing
          /\ stage = "decode" =>
                IF sender = "hook" THEN args = user ELSE Whole /\ Looping
          /\ stage = "decode" /\ sender = "launcher" => Holds(user, Connect)
    /\ ArgsRestored
    /\ LauncherGetsArgs

-----------------------------------------------------------------------------
LEMMA ConcatFacts ==
    ASSUME NEW a \in Seq(Anything), NEW b \in Seq(Anything),
           NEW c, c = a \o b
    PROVE  /\ c \in Seq(Anything) /\ Len(c) = Len(a) + Len(b)
           /\ \A k \in 1..Len(a) : c[k] = a[k]
           /\ \A k \in 1..Len(b) : c[Len(a) + k] = b[k]
  <1>1. c \in Seq(Anything) /\ Len(c) = Len(a) + Len(b)
    OBVIOUS
  <1>2. \A k \in 1..Len(a) : c[k] = a[k]
    OBVIOUS
  <1>3. \A k \in 1..Len(b) : c[Len(a) + k] = b[k]
    BY ConcatProperties, <1>1
  <1> QED
    BY <1>1, <1>2, <1>3

\* One element goes from the right part of a list to the left one.
LEMMA PassOne ==
    ASSUME NEW s \in Seq(Anything), NEW a \in Seq(Anything),
           NEW b \in Seq(Anything), Parted(s, a, b), b # <<>>
    PROVE  /\ Append(a, Head(b)) \in Seq(Anything)
           /\ Tail(b) \in Seq(Anything)
           /\ Len(Append(a, Head(b))) = Len(a) + 1
           /\ Parted(s, Append(a, Head(b)), Tail(b))
  <1> SUFFICES ASSUME NEW h, NEW t, NEW c,
                      h = Head(b), t = Tail(b), c = Append(a, h)
               PROVE  /\ c \in Seq(Anything) /\ t \in Seq(Anything)
                      /\ Len(c) = Len(a) + 1 /\ Parted(s, c, t)
    OBVIOUS
  <1>1. h \in Anything /\ h = b[1] /\ t \in Seq(Anything) /\ Len(b) >= 1
    OBVIOUS
  <1>2. Len(t) = Len(b) - 1
    OBVIOUS
  <1>3. \A k \in 1..Len(t) : t[k] = b[k + 1]
    OBVIOUS
  <1>4. c \in Seq(Anything) /\ Len(c) = Len(a) + 1 /\ c[Len(a) + 1] = h
    BY <1>1
  <1>5. \A k \in 1..Len(a) : c[k] = a[k]
    BY <1>1
  <1>6. h = s[Len(a) + 1] /\ Len(a) + 1 \in 1..Len(s)
    BY <1>1 DEF Parted
  <1>7. \A k \in 1..Len(c) : c[k] = s[k]
    BY <1>4, <1>5, <1>6 DEF Parted
  <1>8. ASSUME NEW k \in 1..Len(t)
        PROVE  t[k] = s[Len(c) + k]
    <2>1. k + 1 \in 1..Len(b) /\ Len(a) + (k + 1) = Len(c) + k
      BY <1>2, <1>4
    <2> QED
      BY <1>3, <2>1 DEF Parted
  <1>9. Len(c) + Len(t) = Len(s)
    BY <1>2, <1>4 DEF Parted
  <1>10. Parted(s, c, t)
    BY <1>7, <1>8, <1>9, Zenon DEF Parted
  <1> QED
    BY <1>1, <1>4, <1>10, Zenon

LEMMA OwnFacts ==
    ASSUME Inputs
    PROVE  /\ Own \in Seq(Anything)
           /\ sender = "debuggee" => Len(Own) >= 1 /\ Own[1] = Connect
           /\ sender # "debuggee" => Own = user
           /\ \A k \in 1..Len(Own) :
                 Own[k] = Connect \/ \E n \in 1..Len(user) : Own[k] = user[n]
  <1>1. CASE sender = "debuggee"
    <2>1. <<Connect>> \in Seq(Anything)
      BY DEF Anything, Arguments
    <2>2. Own = <<Connect>> \o user
      BY <1>1 DEF Own
    <2>3. \A k \in 1..Len(Own) : k = 1 \/ k - 1 \in 1..Len(user)
      BY <2>1, <2>2 DEF Inputs
    <2>4. \A k \in 1..Len(Own) :
            Own[k] = Connect \/ (k - 1 \in 1..Len(user) /\ Own[k] = user[k - 1])
      BY <2>1, <2>2, <2>3 DEF Inputs
    <2> QED
      BY <1>1, <2>1, <2>2, <2>4 DEF Inputs
  <1>2. CASE sender # "debuggee"
    BY <1>2 DEF Own, Inputs
  <1> QED
    BY <1>1, <1>2

LEMMA KeptOfDriver ==
    ASSUME Inputs, sender # "hook"
    PROVE  LET m == Len(Own) IN
           /\ Kept \in Seq(Anything) /\ m \in Nat /\ Len(Kept) = m + 4
           /\ \A k \in 1..m : Kept[k] = Own[k]
           /\ Kept[m + 1] = CwdSwitch /\ Kept[m + 2] = OwnCwd
           /\ Kept[m + 3] = NameSwitch /\ Kept[m + 4] = OwnName
  <1>1. Own \in Seq(Anything)
    BY OwnFacts
  <1>0. Switches \in Seq(Anything)
    BY DEF Switches, Anything, Arguments, Prefixed
  <1>2. /\ Len(Switches) = 4
        /\ Switches[1] = CwdSwitch /\ Switches[2] = OwnCwd
        /\ Switches[3] = NameSwitch /\ Switches[4] = OwnName
    BY DEF Switches, Anything, Arguments, Prefixed
  <1>3. Kept = Own \o Switches
    BY DEF Kept
  <1>4. Kept \in Seq(Anything) /\ Len(Kept) = Len(Own) + Len(Switches)
    BY <1>1, <1>0, <1>3
  <1>5. \A k \in 1..Len(Own) : Kept[k] = Own[k]
    BY <1>1, <1>0, <1>3
  <1>6. \A k \in 1..Len(Switches) : Kept[Len(Own) + k] = Switches[k]
    BY <1>1, <1>0, <1>3, ConcatFacts
  <1>7. Len(Own) \in Nat
    BY <1>1
  <1> QED
    BY <1>2, <1>4, <1>5, <1>6, <1>7

LEMMA KeptOfHook ==
    ASSUME Inputs, sender = "hook"
    PROVE  /\ Kept \in Seq(Anything) /\ Len(Kept) = Len(user) + 1
           /\ Kept[1] = "program"
           /\ \A k \in 1..Len(user) : Kept[k + 1] = user[k]
  <1>1. <<"program">> \in Seq(Anything)
    BY DEF Anything
  <1>2. Kept = <<"program">> \o user
    BY DEF Kept
  <1> QED
    BY <1>1, <1>2 DEF Inputs

LEMMA LogType ==
    /\ LogArgs \subseteq Seq(Anything)
    /\ \A log \in LogArgs : log # <<>> => log[1] = LogSwitch
  BY DEF LogArgs, Anything, Arguments, Prefixed

\* What the scripts stop at or take out is none of what they pass on.
LEMMA KeptIsPlain ==
    ASSUME Inputs, Undisturbed, platform = "posix",
           NEW k \in 1..Len(Kept)
    PROVE  /\ Kept[k] # Empty
           /\ sender # "hook" => Kept[k] # LogSwitch
  <1> USE DEF Inputs, Undisturbed, Holds
  <1>1. CASE sender = "hook"
    <2>1. k = 1 \/ k - 1 \in 1..Len(user)
      BY <1>1, KeptOfHook
    <2>2. k # 1 => Kept[k] = user[k - 1]
      BY <1>1, <2>1, KeptOfHook
    <2> QED
      BY <1>1, <2>1, <2>2, KeptOfHook DEF Empty
  <1>2. CASE sender # "hook"
    <2>1. /\ k \in 1..Len(Own)
          \/ k \in {Len(Own) + 1, Len(Own) + 2, Len(Own) + 3, Len(Own) + 4}
      BY <1>2, KeptOfDriver
    <2>2. CASE k \in 1..Len(Own)
      BY <1>2, <2>2, KeptOfDriver, OwnFacts DEF Connect, Empty, LogSwitch
    <2>3. CASE k \notin 1..Len(Own)
      BY <1>2, <2>1, <2>3, KeptOfDriver
      DEF CwdSwitch, NameSwitch, OwnCwd, OwnName, Empty, LogSwitch
    <2> QED
      BY <2>2, <2>3
  <1> QED
    BY <1>1, <1>2

LEMMA KeptType == Inputs => Kept \in Seq(Anything)
  BY KeptOfHook, KeptOfDriver

LEMMA FullFacts ==
    ASSUME Inputs, NEW log \in LogArgs, NEW f, f = Kept \o log
    PROVE  /\ f \in Seq(Anything) /\ Len(Kept) \in Nat
           /\ Len(f) = Len(Kept) + Len(log)
           /\ \A k \in 1..Len(Kept) : f[k] = Kept[k]
           /\ log = <<>> => Len(log) = 0 /\ f = Kept
           /\ log # <<>> => /\ Len(log) = 2
                            /\ f[Len(Kept) + 1] = LogSwitch
                            /\ f[Len(Kept) + 2] = "log"
  <1>1. Kept \in Seq(Anything) /\ log \in Seq(Anything)
    BY KeptType, LogType
  <1>2. f \in Seq(Anything) /\ Len(f) = Len(Kept) + Len(log)
    BY <1>1
  <1>3. \A k \in 1..Len(Kept) : f[k] = Kept[k]
    BY <1>1
  <1>4. \A k \in 1..Len(log) : f[Len(Kept) + k] = log[k]
    BY <1>1, ConcatFacts
  <1>5. log # <<>> => Len(log) = 2 /\ log[1] = LogSwitch /\ log[2] = "log"
    BY DEF LogArgs
  <1>6. log = <<>> => Len(log) = 0 /\ f = Kept
    BY <1>1
  <1>7. Len(Kept) \in Nat
    BY <1>1
  <1> QED
    BY <1>2, <1>3, <1>4, <1>5, <1>6, <1>7

\* When the sender is through, it has passed on everything.
LEMMA PassedAll ==
    ASSUME Inputs, Undisturbed, Passing, Done
    PROVE  Whole
  <1>0. /\ args \in Seq(Anything) /\ todo \in Seq(Anything)
        /\ platform \in {"posix", "win32"}
    BY DEF Passing, Inputs
  <1>1. CASE platform = "posix" /\ todo = <<>> /\ args = Kept
    <2>1. <<>> \in LogArgs /\ Kept \o <<>> = Kept
      BY KeptType DEF LogArgs
    <2> QED
      BY <1>1, <2>1 DEF Whole
  <1>2. ASSUME NEW log \in LogArgs, sender = "hook" => log = <<>>,
               Parted(Kept \o log, args, todo),
               IF platform = "posix" THEN Len(args) <= Len(Kept)
                                     ELSE args = <<>> \/ todo = <<>>
        PROVE  Whole
    <2> DEFINE full == Kept \o log
    <2>1. /\ full \in Seq(Anything) /\ Len(Kept) \in Nat
          /\ Len(full) = Len(Kept) + Len(log)
          /\ \A k \in 1..Len(Kept) : full[k] = Kept[k]
          /\ log = <<>> => Len(log) = 0
          /\ log # <<>> => Len(log) = 2 /\ full[Len(Kept) + 1] = LogSwitch
      BY FullFacts
    <2> HIDE DEF full
    <2>2. Parted(full, args, todo)
      BY <1>2 DEF full
    <2>3. todo = <<>>
      <3>1. CASE platform = "win32"
        BY <3>1 DEF Done
      <3>2. CASE platform = "posix" /\ todo # <<>>
        <4>0. Head(todo) = todo[1] /\ Len(todo) >= 1
          BY <1>0, <3>2
        <4>1. Head(todo) = full[Len(args) + 1] /\ Len(args) + 1 \in 1..Len(full)
          BY <1>0, <2>1, <2>2, <4>0 DEF Parted
        <4>2. Head(todo) = Empty
          BY <3>2 DEF Done, Pending
        <4>3. Len(args) <= Len(Kept) /\ Len(args) \in Nat
          BY <1>0, <1>2, <3>2
        <4>4. CASE Len(args) < Len(Kept)
          <5>1. Len(args) + 1 \in 1..Len(Kept)
            BY <2>1, <4>3, <4>4
          <5> QED
            BY <2>1, <3>2, <4>1, <4>2, <5>1, KeptIsPlain
        <4>5. CASE Len(args) = Len(Kept)
          <5>1. log # <<>>
            BY <2>1, <4>1, <4>5
          <5> QED
            BY <2>1, <4>1, <4>2, <4>5, <5>1 DEF Empty, LogSwitch
        <4> QED
          BY <2>1, <4>3, <4>4, <4>5
      <3> QED
        BY <1>0, <3>1, <3>2
    <2>4. Len(args) = Len(full) /\ \A k \in 1..Len(args) : args[k] = full[k]
      BY <1>0, <2>1, <2>2, <2>3 DEF Parted
    <2>5. args = full
      BY <1>0, <2>1, <2>4
    <2>6. platform = "posix" => log = <<>>
      BY <1>2, <2>1, <2>4
    <2> QED
      BY <1>2, <2>5, <2>6 DEF Whole, full
  <1> QED
    BY <1>1, <1>2 DEF Passing

-----------------------------------------------------------------------------
\* An element on its way is one of those to be passed on, or the switch for
\* the log file after all of them.
LEMMA NextOne ==
    ASSUME Inputs, Undisturbed, Passing, platform = "posix", Pending
    PROVE  \E log \in LogArgs :
              /\ sender = "hook" => log = <<>>
              /\ Parted(Kept \o log, args, todo)
              /\ \/ Len(args) < Len(Kept) /\ (sender # "hook" =>
                                                Head(todo) # LogSwitch)
                 \/ args = Kept /\ log # <<>> /\ Head(todo) = LogSwitch
  <1>0. args \in Seq(Anything) /\ todo \in Seq(Anything) /\ todo # <<>>
    BY DEF Passing, Pending
  <1>1. PICK log \in LogArgs : /\ sender = "hook" => log = <<>>
                               /\ Parted(Kept \o log, args, todo)
                               /\ Len(args) <= Len(Kept)
    BY <1>0 DEF Passing
  <1> DEFINE full == Kept \o log
  <1>2. /\ full \in Seq(Anything) /\ Len(Kept) \in Nat
        /\ Len(full) = Len(Kept) + Len(log)
        /\ \A k \in 1..Len(Kept) : full[k] = Kept[k]
        /\ log = <<>> => Len(log) = 0
        /\ log # <<>> => Len(log) = 2 /\ full[Len(Kept) + 1] = LogSwitch
    BY FullFacts
  <1>3. Parted(full, args, todo)
    BY <1>1
  <1> HIDE DEF full
  <1>4. Head(todo) = todo[1] /\ Len(todo) >= 1
    BY <1>0
  <1>5. Head(todo) = full[Len(args) + 1] /\ Len(args) + 1 \in 1..Len(full)
    BY <1>0, <1>2, <1>3, <1>4 DEF Parted
  <1>6. CASE Len(args) < Len(Kept)
    <2>1. Len(args) + 1 \in 1..Len(Kept)
      BY <1>0, <1>2, <1>6
    <2>2. sender # "hook" => Head(todo) # LogSwitch
      BY <1>2, <1>5, <2>1, KeptIsPlain
    <2> QED
      BY <1>1, <1>6, <2>2
  <1>7. CASE Len(args) = Len(Kept)
    <2>1. log # <<>>
      BY <1>2, <1>5, <1>7
    <2>2. Head(todo) = LogSwitch
      BY <1>2, <1>5, <1>7, <2>1
    <2>3. \A k \in 1..Len(args) : args[k] = Kept[k]
      BY <1>2, <1>3, <1>7 DEF Parted
    <2>4. args = Kept
      BY <1>0, <1>7, <2>3, KeptType
    <2> QED
      BY <1>1, <2>1, <2>2, <2>4
  <1> QED
    BY <1>0, <1>1, <1>2, <1>6, <1>7

LEMMA Unchanged ==
    ASSUME UNCHANGED inputs
    PROVE  /\ Inputs' <=> Inputs
           /\ Undisturbed' <=> Undisturbed
           /\ Kept' = Kept /\ Own' = Own
  BY DEF inputs, Inputs, Undisturbed, Holds, Kept, Own

\* The step of a script that appends the next element to those passed on.
LEMMA AppendKeepsPassing ==
    ASSUME Inputs, Undisturbed, Passing, platform = "posix", Pending,
           sender = "hook" \/ Head(todo) # LogSwitch,
           todo' = Tail(todo), args' = Append(args, Head(todo)),
           UNCHANGED inputs
    PROVE  Passing'
  <1>0. args \in Seq(Anything) /\ todo \in Seq(Anything) /\ todo # <<>>
    BY DEF Passing, Pending
  <1>1. PICK log \in LogArgs : /\ sender = "hook" => log = <<>>
                               /\ Parted(Kept \o log, args, todo)
                               /\ Len(args) < Len(Kept)
    BY NextOne
  <1> DEFINE full == Kept \o log
  <1>2. full \in Seq(Anything) /\ Len(Kept) \in Nat
    BY FullFacts
  <1>3. Parted(full, args, todo)
    BY <1>1
  <1> HIDE DEF full
  <1>4. /\ args' \in Seq(Anything) /\ todo' \in Seq(Anything)
        /\ Len(args') = Len(args) + 1
        /\ Parted(full, args', todo')
    <2>1. args' = Append(args, Head(todo)) /\ todo' = Tail(todo)
      OBVIOUS
    <2> QED
      BY <1>0, <1>2, <1>3, <2>1, PassOne
  <1>5. Len(args') <= Len(Kept)
    BY <1>0, <1>1, <1>2, <1>4
  <1>6. Kept' = Kept /\ sender' = sender /\ platform' = platform
    BY Unchanged DEF inputs
  <1> QED
    BY <1>1, <1>4, <1>5, <1>6 DEF Passing, full

LEMMA DriverArgKeepsPassing ==
    ASSUME Inputs, Undisturbed, Passing, DriverArg
    PROVE  Passing'
  <1>0. /\ platform = "posix" /\ sender # "hook" /\ Pending
        /\ UNCHANGED inputs
    BY DEF DriverArg
  <1>1. CASE Head(todo) # LogSwitch
    <2>1. todo' = Tail(todo) /\ args' = Append(args, Head(todo))
      BY <1>1 DEF DriverArg
    <2> QED
      BY <1>0, <1>1, <2>1, AppendKeepsPassing
  <1>2. CASE Head(todo) = LogSwitch
    <2>1. PICK log \in LogArgs : /\ Parted(Kept \o log, args, todo)
                                 /\ args = Kept /\ log # <<>>
      BY <1>0, <1>2, NextOne
    <2> DEFINE full == Kept \o log
    <2>2. Len(full) = Len(Kept) + 2 /\ Len(Kept) \in Nat
      BY <2>1, FullFacts
    <2> HIDE DEF full
    <2>3. todo \in Seq(Anything)
      BY DEF Passing
    <2>4. Len(todo) = 2
      <3>1. args = Kept /\ Len(args) + Len(todo) = Len(full)
        BY <2>1, Zenon DEF Parted, full
      <3>2. Len(todo) \in Nat
        BY <2>3
      <3> QED
        BY <2>2, <3>1, <3>2
    <2>5. Tail(todo) \in Seq(Anything) /\ Len(Tail(todo)) = 1
      BY <2>3, <2>4
    <2>6. Tail(Tail(todo)) = <<>>
      <3> DEFINE t == Tail(todo)
      <3>1. t \in Seq(Anything) /\ Len(t) = 1
        BY <2>5
      <3> HIDE DEF t
      <3>2. Tail(t) \in Seq(Anything) /\ Len(Tail(t)) = 0
        BY <3>1
      <3>3. Tail(t) = <<>>
        BY <3>2, EmptySeq, Zenon
      <3> QED
        BY <3>3 DEF t
    <2>7. todo' = <<>> /\ args' = args
      BY <1>2, <2>6 DEF DriverArg
    <2>8. Kept' = Kept /\ platform' = platform
      BY <1>0, Unchanged DEF inputs
    <2> QED
      BY <1>0, <2>1, <2>7, <2>8, KeptType DEF Passing
  <1> QED
    BY <1>1, <1>2

LEMMA HookArgKeepsPassing ==
    ASSUME Inputs, Undisturbed, Passing, HookArg
    PROVE  Passing'
  BY AppendKeepsPassing DEF HookArg

LEMMA WinArgsKeepPassing ==
    ASSUME Inputs, Undisturbed, Passing, WinArgs
    PROVE  Passing'
  <1>0. /\ platform = "win32" /\ UNCHANGED inputs
        /\ todo # <<>> /\ todo' = <<>> /\ args' = todo
    BY DEF WinArgs
  <1>1. todo \in Seq(Anything)
    BY DEF Passing
  <1>2. PICK log \in LogArgs : /\ sender = "hook" => log = <<>>
                               /\ Parted(Kept \o log, args, todo)
                               /\ args = <<>>
    BY <1>0 DEF Passing
  <1>3. Parted(Kept \o log, todo, <<>>)
    BY <1>1, <1>2 DEF Parted
  <1>4. Kept' = Kept /\ sender' = sender /\ platform' = platform
    BY <1>0, Unchanged DEF inputs
  <1> QED
    BY <1>0, <1>1, <1>2, <1>3, <1>4 DEF Passing

-----------------------------------------------------------------------------
\* Which list has been passed on, element by element.
LEMMA WholeFacts ==
    ASSUME Inputs, Whole, sender # "hook"
    PROVE  LET m == Len(Own) IN
           /\ args \in Seq(Anything) /\ m \in Nat
           /\ \/ Len(args) = m + 4
              \/ Len(args) = m + 6 /\ args[m + 5] = LogSwitch
                                   /\ args[m + 6] = "log"
                                   /\ platform # "posix"
           /\ \A k \in 1..m : args[k] = Own[k]
           /\ args[m + 1] = CwdSwitch /\ args[m + 2] = OwnCwd
           /\ args[m + 3] = NameSwitch /\ args[m + 4] = OwnName
  <1>1. PICK log \in LogArgs : /\ platform = "posix" => log = <<>>
                               /\ args = Kept \o log
    BY DEF Whole
  <1>2. /\ args \in Seq(Anything) /\ Len(Kept) \in Nat
        /\ Len(args) = Len(Kept) + Len(log)
        /\ \A k \in 1..Len(Kept) : args[k] = Kept[k]
        /\ log = <<>> => Len(log) = 0
        /\ log # <<>> => /\ Len(log) = 2
                         /\ args[Len(Kept) + 1] = LogSwitch
                         /\ args[Len(Kept) + 2] = "log"
    BY <1>1, FullFacts
  <1>3. platform = "posix" => log = <<>>
    BY <1>1
  <1> DEFINE m == Len(Own)
  <1>4. /\ m \in Nat /\ Len(Kept) = m + 4
        /\ \A k \in 1..m : Kept[k] = Own[k]
        /\ Kept[m + 1] = CwdSwitch /\ Kept[m + 2] = OwnCwd
        /\ Kept[m + 3] = NameSwitch /\ Kept[m + 4] = OwnName
    BY KeptOfDriver
  <1> HIDE DEF m
  <1>5. \A k \in 1..m : args[k] = Own[k]
    BY <1>2, <1>4
  <1>6. /\ args[m + 1] = CwdSwitch /\ args[m + 2] = OwnCwd
        /\ args[m + 3] = NameSwitch /\ args[m + 4] = OwnName
    <2>1. {m + 1, m + 2, m + 3, m + 4} \subseteq 1..Len(Kept)
      BY <1>4
    <2> QED
      BY <1>2, <1>4, <2>1
  <1>7. \/ Len(args) = m + 4
        \/ Len(args) = m + 6 /\ args[m + 5] = LogSwitch
                             /\ args[m + 6] = "log"
                             /\ platform # "posix"
    <2>1. m + 4 + 1 = m + 5 /\ m + 4 + 2 = m + 6 /\ m + 4 + 0 = m + 4
      BY <1>4
    <2> QED
      BY <1>2, <1>3, <1>4, <2>1
  <1> QED
    BY <1>2, <1>4, <1>5, <1>6, <1>7 DEF m

\* Only a debuggee, or a launcher whose program has the argument --connect,
\* makes the driver send a request.
LEMMA WhoConnects ==
    ASSUME Inputs, Whole, sender # "hook"
    PROVE  /\ sender = "debuggee" => Holds(args, Connect) /\ Len(Own) >= 1
           /\ sender = "launcher" /\ Holds(args, Connect) =>
                 Holds(user, Connect) /\ Len(Own) >= 1
  <1> DEFINE m == Len(Own)
  <1>1. CASE sender = "debuggee"
    <2>1. 1 \in 1..m /\ args[1] = Connect /\ 1 \in 1..Len(args)
      BY <1>1, WholeFacts, OwnFacts
    <2> QED
      BY <1>1, <2>1 DEF Holds
  <1>2. CASE sender = "launcher" /\ Holds(args, Connect)
    <2>1. PICK k \in 1..Len(args) : args[k] = Connect
      BY <1>2 DEF Holds
    <2>0. \/ k \in 1..m
          \/ k \in {m + 1, m + 2, m + 3, m + 4}
          \/ k \in {m + 5, m + 6} /\ Len(args) = m + 6
      BY WholeFacts
    <2>a. /\ args[m + 1] = CwdSwitch /\ args[m + 2] = OwnCwd
          /\ args[m + 3] = NameSwitch /\ args[m + 4] = OwnName
          /\ Len(args) = m + 6 => args[m + 5] = LogSwitch /\ args[m + 6] = "log"
      BY WholeFacts
    <2>2. k \in 1..m
      BY <2>0, <2>1, <2>a
      DEF Connect, LogSwitch, CwdSwitch, NameSwitch, OwnCwd, OwnName
    <2>3. user[k] = Connect /\ k \in 1..Len(user) /\ m >= 1
      BY <1>2, <2>1, <2>2, WholeFacts, OwnFacts
    <2> QED
      BY <1>2, <2>3 DEF Holds
  <1> QED
    BY <1>1, <1>2 DEF Inputs

LEMMA RunInterpreterKeepsArgs ==
    ASSUME Inputs, Undisturbed, Passing, RunInterpreter
    PROVE  LauncherGetsArgs'
  <1>1. Whole /\ sender # "hook" /\ ~Holds(args, Connect)
    BY PassedAll DEF RunInterpreter, SendsRequest
  <1>2. sender = "launcher" /\ Own = user
    BY <1>1, WhoConnects, OwnFacts DEF Inputs
  <1> DEFINE given == user \o Switches
  <1>3. given = Kept
    BY <1>1, <1>2 DEF Kept
  <1>4. /\ Len(given) \in Nat /\ Len(args) \in Nat
        /\ Len(given) <= Len(args)
        /\ platform = "posix" => Len(args) = Len(given)
        /\ \A k \in 1..Len(given) : args[k] = given[k]
    <2>1. PICK log \in LogArgs : /\ platform = "posix" => log = <<>>
                                 /\ args = Kept \o log
      BY <1>1 DEF Whole
    <2>2. /\ Len(args) = Len(Kept) + Len(log) /\ Len(Kept) \in Nat
          /\ \A k \in 1..Len(Kept) : args[k] = Kept[k]
          /\ log = <<>> => Len(log) = 0
          /\ log # <<>> => Len(log) = 2
      BY <2>1, FullFacts
    <2>3. platform = "posix" => log = <<>>
      BY <2>1
    <2> HIDE DEF given
    <2> QED
      BY <1>3, <2>2, <2>3
  <1>5. /\ args' = [k \in 1..Len(args) |-> Cut(args[k])]
        /\ UNCHANGED <<user, platform>>
    BY DEF RunInterpreter, inputs
  <1>6. Len(args') = Len(args)
    BY <1>4, <1>5
  <1> HIDE DEF given
  <1>7. ASSUME NEW k \in 1..Len(given)
        PROVE  args'[k] = given[k] <=>
                  platform = "win32" \/ given[k] \notin Spaced \cup {Semicolon}
    <2>1. k \in 1..Len(args)
      BY <1>4
    <2>2. args'[k] = Cut(given[k])
      BY <1>4, <1>5, <2>1
    <2>3. platform = "win32" \/ platform = "posix"
      BY DEF Inputs
    <2>4. CASE platform = "win32" \/ given[k] \notin Spaced \cup {Semicolon}
      BY <2>2, <2>4 DEF Cut
    <2>5. CASE platform = "posix" /\ given[k] \in Spaced
      BY <2>2, <2>5 DEF Cut, Spaced, OwnName, TwoWords
    <2>6. CASE platform = "posix" /\ given[k] = Semicolon
      BY <2>2, <2>6 DEF Cut, Spaced, OwnName, TwoWords, Semicolon
    <2> QED
      BY <2>3, <2>4, <2>5, <2>6
  <1>8. given' = given
    BY <1>5 DEF given
  <1> QED
    BY <1>4, <1>5, <1>6, <1>7, <1>8 DEF LauncherGetsArgs, given

LEMMA SetProgramStartsLoop ==
    ASSUME Inputs, Undisturbed, Passing, SetProgram
    PROVE  /\ IF sender = "hook" THEN args' = user ELSE Whole' /\ Looping'
           /\ sender = "launcher" => Holds(user, Connect)
  <1>0. UNCHANGED inputs /\ Whole
    BY PassedAll DEF SetProgram
  <1>1. CASE sender = "hook"
    <2>1. args = Kept
      <3>1. Kept \o <<>> = Kept
        BY KeptType
      <3> QED
        BY <1>0, <1>1, <3>1 DEF Whole
    <2>2. args' = Tail(Kept)
      BY <1>1, <2>1 DEF SetProgram
    <2>3. Kept # <<>> /\ Len(user) \in Nat
      BY <1>1, KeptOfHook DEF Inputs
    <2>4. Tail(Kept) \in Seq(Anything) /\ Len(Tail(Kept)) = Len(user)
      BY <1>1, <2>3, KeptOfHook
    <2>5. \A k \in 1..Len(user) : Tail(Kept)[k] = user[k]
      <3>1. \A k \in 1..Len(Tail(Kept)) : Tail(Kept)[k] = Kept[k + 1]
        BY <1>1, <2>3, KeptOfHook
      <3> QED
        BY <1>1, <2>4, <3>1, KeptOfHook
    <2>6. Tail(Kept) = user
      BY <2>4, <2>5 DEF Inputs
    <2> QED
      BY <1>1, <2>2, <2>6
  <1>2. CASE sender # "hook"
    <2>1. Holds(args, Connect) /\ args' = args /\ at' = 2
      BY <1>2 DEF SetProgram, SendsRequest
    <2>2. Kept' = Kept /\ Own' = Own
      BY <1>0, Unchanged
    <2>3. Whole'
      BY <1>0, <2>1, <2>2 DEF Whole, inputs
    <2>4. Len(Own) >= 1 /\ Len(Own) \in Nat
      BY <1>0, <1>2, <2>1, WhoConnects, WholeFacts DEF Inputs
    <2>5. Looping'
      BY <2>1, <2>2, <2>4 DEF Looping
    <2> QED
      BY <1>0, <1>2, <2>1, <2>3, <2>5, WhoConnects
  <1> QED
    BY <1>1, <1>2

-----------------------------------------------------------------------------
\* One turn of the loop, for any list that ends as a driver's does.
LEMMA DecodeKeepsLoop ==
    ASSUME Inputs, Whole, Looping, sender # "hook", DecodeArg
    PROVE  Whole' /\ Looping'
  <1> DEFINE m == Len(Own)
  <1>0. UNCHANGED inputs /\ args' = args /\ Own' = Own /\ Kept' = Kept
    BY Unchanged DEF DecodeArg
  <1>1. Whole'
    BY <1>0 DEF Whole, inputs
  <1>2. /\ m \in Nat
        /\ Len(args) = m + 4 \/ Len(args) = m + 6
        /\ Arg(m + 1) = CwdSwitch /\ Arg(m + 2) = OwnCwd
        /\ Arg(m + 3) = NameSwitch /\ Arg(m + 4) = OwnName
        /\ \A k \in 1..m : Arg(k) = Own[k]
        /\ \A k \in 1..Len(args) : Arg(k) = args[k]
    <2>1. \A k \in 1..Len(args) : Arg(k) = args[k]
      BY DEF Arg
    <2>2. /\ m \in Nat
          /\ Len(args) = m + 4 \/ Len(args) = m + 6
          /\ args[m + 1] = CwdSwitch /\ args[m + 2] = OwnCwd
          /\ args[m + 3] = NameSwitch /\ args[m + 4] = OwnName
          /\ \A k \in 1..m : args[k] = Own[k]
      BY WholeFacts
    <2>3. {m + 1, m + 2, m + 3, m + 4} \subseteq 1..Len(args)
      BY <2>2
    <2>4. 1..m \subseteq 1..Len(args)
      BY <2>2
    <2> QED
      BY <2>1, <2>2, <2>3, <2>4
  <1>3. ASSUME NEW k \in Nat, k >= m + 5
        PROVE  Arg(k) \notin {NameSwitch, CwdSwitch}
    <2>1. CASE k \in 1..Len(args)
      <3>1. /\ Len(args) = m + 6 /\ args[m + 5] = LogSwitch
            /\ args[m + 6] = "log"
        BY <1>2, <1>3, <2>1, WholeFacts
      <3>2. k = m + 5 \/ k = m + 6
        BY <1>2, <1>3, <2>1, <3>1
      <3>3. Arg(k) = LogSwitch \/ Arg(k) = "log"
        BY <1>2, <2>1, <3>1, <3>2
      <3> QED
        BY <3>3 DEF LogSwitch, NameSwitch, CwdSwitch
    <2>2. CASE k \notin 1..Len(args)
      BY <2>2 DEF Arg, Empty, NameSwitch, CwdSwitch
    <2> QED
      BY <2>1, <2>2
  <1>4. /\ NameSwitch # CwdSwitch
        /\ OwnCwd \notin {NameSwitch, CwdSwitch}
        /\ OwnName \notin {NameSwitch, CwdSwitch}
    BY DEF NameSwitch, CwdSwitch, OwnCwd, OwnName
  <1>5. /\ m >= 1 /\ at \in Nat /\ at >= 2
        /\ at <= m + 3 \/ at >= m + 5
        /\ at = m + 2 => Own[m] = CwdSwitch
        /\ at >= m + 3 => cwd = OwnCwd \/ Own[m] = CwdSwitch
        /\ at >= m + 5 => name = OwnName
    BY DEF Looping
  <1>6. PICK i \in Nat, j \in Nat :
            /\ i \in {at, at + 1} /\ j \in {i, i + 1}
            /\ i = at + 1 <=> Arg(at) = NameSwitch
            /\ j = i + 1 <=> Arg(i) = CwdSwitch
            /\ name' = IF i > at THEN Arg(i) ELSE name
            /\ cwd' = IF j > i THEN Arg(j) ELSE cwd
            /\ at' = j + 1
    <2> DEFINE i == IF args[at] = NameSwitch THEN at + 1 ELSE at
               j == IF Arg(i) = CwdSwitch THEN i + 1 ELSE i
    <2>1. /\ name' = IF i > at THEN Arg(i) ELSE name
          /\ cwd' = IF j > i THEN Arg(j) ELSE cwd
          /\ at' = j + 1 /\ at <= Len(args)
      BY DEF DecodeArg
    <2>2. Arg(at) = args[at]
      BY <1>2, <1>5, <2>1
    <2> QED
      BY <1>5, <2>1, <2>2
  <1> HIDE DEF m
  <1> DEFINE Goal == /\ at' >= 2
                     /\ at' <= m + 3 \/ at' >= m + 5
                     /\ at' = m + 2 => Own[m] = CwdSwitch
                     /\ at' >= m + 3 => cwd' = OwnCwd \/ Own[m] = CwdSwitch
                     /\ at' >= m + 5 => name' = OwnName
  <1> SUFFICES Goal
    <2>1. at' \in Nat
      BY <1>6
    <2> QED
      BY <1>0, <1>1, <1>5, <2>1 DEF Looping, m
  <1>7. CASE at <= m
    <2>1. CASE i = m + 1 /\ at = m
      <3>1. j = m + 2 /\ cwd' = OwnCwd /\ at' = m + 3
        BY <1>2, <1>6, <2>1
      <3> QED
        BY <1>2, <3>1
    <2>2. CASE i = m
      <3>1. CASE Own[m] = CwdSwitch
        BY <1>2, <1>5, <1>6, <2>2, <3>1
      <3>2. CASE Own[m] # CwdSwitch
        <4>1. j = m /\ at' = m + 1
          BY <1>2, <1>5, <1>6, <2>2, <3>2
        <4> QED
          BY <1>2, <1>5, <4>1
      <3> QED
        BY <3>1, <3>2
    <2>3. CASE i < m
      BY <1>2, <1>5, <1>6, <2>3
    <2> QED
      BY <1>2, <1>5, <1>6, <1>7, <2>1, <2>2, <2>3
  <1>8. CASE at = m + 1
    <2>1. i = m + 1
      BY <1>2, <1>4, <1>6, <1>8
    <2>2. j = m + 2 /\ cwd' = OwnCwd /\ at' = m + 3
      BY <1>2, <1>6, <2>1
    <2> QED
      BY <1>2, <2>2
  <1>9. CASE at = m + 2
    <2>1. i = m + 2
      BY <1>2, <1>4, <1>6, <1>9
    <2>2. j = m + 2 /\ at' = m + 3 /\ Own[m] = CwdSwitch
      BY <1>2, <1>4, <1>5, <1>6, <1>9, <2>1
    <2> QED
      BY <1>2, <2>2
  <1>10. CASE at = m + 3
    <2>1. i = m + 4 /\ name' = OwnName
      BY <1>2, <1>6, <1>10
    <2>2. j = m + 4 /\ at' = m + 5 /\ cwd' = cwd
      BY <1>2, <1>4, <1>6, <2>1
    <2> QED
      BY <1>2, <1>5, <1>10, <2>1, <2>2
  <1>11. CASE at >= m + 5
    <2>1. i = at /\ name' = name
      BY <1>2, <1>3, <1>5, <1>6, <1>11
    <2>2. j = at /\ cwd' = cwd /\ at' = at + 1
      BY <1>2, <1>3, <1>5, <1>6, <1>11, <2>1
    <2> QED
      BY <1>2, <1>5, <1>11, <2>1, <2>2
  <1> QED
    BY <1>2, <1>5, <1>7, <1>8, <1>9, <1>10, <1>11

LEMMA SubSeqFacts ==
    ASSUME NEW p \in Nat, p <= Len(args), args \in Seq(Anything)
    PROVE  LET s == SubSeq(args, 1, p) IN
           /\ s \in Seq(Anything) /\ Len(s) = p
           /\ \A k \in 1..p : s[k] = args[k]
           /\ LastIsSwitch(s) <=> p > 1 /\ args[p - 1] \in Prefixed
  <1> DEFINE s == SubSeq(args, 1, p)
  <1>1. s \in Seq(Anything) /\ Len(s) = p
    OBVIOUS
  <1>2. \A k \in 1..p : s[k] = args[k]
    OBVIOUS
  <1> HIDE DEF s
  <1>3. LastIsSwitch(s) <=> p > 1 /\ args[p - 1] \in Prefixed
    BY <1>1, <1>2 DEF LastIsSwitch
  <1> QED
    BY <1>1, <1>2, <1>3 DEF s

\* The switches go, two elements at a time, and the program's own arguments
\* stay unless their last but one is a switch.
LEMMA StripRestores ==
    ASSUME Inputs, StripSwitches,
           IF sender = "hook" THEN args = user ELSE Whole /\ Looping,
           sender = "launcher" => Holds(user, Connect)
    PROVE  ArgsRestored'
  <1> DEFINE m == Len(Own)
             rest(k) == SubSeq(args, 1, Len(args) - 2 * k)
  <1>0. UNCHANGED <<inputs, user, sender, platform, name, cwd>> /\ Own' = Own
    BY Unchanged DEF StripSwitches, inputs
  <1>1. args \in Seq(Anything) /\ Len(args) \in Nat
    BY WholeFacts DEF Inputs
  <1>2. PICK n \in 0..Len(args) :
            /\ 2 * n <= Len(args)
            /\ \A k \in 0..n - 1 : LastIsSwitch(rest(k))
            /\ ~LastIsSwitch(rest(n))
            /\ args' = rest(n)
    BY DEF StripSwitches
  <1> HIDE DEF rest
  <1>3. ASSUME NEW k \in Nat, 2 * k <= Len(args)
        PROVE  /\ rest(k) \in Seq(Anything)
               /\ Len(rest(k)) = Len(args) - 2 * k
               /\ \A e \in 1..Len(args) - 2 * k : rest(k)[e] = args[e]
               /\ LastIsSwitch(rest(k)) <=>
                     /\ Len(args) - 2 * k > 1
                     /\ args[Len(args) - 2 * k - 1] \in Prefixed
    <2>1. Len(args) - 2 * k \in Nat /\ Len(args) - 2 * k <= Len(args)
      BY <1>1, <1>3
    <2> QED
      BY <1>1, <2>1, SubSeqFacts DEF rest
  <1>4. CASE sender = "hook"
    <2>1. rest(0) = args
      <3>1. Len(args) - 2 * 0 = Len(args) /\ 2 * 0 <= Len(args)
        BY <1>1
      <3> QED
        <4>1. rest(0) \in Seq(Anything) /\ Len(rest(0)) = Len(args)
          BY <1>3, <3>1
        <4>2. \A e \in 1..Len(args) : rest(0)[e] = args[e]
          BY <1>3, <3>1
        <4> QED
          BY <1>1, <4>1, <4>2
    <2>2. Own = args
      BY <1>4 DEF Own
    <2>3. args' = Own \/ LastIsSwitch(Own)
      <3>1. n = 0 \/ 0 \in 0..n - 1
        BY <1>1, <1>2
      <3> QED
        BY <1>2, <2>1, <2>2, <3>1
    <2> QED
      BY <1>0, <1>4, <2>3 DEF ArgsRestored
  <1>5. CASE sender # "hook"
    <2>1. /\ m \in Nat /\ Own \in Seq(Anything)
          /\ \/ Len(args) = m + 4
             \/ Len(args) = m + 6 /\ args[m + 5] \in Prefixed
          /\ \A k \in 1..m : args[k] = Own[k]
          /\ args[m + 1] \in Prefixed /\ args[m + 3] \in Prefixed
      BY <1>5, WholeFacts, OwnFacts DEF Prefixed
    <2>2. name = OwnName /\ (cwd = OwnCwd \/ Last(Own) = CwdSwitch)
      <3>1. at > Len(args)
        BY DEF StripSwitches
      <3>2. at >= m + 5
        BY <1>5, <2>1, <3>1 DEF Looping
      <3> QED
        BY <1>5, <2>1, <3>2 DEF Looping, Last
    <2> HIDE DEF m
    <2>3. PICK q \in 2..3 : Len(args) - 2 * q = m
      BY <2>1
    <2>4. rest(q) = Own
      <3>0. q \in Nat /\ 2 * q <= Len(args)
        BY <2>1, <2>3
      <3>1. Len(rest(q)) = m /\ rest(q) \in Seq(Anything)
        BY <1>3, <2>3, <3>0
      <3>2. \A k \in 1..m : rest(q)[k] = args[k]
        BY <1>3, <2>3, <3>0
      <3>3. \A k \in 1..m : rest(q)[k] = Own[k]
        BY <2>1, <3>2
      <3> QED
        BY <2>1, <3>1, <3>3 DEF m
    <2>5. ASSUME NEW k \in 0..q - 1
          PROVE  LastIsSwitch(rest(k)) /\ 2 * k <= Len(args)
      <3>1. \/ k = q - 1 /\ Len(args) - 2 * k = m + 2
            \/ k = q - 2 /\ Len(args) - 2 * k = m + 4
            \/ k = q - 3 /\ Len(args) - 2 * k = m + 6 /\ Len(args) = m + 6
        BY <2>1, <2>3
      <3>2. k \in Nat /\ 2 * k <= Len(args)
        BY <2>1, <2>3
      <3>3. args[Len(args) - 2 * k - 1] \in Prefixed
        BY <2>1, <3>1
      <3> QED
        BY <1>3, <2>1, <3>1, <3>2, <3>3
    <2>6. n >= q
      <3>1. n \in Nat /\ (n < q => n \in 0..q - 1)
        BY <1>1, <2>3
      <3> QED
        BY <1>2, <2>5, <3>1
    <2>7. args' = Own \/ LastIsSwitch(Own)
      <3>1. n = q \/ q \in 0..n - 1
        BY <1>1, <2>3, <2>6
      <3> QED
        BY <1>2, <2>4, <3>1
    <2> QED
      BY <1>0, <2>2, <2>7 DEF ArgsRestored
  <1> QED
    BY <1>4, <1>5

-----------------------------------------------------------------------------
LEMMA ArgsInitInv == ArgsInit => ArgsInv
  <1> SUFFICES ASSUME ArgsInit PROVE ArgsInv
    OBVIOUS
  <1>1. user \in Seq(Anything)
    <2>1. PICK m \in 0..MaxArgs : user \in [1..m -> Arguments]
      BY DEF ArgsInit, BoundedSeq, SeqOf
    <2>2. m \in Nat /\ user \in [1..m -> Anything]
      BY <2>1, ArgsAssumption DEF Anything
    <2> QED
      BY <2>2
  <1>2. Inputs
    BY <1>1 DEF ArgsInit, Inputs
  <1>3. stage = "send" /\ args = <<>>
    BY DEF ArgsInit
  <1>4. PICK log \in LogArgs : /\ sender = "hook" => log = <<>>
                               /\ todo = Kept \o log
    <2>1. CASE sender = "hook"
      <3>1. todo = Kept
        BY <2>1 DEF ArgsInit, Kept
      <3>2. Kept \o <<>> = Kept
        BY <1>2, KeptType
      <3> QED
        BY <3>1, <3>2 DEF LogArgs
    <2>2. CASE sender # "hook"
      <3>1. PICK log \in LogArgs :
                todo = (IF sender = "debuggee" THEN <<Connect>> ELSE <<>>)
                         \o user \o Switches \o log
        BY <2>2 DEF ArgsInit, LogArgs
      <3>2. (IF sender = "debuggee" THEN <<Connect>> ELSE <<>>) \o user = Own
        BY <1>1 DEF Own
      <3>3. todo = Kept \o log
        BY <2>2, <3>1, <3>2 DEF Kept
      <3> QED
        BY <2>2, <3>3
    <2> QED
      BY <2>1, <2>2
  <1>5. Passing
    <2> DEFINE full == Kept \o log
    <2>1. full \in Seq(Anything)
      BY <1>2, FullFacts
    <2> HIDE DEF full
    <2>2. Parted(full, <<>>, full)
      BY <2>1 DEF Parted
    <2>3. todo = full /\ Parted(Kept \o log, args, todo)
      BY <1>3, <1>4, <2>2 DEF full
    <2>4. Len(args) <= Len(Kept) /\ args \in Seq(Anything)
      BY <1>2, <1>3, KeptType
    <2>5. todo \in Seq(Anything)
      BY <2>1, <2>3
    <2> QED
      BY <1>3, <1>4, <2>3, <2>4, <2>5, Zenon DEF Passing
  <1> QED
    BY <1>2, <1>3, <1>5 DEF ArgsInv, ArgsRestored, LauncherGetsArgs

\* What a step has to show: the inputs stay.
LEMMA ArgsStep ==
    ASSUME ArgsInv, ArgsNext
    PROVE  ArgsInv'
  <1>0. UNCHANGED inputs
    BY DEF ArgsNext, DriverArg, HookArg, WinArgs, RunInterpreter, Overrun,
           SetProgram, DecodeArg, StripSwitches
  <1>1. /\ Inputs /\ Inputs' /\ (Undisturbed' <=> Undisturbed)
        /\ Kept' = Kept /\ Own' = Own
        /\ user' = user /\ sender' = sender /\ platform' = platform
        /\ Holds(user, Connect)' <=> Holds(user, Connect)
    BY <1>0, Unchanged DEF ArgsInv, inputs, Holds
  <1>2. CASE ~Undisturbed
    BY <1>1, <1>2
    DEF ArgsInv, ArgsRestored, LauncherGetsArgs, Undisturbed, Inputs, Holds
  <1>3. CASE Undisturbed
    <2>1. CASE DriverArg \/ HookArg \/ WinArgs
      <3>1. stage = "send" /\ stage' = "send"
        BY <2>1 DEF DriverArg, HookArg, WinArgs, Goes
      <3>2. Passing'
        BY <1>1, <1>3, <2>1, <3>1, DriverArgKeepsPassing, HookArgKeepsPassing,
           WinArgsKeepPassing DEF ArgsInv
      <3> QED
        BY <1>1, <3>1, <3>2 DEF ArgsInv, ArgsRestored, LauncherGetsArgs
    <2>2. CASE RunInterpreter
      <3>1. stage = "send" /\ stage' = "ran"
        BY <2>2 DEF RunInterpreter, Goes
      <3>2. LauncherGetsArgs'
        BY <1>1, <1>3, <2>2, <3>1, RunInterpreterKeepsArgs DEF ArgsInv
      <3> QED
        BY <1>1, <3>1, <3>2 DEF ArgsInv, ArgsRestored
    <2>3. CASE Overrun
      BY <1>1, <2>3 DEF Overrun, Goes, ArgsInv, ArgsRestored, LauncherGetsArgs
    <2>4. CASE SetProgram
      <3>1. stage = "send" /\ stage' = "decode"
        BY <2>4 DEF SetProgram, Goes
      <3>2. /\ IF sender = "hook" THEN args' = user ELSE Whole' /\ Looping'
            /\ sender = "launcher" => Holds(user, Connect)
        BY <1>1, <1>3, <2>4, <3>1, SetProgramStartsLoop DEF ArgsInv
      <3> QED
        BY <1>1, <3>1, <3>2 DEF ArgsInv, ArgsRestored, LauncherGetsArgs
    <2>5. CASE DecodeArg
      <3>1. stage = "decode" /\ stage' = "decode" /\ args' = args
        BY <2>5 DEF DecodeArg, Goes
      <3>2. sender # "hook" => Whole' /\ Looping'
        BY <1>1, <1>3, <2>5, <3>1, DecodeKeepsLoop DEF ArgsInv
      <3> QED
        BY <1>1, <1>3, <3>1, <3>2 DEF ArgsInv, ArgsRestored, LauncherGetsArgs
    <2>6. CASE StripSwitches
      <3>1. stage = "decode" /\ stage' = "done"
        BY <2>6 DEF StripSwitches, Goes
      <3>2. ArgsRestored'
        BY <1>1, <1>3, <2>6, <3>1, StripRestores DEF ArgsInv
      <3> QED
        BY <1>1, <3>1, <3>2 DEF ArgsInv, LauncherGetsArgs
    <2> QED
      BY <2>1, <2>2, <2>3, <2>4, <2>5, <2>6 DEF ArgsNext
  <1> QED
    BY <1>2, <1>3

LEMMA ArgsStay ==
    ASSUME ArgsInv, UNCHANGED argsVars
    PROVE  ArgsInv'
  <1>1. /\ Inputs' <=> Inputs
        /\ Undisturbed' <=> Undisturbed
        /\ Kept' = Kept /\ Own' = Own
    BY Unchanged DEF argsVars, inputs
  <1> USE DEF argsVars, inputs
  <1>2. /\ Passing' <=> Passing
        /\ Whole' <=> Whole
        /\ Looping' <=> Looping
    BY <1>1 DEF Passing, Whole, Looping
  <1>3. ArgsRestored' <=> ArgsRestored
    BY <1>1 DEF ArgsRestored, Holds
  <1>4. LauncherGetsArgs' <=> LauncherGetsArgs
    BY DEF LauncherGetsArgs, Holds
  <1> QED
    BY <1>1, <1>2, <1>3, <1>4 DEF ArgsInv, Holds

\* Once the arguments are decoded they stay.
LEMMA ConfigStepKeepsArgs ==
    ASSUME ArgsInv,
           \/ ResolveProgram \/ ChooseType \/ StartOther \/ TransformConfig
    PROVE  ArgsInv'
  <1>0. UNCHANGED <<inputs, todo, args, at, name, cwd>>
    BY DEF ResolveProgram, ChooseType, StartOther, TransformConfig
  <1>1. CASE UNCHANGED stage
    BY <1>0, <1>1, ArgsStay DEF argsVars
  <1>2. CASE stage' # stage
    <2>1. stage' \in {"resolved", "typed", "over"}
      BY <1>2 DEF ResolveProgram, ChooseType, StartOther, TransformConfig
    <2>2. Inputs'
      BY <1>0, Unchanged DEF ArgsInv
    <2> QED
      BY <2>1, <2>2 DEF ArgsInv, ArgsRestored, LauncherGetsArgs
  <1> QED
    BY <1>1, <1>2

-----------------------------------------------------------------------------
(* What onStart makes of the request.                                      *)

Stages == {"send", "ran", "overrun", "decode", "done", "resolved", "typed",
           "over"}

\* The driver's program is as cloneDriver wrote it, or not there.
DriverConfig ==
    /\ stage # "typed"
    /\ stage = "done" => fate \in {None, "swallowed"}
    /\ stage = "resolved" => /\ fate = None /\ program = Resolved
                             /\ Found \/ host = "dir/file"

\* What becomes of a hook's request is settled by its file, and by the working
\* directory that the arguments have left.
HookConfig ==
    LET resolved == program = IF Found THEN "found" ELSE "missing"
    IN  /\ stage = "done" => fate = None \/ (fate = "swallowed" /\ ~Found)
        /\ stage = "resolved" => fate = None /\ resolved
        /\ stage = "typed" => fate = None /\ resolved /\ type = Type
        /\ stage = "over" => resolved /\ (fate = "started" <=> Type # Empty)

ConfigInv ==
    /\ Inputs
    /\ file \in Files /\ python \in Pythons
    /\ stage \in Stages
    /\ stage \in {"send", "ran", "overrun", "decode"} => fate = None
    /\ sender = "hook" => HookConfig
    /\ sender # "hook" => DriverConfig
    /\ InterpreterKept

LEMMA ConfigInitInv == StartInit => ConfigInv
  <1> SUFFICES ASSUME StartInit PROVE ConfigInv
    OBVIOUS
  <1>1. Inputs /\ stage = "send" /\ fate = None
    BY ArgsInitInv DEF StartInit, ArgsInit, ArgsInv
  <1>2. file \in Files
    <2>1. PlainFile \in Files
      BY DEF Files, PlainFile
    <2> QED
      BY <2>1 DEF StartInit, InitDrawn
  <1>3. python \in Pythons
    BY DEF StartInit, InitDrawn, Pythons
  <1> QED
    BY <1>1, <1>2, <1>3
    DEF ConfigInv, Stages, HookConfig, DriverConfig, InterpreterKept, None

LEMMA ArgsStepKeepsConfig ==
    ASSUME ConfigInv, ArgsNext, UNCHANGED <<drawn, config, fate>>
    PROVE  ConfigInv'
  <1>1. /\ UNCHANGED <<inputs, fate, file, python>>
        /\ stage \in {"send", "decode"}
        /\ stage' \in {"send", "ran", "overrun", "decode", "done"}
    BY DEF ArgsNext, DriverArg, HookArg, WinArgs, RunInterpreter, Overrun,
           SetProgram, DecodeArg, StripSwitches, Goes, drawn
  <1>2. Inputs' /\ sender' = sender
    BY <1>1, Unchanged DEF ConfigInv, inputs
  <1>3. fate' = None
    BY <1>1 DEF ConfigInv
  <1> QED
    BY <1>1, <1>2, <1>3
    DEF ConfigInv, Stages, HookConfig, DriverConfig, InterpreterKept, None

\* The steps of the configuration leave what they go by.
LEMMA ConfigStepFrame ==
    ASSUME \/ ResolveProgram \/ ChooseType \/ StartOther \/ TransformConfig
    PROVE  /\ UNCHANGED <<inputs, cwd, file, python, host>>
           /\ Found' <=> Found
           /\ program' = program => Type' = Type
           /\ Resolved' = Resolved
  <1>1. UNCHANGED <<inputs, cwd, file, python, host>>
    BY DEF ResolveProgram, ChooseType, StartOther, TransformConfig, drawn
  <1>2. Quoted' <=> Quoted
    BY <1>1 DEF Quoted, inputs
  <1>3. Found' <=> Found
    BY <1>1, <1>2 DEF Found, inputs
  <1>a. DriverProgram' = DriverProgram
    BY <1>1 DEF DriverProgram, GetInterpreter, inputs
  <1>b. Resolved' = Resolved
    BY <1>1, <1>3, <1>a DEF Resolved, inputs
  <1>4. program' = program => (Recognized' <=> Recognized)
    BY <1>1, <1>2 DEF Recognized, inputs
  <1>5. program' = program => Type' = Type
    BY <1>1, <1>2, <1>4 DEF Type
  <1> QED
    BY <1>1, <1>3, <1>5, <1>b

LEMMA HookStepKeepsConfig ==
    ASSUME ConfigInv, sender = "hook",
           ResolveProgram \/ ChooseType \/ StartOther
    PROVE  ConfigInv'
  <1>1. /\ UNCHANGED <<inputs, sender, cwd, file, python>>
        /\ Found' <=> Found
        /\ program' = program => Type' = Type
    BY ConfigStepFrame DEF inputs
  <1>2. Inputs'
    BY <1>1, Unchanged DEF ConfigInv
  <1>3. HookConfig /\ file' \in Files /\ python' \in Pythons
    BY <1>1 DEF ConfigInv
  <1>4. CASE ResolveProgram
    <2>1. CASE Found \/ host = "dir/file"
      BY <1>1, <1>2, <1>3, <1>4, <2>1
      DEF ResolveProgram, Resolved, ConfigInv, HookConfig, Stages,
          InterpreterKept
    <2>2. CASE ~(Found \/ host = "dir/file")
      BY <1>1, <1>2, <1>3, <1>4, <2>2
      DEF ResolveProgram, ConfigInv, HookConfig, Stages, InterpreterKept
    <2> QED
      BY <2>1, <2>2
  <1>5. CASE ChooseType
    BY <1>1, <1>2, <1>3, <1>5
    DEF ChooseType, ConfigInv, HookConfig, Stages, InterpreterKept
  <1>6. CASE StartOther
    BY <1>1, <1>2, <1>3, <1>6
    DEF StartOther, ConfigInv, HookConfig, Stages, InterpreterKept
  <1> QED
    BY <1>4, <1>5, <1>6

\* The driver's program goes through resolveCfgProgram, too.
LEMMA DriverStepKeepsConfig ==
    ASSUME ConfigInv, sender # "hook", ResolveProgram
    PROVE  ConfigInv'
  <1>1. /\ UNCHANGED <<inputs, sender, file, python, host>>
        /\ Found' <=> Found
        /\ Resolved' = Resolved
    BY ConfigStepFrame DEF inputs
  <1>2. Inputs'
    BY <1>1, Unchanged DEF ConfigInv
  <1>3. CASE Found \/ host = "dir/file"
    BY <1>1, <1>2, <1>3
    DEF ResolveProgram, ConfigInv, DriverConfig, Stages, InterpreterKept, None
  <1>4. CASE ~(Found \/ host = "dir/file")
    BY <1>1, <1>2, <1>4
    DEF ResolveProgram, ConfigInv, DriverConfig, Stages, InterpreterKept, None
  <1> QED
    BY <1>3, <1>4

\* An interpreter known by its bare name is missing after that.
LEMMA BareInterpreter ==
    ASSUME python \in Pythons, sender # "hook", python.in = "bare"
    PROVE  GetInterpreter(Resolved).path.in = "missing" /\ ~Found
  <1>1. DriverProgram \in [in : {"bare"}, name : {python.name}]
    BY DEF DriverProgram, GetInterpreter, Pythons
  <1>2. ~Found
    BY DEF Found
  <1>3. Resolved = [DriverProgram EXCEPT !.in = "missing"]
    BY <1>2 DEF Resolved
  <1>4. Resolved.in = "missing"
    BY <1>1, <1>3
  <1>5. GetInterpreter(Resolved).path = Resolved
    BY <1>4 DEF GetInterpreter
  <1> QED
    BY <1>2, <1>4, <1>5

\* Applying getInterpreter to what it returns.
LEMMA InterpreterOfDriver ==
    ASSUME Inputs, python \in Pythons, python.in # "bare"
    PROVE  LET info == GetInterpreter(DriverProgram) IN
           IF platform = "posix"
             THEN /\ info.path.in = python.in
                  /\ \/ info.path.name \in {"python", "python3", "python3.8"}
                     \/ python = [in |-> "venv", name |-> "python3.8"]
             ELSE /\ info.launcher = {python}
                  /\ info.path = [python EXCEPT !.in = "elsewhere"]
  <1> USE DEF Pythons
  <1>1. CASE platform = "posix"
    <2>1. CASE python.in = "venv"
      <3>1. GetInterpreter(python) =
                [path |-> [python EXCEPT !.name = With3(python.name)],
                 launcher |-> {}]
        BY <1>1, <2>1 DEF GetInterpreter
      <3>2. DriverProgram = [python EXCEPT !.name = With3(python.name)]
        BY <3>1 DEF DriverProgram
      <3>3. /\ DriverProgram.in = "venv"
            /\ DriverProgram.name = With3(python.name)
        BY <2>1, <3>2
      <3>4. GetInterpreter(DriverProgram).path =
                [DriverProgram EXCEPT !.name = With3(DriverProgram.name)]
        BY <1>1, <3>3 DEF GetInterpreter
      <3>5. /\ GetInterpreter(DriverProgram).path.in = "venv"
            /\ GetInterpreter(DriverProgram).path.name =
                  With3(With3(python.name))
        BY <3>2, <3>3, <3>4
      <3>6. \/ With3(With3(python.name)) = "python3"
            \/ python.name = "python3.8"
        BY DEF With3
      <3>7. python.name = "python3.8" =>
                python = [in |-> "venv", name |-> "python3.8"]
        BY <2>1
      <3> QED
        BY <1>1, <2>1, <3>5, <3>6, <3>7
    <2>2. CASE python.in # "venv"
      <3>1. GetInterpreter(python) = [path |-> python, launcher |-> {}]
        BY <1>1, <2>2 DEF GetInterpreter
      <3>2. DriverProgram = python
        BY <3>1 DEF DriverProgram
      <3> QED
        BY <1>1, <3>1, <3>2
    <2> QED
      BY <2>1, <2>2
  <1>2. CASE platform # "posix"
    <2>1. platform = "win32"
      BY <1>2 DEF Inputs
    <2>2. GetInterpreter(python).launcher = {python}
      BY <2>1 DEF GetInterpreter
    <2>3. DriverProgram = python
      BY <2>2 DEF DriverProgram
    <2>4. GetInterpreter(python).path = [python EXCEPT !.in = "elsewhere"]
      <3>1. CASE python.in \in {"venv", "virtualenv"}
        BY <2>1, <3>1 DEF GetInterpreter
      <3>2. CASE python.in = "elsewhere"
        <4>1. GetInterpreter(python).path = python
          BY <2>1, <3>2 DEF GetInterpreter
        <4> QED
          BY <3>2, <4>1
      <3> QED
        BY <3>1, <3>2
    <2> QED
      BY <1>2, <2>2, <2>3, <2>4
  <1> QED
    BY <1>1, <1>2

LEMMA TransformKeepsConfig ==
    ASSUME ConfigInv, TransformConfig
    PROVE  ConfigInv'
  <1>1. UNCHANGED <<inputs, platform, sender, cwd, file, python, host>>
    BY ConfigStepFrame DEF inputs
  <1>2. Inputs' /\ sender # "hook" /\ stage = "resolved" /\ stage' = "over"
    BY <1>1, Unchanged DEF ConfigInv, TransformConfig
  <1>3. program = Resolved /\ (Found \/ host = "dir/file")
    BY <1>2 DEF ConfigInv, DriverConfig
  <1>4. InterpreterKept'
    <2>1. CASE fate' = "refused"
      BY <2>1 DEF InterpreterKept
    <2>2. CASE fate' # "refused"
      <3>1. /\ program' = GetInterpreter(Resolved).path
            /\ launcher' = GetInterpreter(Resolved).launcher
        BY <1>3, <2>2 DEF TransformConfig
      <3>2. CASE python.in = "bare"
        BY <1>1, <1>2, <1>3, <3>1, <3>2, BareInterpreter
        DEF ConfigInv, InterpreterKept
      <3>3. CASE python.in # "bare"
        <4>1. Resolved = DriverProgram
          BY <1>2, <3>3 DEF Resolved, Found
        <4>2. platform \in {"posix", "win32"} /\ python \in Pythons /\ Inputs
          BY DEF ConfigInv, Inputs
        <4>3. CASE platform = "posix"
          BY <1>1, <3>1, <3>3, <4>1, <4>2, <4>3, InterpreterOfDriver
          DEF InterpreterKept
        <4>4. CASE platform = "win32"
          BY <1>1, <3>1, <3>3, <4>1, <4>2, <4>4, InterpreterOfDriver
          DEF InterpreterKept
        <4> QED
          BY <4>2, <4>3, <4>4
      <3> QED
        BY <3>2, <3>3
    <2> QED
      BY <2>1, <2>2
  <1> QED
    BY <1>1, <1>2, <1>4 DEF ConfigInv, Stages, DriverConfig

LEMMA ConfigStay ==
    ASSUME ConfigInv, UNCHANGED startVars
    PROVE  ConfigInv'
  BY DEF ConfigInv, startVars, argsVars, inputs, drawn, config, Inputs,
         HookConfig, DriverConfig, Found, Quoted, Type, Recognized,
         Resolved, DriverProgram, GetInterpreter, InterpreterKept

LEMMA ConfigStep == ConfigInv /\ [StartNext]_startVars => ConfigInv'
  <1> SUFFICES ASSUME ConfigInv, [StartNext]_startVars PROVE ConfigInv'
    OBVIOUS
  <1>1. CASE StartOther \/ ChooseType
    <2>1. sender = "hook"
      BY <1>1 DEF ConfigInv, DriverConfig, StartOther, ChooseType
    <2> QED
      BY <1>1, <2>1, HookStepKeepsConfig
  <1>2. CASE ResolveProgram
    BY <1>2, HookStepKeepsConfig, DriverStepKeepsConfig
  <1> QED
    BY <1>1, <1>2, ArgsStepKeepsConfig, TransformKeepsConfig, ConfigStay
    DEF StartNext

\* The inputs of a request are its own to the end, and it is at one of the
\* stages from the sender to the start of its session.
THEOREM ConfigHolds == StartSpec => []ConfigInv
  BY ConfigInitInv, ConfigStep, PTL DEF StartSpec

\* A hook's request for a plain file of a known kind comes to a debugger with
\* that program, whatever its arguments and its environment, and no other does
\* (deepDebug.ts:253-273, 320-324, 359).
THEOREM PlainIsStarted == StartSpec => []StartedIfPlain
  <1>1. ConfigInv => StartedIfPlain
    <2> SUFFICES ASSUME ConfigInv, sender = "hook",
                        stage = "over" \/ fate # None
                 PROVE  StartedIfPlain
      BY DEF StartedIfPlain
    <2>1. file.place \in {"absolute", "here", "PATH"}
      BY DEF ConfigInv, Files
    <2>2. file.kind \in {"py", "js", "binary", "shell", "other"}
      BY DEF ConfigInv, Files
    <2>3. CASE stage = "over"
      <3>1. /\ program = IF Found THEN "found" ELSE "missing"
            /\ fate = "started" <=> Type # Empty
        BY <2>3 DEF ConfigInv, HookConfig
      <3>2. Found => (Type # Empty <=> file.kind # "other")
        BY <2>2, <3>1 DEF Found, Type, Recognized, Empty
      <3> QED
        BY <2>1, <3>1, <3>2 DEF StartedIfPlain, Found, Quoted
    <2>4. CASE stage # "over"
      <3>1. fate = "swallowed" /\ ~Found
        BY <2>4 DEF ConfigInv, HookConfig, Stages
      <3> QED
        BY <2>1, <3>1 DEF StartedIfPlain, Found, Quoted
    <2> QED
      BY <2>3, <2>4
  <1> QED
    BY <1>1, ConfigHolds, PTL

\* Whatever interpreter a configuration asks for, its session debugs one of the
\* same environment, although getInterpreter is applied twice (python.ts:94,
\* 185), and none of a bare name (deepDebug.ts:253-256).
THEOREM InterpreterIsKept == StartSpec => []InterpreterKept
  BY ConfigHolds, PTL DEF ConfigInv

LEMMA ArgsInvStep == ArgsInv /\ [StartNext]_startVars => ArgsInv'
  BY ArgsStep, ArgsStay, ConfigStepKeepsArgs DEF StartNext, startVars

\* The loops of driver, hook and decodeConfig (python_driver.sh:38-53,
\* hook.sh:35, deepDebug.ts:295-307) have done to the arguments what ArgsInv
\* says, however far they have come.
THEOREM ArgsInvHolds == StartSpec => []ArgsInv
  BY ArgsInitInv, ArgsInvStep, PTL DEF StartSpec, StartInit

\* For a program with any number of arguments: through the driver its session
\* gets back its name and working directory, and it its own arguments
\* (deepDebug.ts:296-312).
THEOREM ArgsAreRestored == StartSpec => []ArgsRestored
  BY ArgsInvHolds, PTL DEF ArgsInv

\* For a program with any number of arguments, the interpreter that the driver
\* becomes gets each at its place (python_driver.sh:38-53, 67).
THEOREM LauncherGetsAll == StartSpec => []LauncherGetsArgs
  BY ArgsInvHolds, PTL DEF ArgsInv

-----------------------------------------------------------------------------
(* The environment of a session.                                           *)

\* A set of positions has a largest element: it has as many elements with all
\* that are smaller as the largest one says.
LEMMA HasMax ==
    ASSUME NEW n \in Nat, NEW T, T \subseteq 1..n, T # {}
    PROVE  /\ Max(T) \in T
           /\ \A t \in T : t <= Max(T)
  <1> DEFINE S == {s \in 1..n : \E t \in T : s <= t}
             c == Cardinality(S)
  <1>1. IsFiniteSet(1..n)
    BY FS_Interval
  <1>2. IsFiniteSet(S) /\ c \in Nat
    <2>1. S \in SUBSET (1..n)
      OBVIOUS
    <2> QED
      BY <1>1, <2>1, FS_Subset, FS_CardinalityType
  <1>3. ASSUME NEW s \in S PROVE s <= c
    <2>1. 1..s \in SUBSET S
      OBVIOUS
    <2>2. Cardinality(1..s) <= c
      BY <1>2, <2>1, FS_Subset
    <2>3. Cardinality(1..s) = s
      BY FS_Interval
    <2> QED
      BY <2>2, <2>3
  <1>4. S = 1..c
    <2>1. S \in SUBSET (1..c)
      BY <1>2, <1>3
    <2>2. IsFiniteSet(1..c) /\ Cardinality(1..c) = c
      BY <1>2, FS_Interval
    <2> HIDE DEF S
    <2> QED
      BY <2>1, <2>2, FS_Subset
  <1>5. c \in S
    <2>1. S # {}
      <3>1. PICK t \in T : TRUE
        OBVIOUS
      <3>2. t \in S
        OBVIOUS
      <3> QED
        BY <3>2
    <2> HIDE DEF S
    <2> QED
      BY <1>2, <1>4, <2>1
  <1>6. PICK t \in T : c <= t
    BY <1>5
  <1>7. t \in S
    OBVIOUS
  <1> HIDE DEF S, c
  <1>8. t = c
    BY <1>2, <1>3, <1>6, <1>7
  <1>9. \A u \in T : u <= t
    <2>1. T \subseteq S
      BY DEF S
    <2> QED
      BY <1>3, <1>8, <2>1
  <1>10. \A u \in T : t >= u
    BY <1>9
  <1> QED
    BY <1>10 DEF Max

\* A set of positions has a smallest element.
LEMMA HasMin ==
    ASSUME NEW n \in Nat, NEW T, T \subseteq 1..n, T # {}
    PROVE  Min(T) \in T
  <1> DEFINE U == {u \in 1..n : n + 1 - u \in T}
  <1>1. U \subseteq 1..n /\ U # {}
    <2>1. PICK t \in T : TRUE
      OBVIOUS
    <2>2. n + 1 - t \in U
      OBVIOUS
    <2> QED
      BY <2>2
  <1>2. Max(U) \in U /\ \A u \in U : u <= Max(U)
    <2> HIDE DEF U
    <2> QED
      BY <1>1, HasMax
  <1> DEFINE m == Max(U)
  <1> HIDE DEF m
  <1>3. m \in U /\ \A u \in U : u <= m
    BY <1>2 DEF m
  <1>4. n + 1 - m \in T
    BY <1>3
  <1>5. ASSUME NEW t \in T PROVE n + 1 - m <= t
    <2>1. n + 1 - t \in U
      OBVIOUS
    <2> QED
      BY <1>3, <2>1
  <1> QED
    BY <1>4, <1>5 DEF Min

\* Lines that begin a variable have names of their own.
DistinctLines ==
    \A i, j \in 1..Len(lines) :
        lines[i].whole /\ lines[j].whole /\ lines[i].name = lines[j].name =>
            i = j \/ lines[i].name = NoName

\* What Effective finds in the environment e.
ValueIn(e, n) ==
    LET entries == {i \in DOMAIN e : e[i].name = n}
    IN  IF entries = {} THEN 0 ELSE e[Max(entries)].value

\* The environment that SetEnvironment makes, and its number of the session.
NewEnv == WithParent(Decoded)
NewNumber == IF LinesOf(SessionId) = {} THEN 0
             ELSE NewId(Cardinality(LinesOf(SessionId)))

\* Where WithParent puts the number of the parent.
Place == IF LinesOf(ParentId) = {} THEN Len(lines) + 1
         ELSE Min(LinesOf(ParentId))

LEMMA LinesFacts ==
    ASSUME lines \in Seq(Lines)
    PROVE  /\ Len(lines) \in Nat
           /\ \A i \in 1..Len(lines) :
                 lines[i].name \in Names /\ lines[i].whole \in BOOLEAN
           /\ \A n : LinesOf(n) \subseteq 1..Len(lines)
  <1>1. \A i \in 1..Len(lines) : lines[i] \in Lines
    OBVIOUS
  <1>2. \A n : LinesOf(n) \subseteq 1..Len(lines)
    BY DEF LinesOf
  <1> QED
    BY <1>1, <1>2 DEF Lines

LEMMA PlaceFacts ==
    ASSUME lines \in Seq(Lines)
    PROVE  /\ Place \in 1..(Len(lines) + 1)
           /\ Place \in 1..Len(lines) => lines[Place].name = ParentId
           /\ LinesOf(ParentId) # {} => Place \in LinesOf(ParentId)
  <1>1. CASE LinesOf(ParentId) = {}
    BY <1>1, LinesFacts DEF Place
  <1>2. CASE LinesOf(ParentId) # {}
    <2>1. Min(LinesOf(ParentId)) \in LinesOf(ParentId)
      BY <1>2, LinesFacts, HasMin
    <2>2. Place \in LinesOf(ParentId)
      BY <1>2, <2>1 DEF Place
    <2> QED
      BY <2>2, LinesFacts DEF LinesOf
  <1> QED
    BY <1>1, <1>2

LEMMA NamesDiffer ==
    /\ SessionId # ParentId /\ SessionId # NoName /\ ParentId # NoName
  BY DEF SessionId, ParentId, NoName

\* The entries of the decoded environment.
LEMMA DecodedFacts ==
    ASSUME lines \in Seq(Lines)
    PROVE  /\ DOMAIN Decoded = 1..Len(lines) \ LinesOf(NoName)
           /\ \A i \in DOMAIN Decoded :
                 /\ i \in 1..Len(lines)
                 /\ Decoded[i].name = lines[i].name
                 /\ lines[i].name # SessionId => Decoded[i].value = i
                 /\ lines[i].name = SessionId =>
                       Decoded[i].value =
                         NewId(Cardinality(LinesOf(SessionId) \cap 1..i))
  BY DEF Decoded

\* The entries of the environment with the parent's number.
LEMMA NewEnvFacts ==
    ASSUME lines \in Seq(Lines)
    PROVE  /\ LinesOf(SessionId) = {} => NewEnv = Decoded
           /\ LinesOf(SessionId) # {} =>
                 /\ DOMAIN NewEnv = DOMAIN Decoded \cup {Place}
                 /\ NewEnv[Place].name = ParentId
                 /\ NewEnv[Place].value = Max(LinesOf(SessionId))
                 /\ \A i \in DOMAIN Decoded :
                       i # Place => NewEnv[i] = Decoded[i]
  BY DEF NewEnv, WithParent, ParentAt, Place

\* The entries of a variable other than the parent's are its lines.
LEMMA EntriesOf ==
    ASSUME lines \in Seq(Lines), NEW n, n # ParentId, n # NoName
    PROVE  /\ {i \in DOMAIN NewEnv : NewEnv[i].name = n} = LinesOf(n)
           /\ \A i \in LinesOf(n) :
                 i \in DOMAIN Decoded /\ NewEnv[i] = Decoded[i]
  <1>1. \A i \in LinesOf(n) :
           /\ i \in DOMAIN Decoded
           /\ Decoded[i].name = n
           /\ LinesOf(SessionId) # {} => i # Place
    BY DecodedFacts, PlaceFacts DEF LinesOf
  <1>2. \A i \in LinesOf(n) : i \in DOMAIN NewEnv /\ NewEnv[i] = Decoded[i]
    BY <1>1, NewEnvFacts
  <1>3. ASSUME NEW i \in DOMAIN NewEnv, NewEnv[i].name = n
        PROVE  i \in LinesOf(n)
    <2>1. i \in DOMAIN Decoded /\ NewEnv[i] = Decoded[i]
      BY <1>3, NewEnvFacts
    <2> QED
      BY <1>3, <2>1, DecodedFacts DEF LinesOf
  <1> QED
    BY <1>1, <1>2, <1>3

\* The session has the number of the last of its lines.
LEMMA SessionHasNumber ==
    ASSUME lines \in Seq(Lines)
    PROVE  ValueIn(NewEnv, SessionId) = NewNumber
  <1> DEFINE ids == LinesOf(SessionId)
             entries == {i \in DOMAIN NewEnv : NewEnv[i].name = SessionId}
  <1>1. /\ entries = ids
        /\ \A i \in ids : i \in DOMAIN Decoded /\ NewEnv[i] = Decoded[i]
    BY EntriesOf, NamesDiffer
  <1>2. CASE ids = {}
    BY <1>1, <1>2 DEF ValueIn, NewNumber
  <1>3. CASE ids # {}
    <2> DEFINE m == Max(ids)
    <2>1. m \in ids /\ \A i \in ids : i <= m
      BY <1>3, LinesFacts, HasMax
    <2>2. ids \cap 1..m = ids
      <3>1. \A i \in ids : i \in Nat /\ i >= 1 /\ m \in Nat
        BY <2>1, LinesFacts
      <3> HIDE DEF m, ids
      <3> QED
        BY <2>1, <3>1
    <2>3. lines[m].name = SessionId
      BY <2>1 DEF LinesOf
    <2>4. Decoded[m].value = NewId(Cardinality(ids \cap 1..m))
      BY <1>1, <2>1, <2>3, DecodedFacts
    <2>5. ValueIn(NewEnv, SessionId) = NewEnv[m].value
      BY <1>1, <1>3 DEF ValueIn
    <2>6. NewEnv[m].value = Decoded[m].value
      BY <1>1, <2>1
    <2>7. NewNumber = NewId(Cardinality(ids))
      BY <1>3 DEF NewNumber
    <2> HIDE DEF m, ids
    <2> QED
      BY <2>2, <2>4, <2>5, <2>6, <2>7
  <1> QED
    BY <1>2, <1>3

\* A session with a line has a number.
LEMMA NumberNotZero ==
    ASSUME lines \in Seq(Lines), LinesOf(SessionId) # {}
    PROVE  NewNumber # 0
  <1>1. IsFiniteSet(1..Len(lines))
    BY LinesFacts, FS_Interval
  <1>2. LinesOf(SessionId) \in SUBSET (1..Len(lines))
    BY LinesFacts
  <1>3. IsFiniteSet(LinesOf(SessionId))
    BY <1>1, <1>2, FS_Subset
  <1>4. /\ Cardinality(LinesOf(SessionId)) \in Nat
        /\ Cardinality(LinesOf(SessionId)) # 0
    BY <1>3, FS_CardinalityType, FS_EmptySet
  <1>5. MaxLines \in Nat
    BY OnStartAssumption
  <1>6. NewNumber = MaxLines + Cardinality(LinesOf(SessionId))
    BY DEF NewNumber, NewId
  <1> QED
    BY <1>4, <1>5, <1>6

\* The largest element of a singleton.
LEMMA MaxOfOne ==
    ASSUME NEW n \in Nat, NEW i \in 1..n
    PROVE  Max({i}) = i
  <1>1. {i} \subseteq 1..n /\ {i} # {}
    OBVIOUS
  <1>2. Max({i}) \in {i}
    BY <1>1, HasMax
  <1> QED
    BY <1>2

\* The lines of a variable whose line no other line resembles.
LEMMA OneLine ==
    ASSUME lines \in Seq(Lines), DistinctLines,
           NEW i \in 1..Len(lines), lines[i].whole, lines[i].name # NoName,
           \A j \in 1..Len(lines) : ~lines[j].whole =>
               lines[j].name \notin {lines[i].name, SessionId, ParentId}
    PROVE  /\ LinesOf(lines[i].name) = {i}
           /\ \A j, k \in LinesOf(ParentId) : j = k
  <1>1. \A j \in LinesOf(lines[i].name) : j = i
    BY DEF LinesOf, DistinctLines
  <1>2. i \in LinesOf(lines[i].name)
    BY DEF LinesOf
  <1>3. \A j, k \in LinesOf(ParentId) : j = k
    BY NamesDiffer DEF LinesOf, DistinctLines
  <1> QED
    BY <1>1, <1>2, <1>3

\* Each such variable keeps its value, except that the session's number becomes
\* the parent's.
LEMMA VariablesKept ==
    ASSUME lines \in Seq(Lines), DistinctLines,
           NEW i \in 1..Len(lines), lines[i].whole, lines[i].name # NoName,
           \A j \in 1..Len(lines) : ~lines[j].whole =>
               lines[j].name \notin {lines[i].name, SessionId, ParentId}
    PROVE  IF lines[i].name = SessionId
             THEN ValueIn(NewEnv, ParentId) = i
             ELSE \/ ValueIn(NewEnv, lines[i].name) = i
                  \/ lines[i].name = ParentId /\ NewNumber # 0
  <1>1. /\ LinesOf(lines[i].name) = {i}
        /\ \A j, k \in LinesOf(ParentId) : j = k
    BY OneLine
  <1>2. Max({i}) = i
    BY LinesFacts, MaxOfOne
  <1>3. i \in DOMAIN Decoded
    BY DecodedFacts DEF LinesOf
  <1>4. CASE lines[i].name = SessionId
    <2>1. LinesOf(SessionId) = {i}
      BY <1>1, <1>4
    <2> DEFINE entries == {j \in DOMAIN NewEnv : NewEnv[j].name = ParentId}
    <2>2. Place \in entries
      BY <2>1, NewEnvFacts
    <2>3. ASSUME NEW j \in entries, j # Place PROVE FALSE
      <3>1. j \in DOMAIN Decoded /\ NewEnv[j] = Decoded[j]
        BY <2>1, <2>3, NewEnvFacts
      <3>2. j \in LinesOf(ParentId)
        BY <2>3, <3>1, DecodedFacts DEF LinesOf
      <3>3. Place \in LinesOf(ParentId)
        BY <3>2, PlaceFacts
      <3> QED
        BY <1>1, <2>3, <3>2, <3>3
    <2>4. entries = {Place}
      BY <2>2, <2>3
    <2>5. Max({Place}) = Place
      BY PlaceFacts, LinesFacts, MaxOfOne
    <2>6. ValueIn(NewEnv, ParentId) = NewEnv[Place].value
      BY <2>4, <2>5 DEF ValueIn
    <2> QED
      BY <1>2, <1>4, <2>1, <2>6, NewEnvFacts
  <1>5. CASE lines[i].name \notin {SessionId, ParentId}
    <2>1. /\ {j \in DOMAIN NewEnv : NewEnv[j].name = lines[i].name} = {i}
          /\ NewEnv[i] = Decoded[i]
      BY <1>1, <1>5, EntriesOf
    <2>2. ValueIn(NewEnv, lines[i].name) = Decoded[i].value
      BY <1>2, <2>1 DEF ValueIn
    <2> QED
      BY <1>3, <1>5, <2>2, DecodedFacts
  <1>6. CASE lines[i].name = ParentId /\ LinesOf(SessionId) # {}
    BY <1>6, NumberNotZero, NamesDiffer
  <1>7. CASE lines[i].name = ParentId /\ LinesOf(SessionId) = {}
    <2>1. NewEnv = Decoded
      BY <1>7, NewEnvFacts
    <2>2. {j \in DOMAIN Decoded : Decoded[j].name = ParentId}
            = LinesOf(ParentId)
      BY DecodedFacts, NamesDiffer DEF LinesOf
    <2>3. ValueIn(NewEnv, ParentId) = Decoded[i].value
      BY <1>1, <1>2, <1>7, <2>1, <2>2 DEF ValueIn
    <2> QED
      BY <1>3, <1>7, <2>3, DecodedFacts, NamesDiffer
  <1> QED
    BY <1>4, <1>5, <1>6, <1>7

EnvInv ==
    /\ lines \in Seq(Lines)
    /\ DistinctLines
    /\ EnvironmentRestored

LEMMA EnvInitInv == StartInit => EnvInv
  <1> SUFFICES ASSUME StartInit PROVE EnvInv
    OBVIOUS
  <1>1. lines = <<>> \/ (lines \in BoundedSeq(Lines, MaxLines)
                         /\ Printable(lines))
    BY DEF StartInit, InitDrawn
  <1>2. lines \in Seq(Lines)
    <2>1. <<>> \in Seq(Lines)
      OBVIOUS
    <2>2. BoundedSeq(Lines, MaxLines) \subseteq Seq(Lines)
      BY OnStartAssumption DEF BoundedSeq, SeqOf
    <2> QED
      BY <1>1, <2>1, <2>2
  <1>3. DistinctLines
    BY <1>1 DEF DistinctLines, Printable
  <1>4. fate = None
    BY DEF StartInit
  <1> QED
    BY <1>2, <1>3, <1>4 DEF EnvInv, EnvironmentRestored, None

\* Setting the environment restores it.
LEMMA SetRestores ==
    ASSUME EnvInv, SetEnvironment, UNCHANGED lines
    PROVE  EnvInv'
  <1>1. environ' = NewEnv /\ id' = NewNumber
    BY DEF SetEnvironment, NewEnv, NewNumber
  <1>2. lines \in Seq(Lines) /\ DistinctLines
    BY DEF EnvInv
  <1>3. Effective(SessionId)' = id'
    <2>1. Effective(SessionId)' = ValueIn(NewEnv, SessionId)
      BY <1>1 DEF Effective, ValueIn
    <2> QED
      BY <1>1, <1>2, <2>1, SessionHasNumber
  <1>4. \A n : LET entries == {i \in DOMAIN environ' : environ'[i].name = n}
              IN  (IF entries = {} THEN 0 ELSE environ'[Max(entries)].value)
                    = ValueIn(NewEnv, n)
    BY <1>1 DEF ValueIn
  <1>5. ASSUME NEW i \in 1..Len(lines),
               lines[i].whole, lines[i].name # NoName,
               \A j \in 1..Len(lines) : ~lines[j].whole =>
                   lines[j].name \notin {lines[i].name, SessionId, ParentId}
        PROVE  (IF lines[i].name = SessionId
                  THEN Effective(ParentId) = i
                  ELSE \/ Effective(lines[i].name) = i
                       \/ lines[i].name = ParentId /\ id # 0)'
    BY <1>1, <1>2, <1>4, <1>5, VariablesKept DEF Effective
  <1>6. EnvironmentRestored'
    BY <1>3, <1>5 DEF EnvironmentRestored
  <1> QED
    BY <1>2, <1>6 DEF EnvInv, DistinctLines

\* A step that leaves the environment and does not start the session.
LEMMA EnvKept ==
    ASSUME EnvInv, UNCHANGED <<lines, environ, id>>,
           fate' \in {fate, "swallowed", "refused"}
    PROVE  EnvInv'
  <1>1. (lines \in Seq(Lines) /\ DistinctLines)'
    BY DEF EnvInv, DistinctLines
  <1>2. CASE fate' \notin {"started", "untyped"}
    BY <1>1, <1>2 DEF EnvInv, EnvironmentRestored
  <1>3. CASE fate' = fate
    <2>1. EnvironmentRestored'
      BY <1>3 DEF EnvInv, EnvironmentRestored, Effective
    <2> QED
      BY <1>1, <2>1 DEF EnvInv
  <1> QED
    BY <1>2, <1>3

LEMMA EnvStep == EnvInv /\ [StartNext]_startVars => EnvInv'
  <1> SUFFICES ASSUME EnvInv, [StartNext]_startVars PROVE EnvInv'
    OBVIOUS
  <1>1. CASE StartOther
    BY <1>1, SetRestores DEF StartOther, drawn
  <1>2. CASE TransformConfig
    <2>1. UNCHANGED lines
      BY <1>2 DEF TransformConfig, drawn
    <2>2. CASE args # <<>> /\ Head(args) \in Prefixed
      BY <1>2, <2>1, <2>2, EnvKept DEF TransformConfig, config
    <2>3. CASE ~(args # <<>> /\ Head(args) \in Prefixed)
      BY <1>2, <2>1, <2>3, SetRestores DEF TransformConfig
    <2> QED
      BY <2>2, <2>3
  <1>3. CASE ArgsNext /\ UNCHANGED <<drawn, config, fate>>
    BY <1>3, EnvKept DEF drawn, config
  <1>4. CASE ResolveProgram
    BY <1>4, EnvKept DEF ResolveProgram, drawn
  <1>5. CASE ChooseType
    BY <1>5, EnvKept DEF ChooseType, drawn
  <1>6. CASE UNCHANGED startVars
    BY <1>6, EnvKept DEF startVars, drawn, config
  <1> QED
    BY <1>1, <1>2, <1>3, <1>4, <1>5, <1>6 DEF StartNext

\* For an environment of any length: the debuggee has its own session's number,
\* the hook's session as parent, and every other variable as the hook had it
\* (deepDebug.ts:209-251).
THEOREM EnvironmentIsRestored == StartSpec => []EnvironmentRestored
  <1>1. EnvInv => EnvironmentRestored
    BY DEF EnvInv
  <1> QED
    BY <1>1, EnvInitInv, EnvStep, PTL DEF StartSpec
=============================================================================
