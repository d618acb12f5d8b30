----------------------------- MODULE LaunchProofs -----------------------------
(***************************************************************************)
(* What happens when a session is launched, for any number of sessions,    *)
(* launches, windows and edits.                                            *)
(*                                                                         *)
(* Launch: what joins the check of a configuration to its launch, several  *)
(* requests and perhaps an edit later, is that only a session that passed  *)
(* the check ever gets an adapter, whether it is stopped meanwhile or not. *)
(*                                                                         *)
(* DriverCache: the invariant names the launch to blame: for a directory   *)
(* without parent.cfg the one that made it, for a driver that is cut short *)
(* the one that truncated it last.                                         *)
(*                                                                         *)
(* DirLock: a lock is a directory that its users pass by in the end.       *)
(***************************************************************************)
EXTENDS Launch, DriverCache, DirLock, TLAPS

\* Before it is resolved, and when it was refused, a session has no adapter.
NoAdapterBefore ==
    \A s \in Sessions :
        stage[s] \in {"new", "aborted"} => sent[s] = {} /\ mail[s] = <<>>
                                           /\ adapter[s] = "idle"

\* Who has one passed checkLaunchConfig.
PassedCheck ==
    \A s \in Sessions :
        stage[s] \in {"live", "stopped"} =>
            target[s] = CommandLine \/ (folders = "one" /\ checked[s] # Absent)

LaunchInv == LaunchTypeOK /\ NoAdapterBefore /\ PassedCheck

-----------------------------------------------------------------------------
LEMMA LaunchInitInv == LaunchInit => LaunchInv
  <1> SUFFICES ASSUME LaunchInit PROVE LaunchInv
    OBVIOUS
  <1> USE LaunchAssumption DEF LaunchInit, HandshakeInit
  <1>1. <<>> \in Seq(Asks)
    OBVIOUS
  <1>2. LaunchTypeOK
    BY <1>1 DEF LaunchTypeOK
  <1>3. NoAdapterBefore /\ PassedCheck
    BY DEF NoAdapterBefore, PassedCheck
  <1> QED
    BY <1>2, <1>3 DEF LaunchInv

LEMMA EntryType ==
    ASSUME LaunchTypeOK, NEW n
    PROVE  Entry(n) \in Kinds \cup {Absent}
  BY DEF LaunchTypeOK, Entry

LEMMA OutcomeType ==
    ASSUME NEW s \in Sessions, NEW has
    PROVE  Outcome(s, has) \in {"nothing", "driver", "session", "terminal",
                                "empty terminal"} \/ has \notin BOOLEAN
  BY Zenon DEF Outcome

-----------------------------------------------------------------------------
LEMMA ResolveKeepsInv ==
    ASSUME LaunchInv, NEW s \in Sessions, ResolveDebugConfiguration(s)
    PROVE  LaunchInv'
  <1> USE DEF LaunchInv, ResolveDebugConfiguration, handshakeVars, constant
  <1>1. Entry(target[s]) \in Kinds \cup {Absent}
    BY EntryType
  <1>2. LaunchTypeOK'
    BY <1>1 DEF LaunchTypeOK
  <1>3. NoAdapterBefore'
    BY DEF LaunchTypeOK, NoAdapterBefore
  <1>4. PassedCheck'
    BY DEF LaunchTypeOK, PassedCheck, CheckLaunchConfig
  <1> QED
    BY <1>2, <1>3, <1>4

LEMMA EditKeepsInv == LaunchInv /\ Edit => LaunchInv'
  <1> SUFFICES ASSUME LaunchInv, Edit PROVE LaunchInv'
    OBVIOUS
  <1> USE LaunchAssumption DEF LaunchInv, Edit, handshakeVars, constant
  <1>1. edits' \in 0..MaxEdits
    <2>1. edits \in 0..MaxEdits /\ edits < MaxEdits /\ edits' = edits + 1
      BY DEF LaunchTypeOK
    <2> QED
      BY <2>1
  <1>2. PICK n \in Names, k \in Kinds \cup {Absent} :
            launchJson' = [launchJson EXCEPT ![n] = k]
    OBVIOUS
  <1>3. launchJson' \in [Names -> Kinds \cup {Absent}]
    BY <1>2 DEF LaunchTypeOK
  <1>4. LaunchTypeOK'
    BY <1>1, <1>3 DEF LaunchTypeOK
  <1>5. NoAdapterBefore' /\ PassedCheck'
    BY DEF NoAdapterBefore, PassedCheck
  <1> QED
    BY <1>4, <1>5

LEMMA StopKeepsInv ==
    ASSUME LaunchInv, NEW s \in Sessions, Stop(s)
    PROVE  LaunchInv'
  <1> USE DEF LaunchInv, Stop, handshakeVars, constant
  <1>1. LaunchTypeOK'
    BY DEF LaunchTypeOK
  <1>2. NoAdapterBefore'
    BY DEF LaunchTypeOK, NoAdapterBefore
  <1>3. PassedCheck'
    BY DEF LaunchTypeOK, PassedCheck
  <1> QED
    BY <1>1, <1>2, <1>3

LEMMA AskKeepsInv ==
    ASSUME LaunchInv, NEW s \in Sessions, AskLive(s)
    PROVE  LaunchInv'
  <1> PICK ask \in Asks : Ask(s, ask)
    BY DEF AskLive
  <1> USE DEF LaunchInv, AskLive, Ask, Rest, constant
  <1>0. mail[s] \in Seq(Asks)
    BY DEF LaunchTypeOK
  <1>1. Append(mail[s], ask) \in Seq(Asks)
    BY <1>0
  <1>2. LaunchTypeOK'
    BY <1>1 DEF LaunchTypeOK
  <1>3. NoAdapterBefore'
    BY DEF LaunchTypeOK, NoAdapterBefore
  <1>4. PassedCheck'
    BY DEF PassedCheck
  <1> QED
    BY <1>2, <1>3, <1>4

\* A step of an adapter belongs to a session that has one.
LEMMA AdapterIsBehindCheck ==
    ASSUME LaunchInv, NEW s \in Sessions, AdapterStep(s)
    PROVE  stage[s] \in {"live", "stopped"}
  <1> USE DEF LaunchInv, LaunchTypeOK, NoAdapterBefore
  <1>1. CASE Launch(s) \/ Timeout(s)
    BY <1>1 DEF Launch, LaunchDebuggee, Timeout, AdapterGoes
  <1>2. ASSUME NEW ask, Take(s, ask)
        PROVE  stage[s] \in {"live", "stopped"}
    BY <1>2 DEF Take
  <1> QED
    BY <1>1, <1>2
    DEF AdapterStep, InitializeRequest, ConfigurationDoneRequest, LaunchRequest

LEMMA AdapterKeepsInv ==
    ASSUME LaunchInv, NEW s \in Sessions, AdapterStep(s)
    PROVE  LaunchInv'
  <1>1. stage[s] \in {"live", "stopped"}
    BY AdapterIsBehindCheck
  <1> USE DEF LaunchInv
  <1>2. UNCHANGED <<constant, launchJson, edits, stage, checked, sent>>
    BY DEF AdapterStep, Launch, LaunchDebuggee, InitializeRequest, Rest,
           ConfigurationDoneRequest, LaunchRequest, Timeout
  <1>3. /\ mail' \in [Sessions -> Seq(Asks)]
        /\ \A r \in Sessions \ {s} : mail'[r] = mail[r]
    <2>1. ASSUME NEW ask, Take(s, ask)
          PROVE  /\ mail' \in [Sessions -> Seq(Asks)]
                 /\ \A r \in Sessions \ {s} : mail'[r] = mail[r]
      <3>1. mail[s] \in Seq(Asks) /\ mail[s] # <<>>
        BY <2>1 DEF Take, LaunchTypeOK
      <3>2. Tail(mail[s]) \in Seq(Asks)
        BY <3>1
      <3> QED
        BY <2>1, <3>2 DEF Take, LaunchTypeOK
    <2>2. CASE UNCHANGED mail
      BY <2>2 DEF LaunchTypeOK
    <2> QED
      BY <2>1, <2>2
      DEF AdapterStep, Launch, LaunchDebuggee, InitializeRequest,
          ConfigurationDoneRequest, LaunchRequest, Timeout
  <1>4. /\ adapter' \in [Sessions -> {"idle", "waiting", "resumed", "launched"}]
        /\ \A r \in Sessions \ {s} : adapter'[r] = adapter[r]
    BY DEF AdapterStep, Launch, LaunchDebuggee, InitializeRequest, AdapterGoes,
           ConfigurationDoneRequest, LaunchRequest, Timeout, LaunchTypeOK
  <1>5. launched' \in [Sessions -> {"no", "nothing", "driver", "session",
                                    "terminal", "empty terminal"}]
    <2>1. CASE Launch(s)
      <3>1. PICK has \in HasOrNot :
                launched' = [launched EXCEPT ![s] = Outcome(s, has)]
        BY <2>1 DEF Launch
      <3>2. has \in BOOLEAN
        BY <3>1 DEF HasOrNot
      <3>3. Outcome(s, has) \in {"nothing", "driver", "session", "terminal",
                                 "empty terminal"}
        BY <3>2, OutcomeType
      <3> QED
        BY <3>1, <3>3 DEF LaunchTypeOK
    <2>2. CASE Rest
      BY <2>2 DEF Rest, LaunchTypeOK
    <2> QED
      BY <2>1, <2>2 DEF AdapterStep
  <1>6. LaunchTypeOK'
    BY <1>2, <1>3, <1>4, <1>5 DEF LaunchTypeOK, constant
  <1>7. NoAdapterBefore'
    BY <1>1, <1>2, <1>3, <1>4 DEF NoAdapterBefore
  <1>8. PassedCheck'
    BY <1>2 DEF PassedCheck, constant
  <1> QED
    BY <1>6, <1>7, <1>8

LEMMA LaunchNextInv == LaunchInv /\ [LaunchNext]_launchVars => LaunchInv'
  <1> SUFFICES ASSUME LaunchInv, [LaunchNext]_launchVars PROVE LaunchInv'
    OBVIOUS
  <1>1. CASE Edit
    BY <1>1, EditKeepsInv
  <1>2. ASSUME NEW s \in Sessions,
               \/ ResolveDebugConfiguration(s) \/ Stop(s)
               \/ AskLive(s) \/ AdapterStep(s)
        PROVE  LaunchInv'
    BY <1>2, ResolveKeepsInv, StopKeepsInv, AskKeepsInv, AdapterKeepsInv
  <1>3. CASE UNCHANGED launchVars
    BY <1>3
    DEF launchVars, handshakeVars, constant, LaunchInv, LaunchTypeOK,
        NoAdapterBefore, PassedCheck
  <1> QED
    BY <1>1, <1>2, <1>3 DEF LaunchNext

\* LaunchInv holds in every reachable state.
THEOREM LaunchInvHolds == LaunchSpec => []LaunchInv
  BY LaunchInitInv, LaunchNextInv, PTL DEF LaunchSpec

\* Every variable of a launch keeps its type, up to its requests.
THEOREM LaunchTypeCorrect == LaunchSpec => []LaunchTypeOK
  BY LaunchInvHolds, PTL DEF LaunchInv

-----------------------------------------------------------------------------
LEMMA LaunchIsAsChecked ==
    ASSUME LaunchInv, NEW s \in Sessions, NEW has \in BOOLEAN,
           stage[s] \in {"live", "stopped"},
           Entry(target[s]) = checked[s]
    PROVE  \/ checked[s] = "python" /\ Outcome(s, has) \in {"driver", "nothing"}
           \/ checked[s] = "other" /\ Outcome(s, has) = "session"
           \/ target[s] = CommandLine /\ Outcome(s, has) = "terminal"
  <1>1. target[s] = CommandLine \/ (folders = "one" /\ checked[s] # Absent)
    BY DEF LaunchInv, PassedCheck
  <1>2. checked[s] \in {"python", "other", Absent}
    BY DEF LaunchInv, LaunchTypeOK, Kinds
  <1>3. CASE folders = "one" /\ checked[s] # Absent
    BY <1>2, <1>3 DEF Outcome
  <1>4. CASE target[s] = CommandLine /\ (folders # "one" \/ checked[s] = Absent)
    BY <1>4 DEF Outcome, Absent
  <1> QED
    BY <1>1, <1>3, <1>4

LEMMA StepAsChecked ==
    ASSUME LaunchInv, LaunchNext, NEW s \in Sessions,
           launched'[s] # launched[s], Entry(target[s]) = checked[s]
    PROVE  \/ checked[s] = "python" /\ launched'[s] \in {"driver", "nothing"}
           \/ checked[s] = "other" /\ launched'[s] = "session"
           \/ target[s] = CommandLine /\ launched'[s] = "terminal"
  <1>1. Launch(s)
    <2>1. PICK r \in Sessions : Launch(r)
      BY DEF LaunchNext, Edit, ResolveDebugConfiguration, Stop, AskLive,
             AdapterStep, Rest
    <2>2. r = s
      BY <2>1 DEF Launch, LaunchInv, LaunchTypeOK
    <2> QED
      BY <2>1, <2>2
  <1>2. PICK has \in HasOrNot :
            launched' = [launched EXCEPT ![s] = Outcome(s, has)]
    BY <1>1 DEF Launch
  <1>3. has \in BOOLEAN
    BY <1>2 DEF HasOrNot
  <1>4. launched'[s] = Outcome(s, has)
    BY <1>2 DEF LaunchInv, LaunchTypeOK
  <1>5. stage[s] \in {"live", "stopped"}
    BY <1>1, AdapterIsBehindCheck DEF AdapterStep
  <1> QED
    BY <1>3, <1>4, <1>5, LaunchIsAsChecked

\* For any number of sessions, and however launch.json is edited: when the name
\* of a configuration stands at the launch for what it stood for at the check,
\* the launch is that configuration's; only a command line is run in a terminal
\* (activateDeepDebug.ts:38-50, deepDebug.ts:413-448).
THEOREM LaunchesAsChecked == LaunchSpec => LaunchedAsChecked
  <1>1. LaunchInv /\ [LaunchNext]_launchVars =>
            [\A s \in Sessions :
                launched'[s] # launched[s] /\ Entry(target[s]) = checked[s] =>
                  \/ checked[s] = "python"
                     /\ launched'[s] \in {"driver", "nothing"}
                  \/ checked[s] = "other" /\ launched'[s] = "session"
                  \/ target[s] = CommandLine /\ launched'[s] = "terminal"
            ]_launchVars
    BY StepAsChecked
  <1> QED
    BY <1>1, LaunchInvHolds, PTL DEF LaunchSpec, LaunchedAsChecked

-----------------------------------------------------------------------------
(* Copies of the python driver.                                            *)

\* parent.cfg names an interpreter of its directory that a launch asked for.
ConfigSound ==
    \A d \in Dirs :
        config[d] \in Interpreters =>
            /\ Place[Base[config[d]]] = d
            /\ \E k \in Launches : wants[k] = config[d]

ConfigMissing ==
    \A d \in dirs :
        config[d] = Nothing =>
            \E k \in Launches :
                /\ wants[k] \in Interpreters /\ Place[Base[wants[k]]] = d
                /\ pc[k] \in {"openConfig", "writeConfig", "killed"}

DriverCutShort ==
    \A i \in Interpreters :
        version[i] > 0 /\ ~whole[i] =>
            /\ copier[i] \in Launches /\ wants[copier[i]] \in Interpreters
            /\ Base[wants[copier[i]]] = i
            /\ pc[copier[i]] \in {"copying", "killed"}

Underway == Cloning \cup {"ready", "running"}

Progress ==
    \A l \in Launches :
        /\ pc[l] \in Underway =>
              /\ wants[l] \in Uncached
              /\ Place[Base[wants[l]]] \in dirs
        /\ pc[l] \in {"copying", "ready", "running"} =>
              version[Base[wants[l]]] > 0

\* One launch makes a directory and writes its parent.cfg, which stays: what a
\* driver has run can be read there ever after.
ConfigWrittenOnce ==
    /\ \A l \in Launches :
          pc[l] \in {"openConfig", "writeConfig"} => config[Dir(l)] = Nothing
    /\ \A k, l \in Launches :
          /\ pc[k] \in {"openConfig", "writeConfig"}
          /\ pc[l] \in {"openConfig", "writeConfig"}
          /\ Dir(k) = Dir(l)
          => k = l
    /\ \A d \in Dirs \ dirs : config[d] = Nothing
    /\ \A l \in Launches :
          ran[l] \in Interpreters =>
              wants[l] \in Interpreters /\ config[Dir(l)] = ran[l]

Inv ==
    /\ TypeOK /\ ConfigSound /\ ConfigMissing /\ DriverCutShort
    /\ Progress /\ ConfigWrittenOnce

\* The initial states satisfy the invariant (python.ts:89-116: nothing has been
\* made yet).
LEMMA InitInv == Init => Inv
  <1> SUFFICES ASSUME Init PROVE Inv
    OBVIOUS
  <1> USE CacheAssumption DEF Init
  <1>1. TypeOK
    BY DEF TypeOK, LaunchPc
  <1>2. ConfigSound /\ ConfigMissing /\ DriverCutShort /\ ConfigWrittenOnce
    BY DEF ConfigSound, ConfigMissing, DriverCutShort, ConfigWrittenOnce
  <1>3. Progress
    BY DEF Progress, Underway, Cloning
  <1> QED
    BY <1>1, <1>2, <1>3 DEF Inv

\* Every variable keeps its type.
LEMMA TypeNext == TypeOK /\ Progress /\ [Next]_vars => TypeOK'
  <1> SUFFICES ASSUME TypeOK, Progress, [Next]_vars PROVE TypeOK'
    OBVIOUS
  <1> USE CacheAssumption
      DEF TypeOK, LaunchPc, Goes, files, Driver, Uncached
  <1>1. ASSUME NEW l \in Launches, FailToChoose(l) PROVE TypeOK'
    BY <1>1 DEF FailToChoose
  <1>2. ASSUME NEW l \in Launches, CloneCached(l) PROVE TypeOK'
    BY <1>2 DEF CloneCached
  <1>3. ASSUME NEW l \in Launches, MakeDir(l) PROVE TypeOK'
    BY <1>3 DEF MakeDir, Dir, DriverDir, Cloning
  <1>4. ASSUME NEW l \in Launches, OpenConfig(l) PROVE TypeOK'
    BY <1>4 DEF OpenConfig, Cloning
  <1>5. ASSUME NEW l \in Launches, WriteConfig(l) PROVE TypeOK'
    BY <1>5 DEF WriteConfig, Progress, Underway, Cloning
  <1>6. ASSUME NEW l \in Launches, CheckDriver(l) PROVE TypeOK'
    BY <1>6 DEF CheckDriver, Cloning
  <1>7. ASSUME NEW l \in Launches, OpenCopy(l) PROVE TypeOK'
    <2>1. pc' \in [Launches -> LaunchPc]
      BY <1>7 DEF OpenCopy, Cloning
    <2>2. version' \in [Interpreters -> Nat]
      BY <1>7 DEF OpenCopy
    <2>3. whole' \in [Interpreters -> BOOLEAN]
      BY <1>7 DEF OpenCopy
    <2>4. copier' \in [Interpreters -> Launches \cup {Unset}]
      BY <1>7 DEF OpenCopy
    <2> QED
      BY <1>7, <2>1, <2>2, <2>3, <2>4 DEF OpenCopy
  <1>8. ASSUME NEW l \in Launches, FinishCopy(l) PROVE TypeOK'
    <2>1. pc' \in [Launches -> LaunchPc]
      BY <1>8 DEF FinishCopy
    <2>2. PICK all \in BOOLEAN : whole' = [whole EXCEPT ![Base[wants[l]]] = all]
      BY <1>8 DEF FinishCopy
    <2> QED
      BY <1>8, <2>1, <2>2 DEF FinishCopy
  <1>9. ASSUME NEW l \in Launches, StartDriver(l) PROVE TypeOK'
    BY <1>9 DEF StartDriver
  <1>10. ASSUME NEW l \in Launches, ReadConfig(l) PROVE TypeOK'
    BY <1>10 DEF ReadConfig, Dir, DriverDir, Progress, Underway
  <1>11. ASSUME NEW l \in Launches, Kill(l) PROVE TypeOK'
    BY <1>11 DEF Kill
  <1>12. CASE Rebuild
    BY <1>12 DEF Rebuild
  <1>13. CASE UNCHANGED vars
    BY <1>13 DEF vars
  <1> QED
    BY <1>1, <1>2, <1>3, <1>4, <1>5, <1>6, <1>7, <1>8, <1>9, <1>10, <1>11,
       <1>12, <1>13
    DEF Next, CloneDriver

\* parent.cfg is written by a launch for its own interpreter (python.ts:113).
LEMMA ConfigSoundNext == Inv /\ [Next]_vars => ConfigSound'
  <1> SUFFICES ASSUME Inv, [Next]_vars PROVE ConfigSound'
    OBVIOUS
  <1> USE CacheAssumption DEF Inv, TypeOK, ConfigSound, Uncached
  <1>1. ASSUME NEW l \in Launches, OpenConfig(l) PROVE ConfigSound'
    <2>1. wants[l] \in Interpreters
      BY <1>1 DEF OpenConfig, Goes, Progress, Underway, Cloning
    <2> QED
      BY <1>1, <2>1 DEF OpenConfig, Dir, DriverDir
  <1>2. ASSUME NEW l \in Launches, WriteConfig(l) PROVE ConfigSound'
    <2>1. wants[l] \in Interpreters
      BY <1>2 DEF WriteConfig, Goes, Progress, Underway, Cloning
    <2> QED
      BY <1>2, <2>1 DEF WriteConfig, Dir, DriverDir
  <1>3. CASE UNCHANGED <<wants, config>>
    BY <1>3
  <1> QED
    BY <1>1, <1>2, <1>3
    DEF Next, CloneDriver, FailToChoose, CloneCached, MakeDir, CheckDriver,
        OpenCopy, FinishCopy, StartDriver, ReadConfig, Kill, Rebuild, vars,
        files

\* The maker of a directory writes parent.cfg or is killed (python.ts:112-115).
LEMMA ConfigMissingNext == Inv /\ [Next]_vars => ConfigMissing'
  <1> SUFFICES ASSUME Inv, [Next]_vars PROVE ConfigMissing'
    OBVIOUS
  <1> USE CacheAssumption
      DEF Inv, TypeOK, ConfigMissing, Goes, files, Uncached
  <1>1. ASSUME NEW l \in Launches, MakeDir(l) PROVE ConfigMissing'
    BY <1>1 DEF MakeDir, Dir, DriverDir
  <1>2. ASSUME NEW l \in Launches, OpenConfig(l) PROVE ConfigMissing'
    <2>1. wants[l] \in Interpreters
      BY <1>2 DEF OpenConfig, Progress, Underway, Cloning
    <2> QED
      BY <1>2, <2>1 DEF OpenConfig, Dir, DriverDir
  <1>3. ASSUME NEW l \in Launches, WriteConfig(l) PROVE ConfigMissing'
    <2>1. wants[l] \in Interpreters
      BY <1>3 DEF WriteConfig, Progress, Underway, Cloning
    <2> QED
      BY <1>3, <2>1 DEF WriteConfig, Dir, DriverDir
  <1>4. ASSUME UNCHANGED <<wants, dirs, config>>,
               \A k \in Launches :
                  pc[k] \in {"openConfig", "writeConfig", "killed"} =>
                      pc'[k] \in {"openConfig", "writeConfig", "killed"}
        PROVE  ConfigMissing'
    BY <1>4
  <1>5. ASSUME NEW l \in Launches, Kill(l) PROVE ConfigMissing'
    BY <1>4, <1>5 DEF Kill
  <1>6. ASSUME NEW l \in Launches,
               FailToChoose(l) \/ CloneCached(l) \/ CheckDriver(l)
        PROVE  ConfigMissing'
    BY <1>4, <1>6 DEF FailToChoose, CloneCached, CheckDriver
  <1>7. ASSUME NEW l \in Launches, OpenCopy(l) \/ FinishCopy(l)
        PROVE  ConfigMissing'
    BY <1>4, <1>7 DEF OpenCopy, FinishCopy
  <1>8. ASSUME NEW l \in Launches, StartDriver(l) \/ ReadConfig(l)
        PROVE  ConfigMissing'
    BY <1>4, <1>8 DEF StartDriver, ReadConfig
  <1>9. CASE Rebuild \/ UNCHANGED vars
    BY <1>4, <1>9 DEF Rebuild, vars
  <1> QED
    BY <1>1, <1>2, <1>3, <1>5, <1>6, <1>7, <1>8, <1>9 DEF Next, CloneDriver

\* The launch that truncated a driver last completes it or is killed
\* (python.ts:129-131).
LEMMA DriverCutShortNext == Inv /\ [Next]_vars => DriverCutShort'
  <1> SUFFICES ASSUME Inv, [Next]_vars PROVE DriverCutShort'
    OBVIOUS
  <1> USE CacheAssumption
      DEF Inv, TypeOK, DriverCutShort, Goes, files, Driver, Uncached
  <1>1. ASSUME NEW l \in Launches, OpenCopy(l) PROVE DriverCutShort'
    <2>1. wants[l] \in Interpreters
      BY <1>1 DEF OpenCopy, Progress, Underway, Cloning
    <2>2. CASE pc'[l] = "ready"
      BY <1>1, <2>2 DEF OpenCopy
    <2>3. CASE pc'[l] = "copying"
      <3>1. /\ pc' = [pc EXCEPT ![l] = "copying"] /\ wants' = wants
            /\ version' = [version EXCEPT ![Base[wants[l]]] = source]
            /\ whole' = [whole EXCEPT ![Base[wants[l]]] = FALSE]
            /\ copier' = [copier EXCEPT ![Base[wants[l]]] = l]
            /\ pc[l] = "copy"
        BY <1>1, <2>3 DEF OpenCopy
      <3> SUFFICES ASSUME NEW i \in Interpreters, version'[i] > 0, ~whole'[i]
                   PROVE  /\ copier'[i] \in Launches
                          /\ wants[copier'[i]] \in Interpreters
                          /\ Base[wants[copier'[i]]] = i
                          /\ pc'[copier'[i]] \in {"copying", "killed"}
        BY <3>1
      <3>2. CASE i = Base[wants[l]]
        BY <2>1, <3>1, <3>2
      <3>3. CASE i # Base[wants[l]]
        <4>1. version[i] > 0 /\ ~whole[i] /\ copier'[i] = copier[i]
          BY <2>1, <3>1, <3>3
        <4>2. copier[i] # l
          BY <3>1, <4>1
        <4> QED
          BY <3>1, <4>1, <4>2
      <3> QED
        BY <3>2, <3>3
    <2> QED
      BY <1>1, <2>2, <2>3 DEF OpenCopy
  <1>2. ASSUME NEW l \in Launches, FinishCopy(l) PROVE DriverCutShort'
    <2>1. wants[l] \in Interpreters
      BY <1>2 DEF FinishCopy, Progress, Underway, Cloning
    <2>2. PICK all \in BOOLEAN :
             /\ whole[Base[wants[l]]] \/ copier[Base[wants[l]]] = l => all
             /\ whole' = [whole EXCEPT ![Base[wants[l]]] = all]
      BY <1>2 DEF FinishCopy
    <2>3. /\ pc' = [pc EXCEPT ![l] = "ready"] /\ wants' = wants
          /\ version' = version /\ copier' = copier
      BY <1>2 DEF FinishCopy
    <2> SUFFICES ASSUME NEW i \in Interpreters, version[i] > 0, ~whole'[i]
                 PROVE  /\ copier[i] \in Launches
                        /\ wants[copier[i]] \in Interpreters
                        /\ Base[wants[copier[i]]] = i
                        /\ pc'[copier[i]] \in {"copying", "killed"}
      BY <2>3
    <2>4. ~whole[i]
      BY <2>1, <2>2
    <2>5. copier[i] # l
      BY <2>1, <2>2, <2>4
    <2> QED
      BY <2>3, <2>4, <2>5
  <1>3. ASSUME UNCHANGED <<wants, version, whole, copier>>,
               \A k \in Launches :
                  pc[k] \in {"copying", "killed"} =>
                      pc'[k] \in {"copying", "killed"}
        PROVE  DriverCutShort'
    BY <1>3
  <1>4. ASSUME NEW l \in Launches,
               FailToChoose(l) \/ CloneCached(l) \/ MakeDir(l)
        PROVE  DriverCutShort'
    BY <1>3, <1>4 DEF FailToChoose, CloneCached, MakeDir
  <1>5. ASSUME NEW l \in Launches,
               OpenConfig(l) \/ WriteConfig(l) \/ CheckDriver(l)
        PROVE  DriverCutShort'
    BY <1>3, <1>5 DEF OpenConfig, WriteConfig, CheckDriver
  <1>6. ASSUME NEW l \in Launches, StartDriver(l) \/ ReadConfig(l)
        PROVE  DriverCutShort'
    BY <1>3, <1>6 DEF StartDriver, ReadConfig
  <1>7. ASSUME NEW l \in Launches, Kill(l) PROVE DriverCutShort'
    BY <1>3, <1>7 DEF Kill
  <1>8. CASE Rebuild \/ UNCHANGED vars
    BY <1>3, <1>8 DEF Rebuild, vars
  <1> QED
    BY <1>1, <1>2, <1>4, <1>5, <1>6, <1>7, <1>8 DEF Next, CloneDriver

\* A launch at work has an interpreter of its own and a directory, and once it
\* is past the comparison of times a driver (python.ts:121-131).
LEMMA ProgressNext == Inv /\ [Next]_vars => Progress'
  <1> SUFFICES ASSUME Inv, [Next]_vars PROVE Progress'
    OBVIOUS
  <1> USE CacheAssumption
      DEF Inv, TypeOK, Progress, Underway, Cloning, Goes, files, Driver,
          Uncached
  <1>1. ASSUME NEW l \in Launches, FailToChoose(l) \/ CloneCached(l)
        PROVE  Progress'
    BY <1>1 DEF FailToChoose, CloneCached
  <1>2. ASSUME NEW l \in Launches, MakeDir(l) PROVE Progress'
    BY <1>2 DEF MakeDir, Dir, DriverDir
  <1>3. ASSUME NEW l \in Launches, OpenConfig(l) \/ WriteConfig(l)
        PROVE  Progress'
    BY <1>3 DEF OpenConfig, WriteConfig
  <1>4. ASSUME NEW l \in Launches, CheckDriver(l) PROVE Progress'
    BY <1>4 DEF CheckDriver
  <1>5. ASSUME NEW l \in Launches, OpenCopy(l) PROVE Progress'
    <2>1. \A i \in Interpreters : version[i] > 0 => version'[i] > 0
      BY <1>5 DEF OpenCopy
    <2>2. pc'[l] \in {"copying", "ready"} /\ version'[Base[wants[l]]] > 0
      BY <1>5 DEF OpenCopy
    <2>3. /\ wants' = wants /\ dirs' = dirs
          /\ \A k \in Launches \ {l} : pc'[k] = pc[k]
      BY <1>5 DEF OpenCopy
    <2>4. pc[l] = "copy"
      BY <1>5 DEF OpenCopy
    <2> QED
      BY <2>1, <2>2, <2>3, <2>4
  <1>6. ASSUME NEW l \in Launches, FinishCopy(l) PROVE Progress'
    BY <1>6 DEF FinishCopy
  <1>7. ASSUME NEW l \in Launches, StartDriver(l) \/ ReadConfig(l)
        PROVE  Progress'
    BY <1>7 DEF StartDriver, ReadConfig
  <1>8. ASSUME NEW l \in Launches, Kill(l) PROVE Progress'
    BY <1>8 DEF Kill
  <1>9. CASE Rebuild \/ UNCHANGED vars
    BY <1>9 DEF Rebuild, vars
  <1> QED
    BY <1>1, <1>2, <1>3, <1>4, <1>5, <1>6, <1>7, <1>8, <1>9
    DEF Next, CloneDriver

\* Only the launch that has made a directory writes its parent.cfg, once
\* (python.ts:112-114); a driver takes its interpreter from there.
LEMMA WrittenOnceNext == Inv /\ [Next]_vars => ConfigWrittenOnce'
  <1> SUFFICES ASSUME Inv, [Next]_vars PROVE ConfigWrittenOnce'
    OBVIOUS
  <1> USE CacheAssumption
      DEF Inv, TypeOK, ConfigWrittenOnce, Goes, files, Dir, DriverDir, Uncached
  <1>1. ASSUME NEW l \in Launches, MakeDir(l) PROVE ConfigWrittenOnce'
    <2>1. /\ wants[l] \in Interpreters /\ Dir(l) \in Dirs
          /\ UNCHANGED <<wants, config, ran>> /\ dirs' = dirs \cup {Dir(l)}
          /\ pc' = [pc EXCEPT ![l] = IF Dir(l) \in dirs
                                       THEN "check" ELSE "openConfig"]
      BY <1>1 DEF MakeDir
    <2>2. \A k \in Launches :
            pc[k] \in {"openConfig", "writeConfig"} => Dir(k) \in dirs
      BY DEF Progress, Underway, Cloning
    <2> QED
      BY <2>1, <2>2
  <1>2. ASSUME NEW l \in Launches, OpenConfig(l) PROVE ConfigWrittenOnce'
    <2>1. /\ pc[l] = "openConfig" /\ pc' = [pc EXCEPT ![l] = "writeConfig"]
          /\ config' = [config EXCEPT ![Dir(l)] = Nothing]
          /\ UNCHANGED <<wants, dirs, ran>>
      BY <1>2 DEF OpenConfig
    <2>2. config' = config
      BY <2>1
    <2> QED
      BY <2>1, <2>2
  <1>3. ASSUME NEW l \in Launches, WriteConfig(l) PROVE ConfigWrittenOnce'
    <2>1. /\ pc[l] = "writeConfig" /\ pc' = [pc EXCEPT ![l] = "check"]
          /\ config' = [config EXCEPT ![Dir(l)] = wants[l]]
          /\ UNCHANGED <<wants, dirs, ran>>
      BY <1>3 DEF WriteConfig
    <2>2. Dir(l) \in dirs /\ config[Dir(l)] = Nothing
      BY <2>1 DEF Progress, Underway, Cloning
    <2>3. \A k \in Launches :
            \/ pc'[k] \in {"openConfig", "writeConfig"}
            \/ ran[k] \in Interpreters
            => Dir(k) # Dir(l)
      BY <2>1, <2>2
    <2> QED
      BY <2>1, <2>2, <2>3
  <1>4. ASSUME NEW l \in Launches, ReadConfig(l) PROVE ConfigWrittenOnce'
    <2>1. wants[l] \in Interpreters
      BY <1>4 DEF ReadConfig, Progress, Underway
    <2>2. /\ pc' = [pc EXCEPT ![l] = "done"]
          /\ ran' = [ran EXCEPT ![l] = config[Dir(l)]]
          /\ UNCHANGED <<wants, dirs, config>>
      BY <1>4 DEF ReadConfig
    <2> QED
      BY <2>1, <2>2
  <1>5. ASSUME UNCHANGED <<wants, dirs, config>>,
               \A k \in Launches :
                  /\ pc'[k] \in {"openConfig", "writeConfig"} => pc'[k] = pc[k]
                  /\ ran'[k] \in Interpreters => ran'[k] = ran[k]
        PROVE  ConfigWrittenOnce'
    BY <1>5
  <1>6. ASSUME NEW l \in Launches,
               CloneCached(l) \/ StartDriver(l) \/ FailToChoose(l) \/ Kill(l)
        PROVE  ConfigWrittenOnce'
    BY <1>5, <1>6 DEF CloneCached, StartDriver, FailToChoose, Kill, Cloning
  <1>7. ASSUME NEW l \in Launches,
               CheckDriver(l) \/ OpenCopy(l) \/ FinishCopy(l)
        PROVE  ConfigWrittenOnce'
    BY <1>5, <1>7 DEF CheckDriver, OpenCopy, FinishCopy
  <1>8. CASE Rebuild \/ UNCHANGED vars
    BY <1>5, <1>8 DEF Rebuild, vars
  <1> QED
    BY <1>1, <1>2, <1>3, <1>4, <1>6, <1>7, <1>8 DEF Next, CloneDriver

\* The invariant holds of every reachable state.
THEOREM Invariance == Spec => []Inv
  <1>1. Inv /\ [Next]_vars => Inv'
    BY TypeNext, ConfigSoundNext, ConfigMissingNext, DriverCutShortNext,
       ProgressNext, WrittenOnceNext
    DEF Inv
  <1> QED
    BY InitInv, <1>1, PTL DEF Spec

-----------------------------------------------------------------------------
\* Every variable of the driver cache keeps its type.
THEOREM TypeCorrect == Spec => []TypeOK
  BY Invariance, PTL DEF Inv

\* For any number of windows and environments: all drivers of one directory run
\* the same interpreter, one of those the directory is for that some launch was
\* configured with (python.ts:64-66, 109-114).
THEOREM NeverFartherThanNeighbour == Spec => []RunsNeighbourAtMost
  <1>1. Inv => RunsNeighbourAtMost
    <2> SUFFICES ASSUME Inv, NEW l \in Launches, ran[l] \in Interpreters
                 PROVE  /\ Neighbours(ran[l], wants[l])
                        /\ \E k \in Launches : wants[k] = ran[l]
                        /\ \A k \in Launches :
                              /\ ran[k] \in Interpreters
                              /\ Neighbours(wants[k], wants[l])
                              => ran[k] = ran[l]
      BY DEF RunsNeighbourAtMost
    <2> USE CacheAssumption DEF Inv, Dir, DriverDir, Neighbours
    <2>1. /\ wants[l] \in Interpreters /\ Dir(l) \in Dirs
          /\ config[Dir(l)] = ran[l]
      BY DEF ConfigWrittenOnce
    <2>2. /\ Place[Base[ran[l]]] = Dir(l)
          /\ \E k \in Launches : wants[k] = ran[l]
      BY <2>1 DEF ConfigSound
    <2> QED
      BY <2>1, <2>2 DEF ConfigWrittenOnce
  <1> QED
    BY <1>1, Invariance, PTL

\* A step that starts a driver cut short or without an interpreter has another
\* launch to blame, which is preparing the directory or was killed in that.
LEMMA Blame ==
    ASSUME Inv, [Next]_vars, NEW l \in Launches,
           ran'[l] # ran[l], ran'[l] \in {Nothing, Broken}
    PROVE  \/ Base[wants[l]] \in Cached
           \/ \E k \in Launches \ {l} :
                 /\ wants[k] \in Interpreters
                 /\ Neighbours(wants[k], wants[l])
                 /\ pc[k] \in Cloning \cup {"killed"}
  <1> USE CacheAssumption
      DEF Inv, TypeOK, Goes, files, Driver, Uncached, Neighbours
  <1>1. CloneCached(l) \/ StartDriver(l) \/ ReadConfig(l)
    BY DEF Next, CloneDriver, FailToChoose, CloneCached, MakeDir, OpenConfig,
           WriteConfig, CheckDriver, OpenCopy, FinishCopy, StartDriver,
           ReadConfig, Kill, Rebuild, vars
  <1>2. CASE CloneCached(l)
    BY <1>2 DEF CloneCached
  <1>3. CASE StartDriver(l)
    <2>1. pc[l] = "ready" /\ ~whole[Base[wants[l]]]
      BY <1>3 DEF StartDriver
    <2>2. wants[l] \in Interpreters /\ version[Base[wants[l]]] > 0
      BY <2>1 DEF Progress, Underway
    <2>3. LET k == copier[Base[wants[l]]]
          IN  /\ k \in Launches /\ wants[k] \in Interpreters
              /\ Base[wants[k]] = Base[wants[l]]
              /\ pc[k] \in {"copying", "killed"}
      BY <2>1, <2>2 DEF DriverCutShort
    <2> QED
      BY <2>1, <2>2, <2>3 DEF Cloning
  <1>4. CASE ReadConfig(l)
    <2>1. pc[l] = "running" /\ config[Dir(l)] \in {Nothing, Broken}
      BY <1>4 DEF ReadConfig
    <2>2. wants[l] \in Interpreters /\ Place[Base[wants[l]]] \in dirs
      BY <2>1 DEF Progress, Underway
    <2>3. Dir(l) = Place[Base[wants[l]]] /\ Dir(l) \in Dirs
      BY <2>2 DEF Dir, DriverDir
    <2>4. config[Dir(l)] = Nothing \/ Nothing = Broken
      BY <2>1, <2>3
    <2>5. config[Dir(l)] = Nothing
      BY <2>1, <2>4
    <2>6. PICK k \in Launches :
             /\ wants[k] \in Interpreters
             /\ Place[Base[wants[k]]] = Place[Base[wants[l]]]
             /\ pc[k] \in {"openConfig", "writeConfig", "killed"}
      BY <2>2, <2>3, <2>5 DEF ConfigMissing
    <2> QED
      BY <2>1, <2>6 DEF Cloning
  <1> QED
    BY <1>1, <1>2, <1>3, <1>4

\* For any number of windows, a driver comes up broken only by the doing of
\* another launch in the same directory.
THEOREM OthersAreToBlame == Spec => BrokenOnlyByOthers
  <1>1. Inv /\ [Next]_vars =>
          [\A l \in Launches :
             ran'[l] # ran[l] /\ ran'[l] \in {Nothing, Broken} =>
                 \/ Base[wants[l]] \in Cached
                 \/ \E k \in Launches \ {l} :
                       /\ wants[k] \in Interpreters
                       /\ Neighbours(wants[k], wants[l])
                       /\ pc[k] \in Cloning \cup {"killed"}]_vars
    BY Blame
  <1> QED
    BY <1>1, Invariance, PTL DEF Spec, BrokenOnlyByOthers

-----------------------------------------------------------------------------
(* The lock of the driver's directory is one of those of module DirLock,   *)
(* which lets its user in whoever else is inside.                          *)

LockPc == {"idle", "mkdir", "stat", "in", "killed"}

LockTypeOK ==
    /\ lockDir \in {"none", "user", "background"}
    /\ at \in [Users -> LockPc]
    /\ visits \in [Users -> 0..MaxVisits]
    /\ late \subseteq Unawaited

LockInv == LockTypeOK /\ CleanWhenIdle

LEMMA LockInitInv == LockInit => LockInv
  BY DirLockAssumption
  DEF LockInit, LockInv, LockTypeOK, LockPc,
      CleanWhenIdle

LEMMA LockNextInv == LockInv /\ [LockNext]_lockVars => LockInv'
  <1> SUFFICES ASSUME LockInv, [LockNext]_lockVars PROVE LockInv'
    OBVIOUS
  <1> USE DirLockAssumption DEF LockInv, LockTypeOK, LockPc,
              CleanWhenIdle, Exists, Moves
  <1>1. ASSUME NEW u \in Users, BeginLock(u)
        PROVE  LockInv'
    BY <1>1 DEF BeginLock
  <1>2. ASSUME NEW u \in Users, Mkdir(u)
        PROVE  LockInv'
    BY <1>2 DEF Mkdir
  <1>3. ASSUME NEW u \in Users, Stat(u)
        PROVE  LockInv'
    BY <1>3 DEF Stat
  <1>4. ASSUME NEW u \in Users, LateMkdir(u)
        PROVE  LockInv'
    BY <1>4 DEF LateMkdir
  <1>5. ASSUME NEW u \in Users, Release(u) \/ ReleaseJustInCase(u)
        PROVE  LockInv'
    BY <1>5 DEF Release, ReleaseJustInCase
  <1>6. ASSUME NEW u \in Users, KillUser(u)
        PROVE  LockInv'
    BY <1>6 DEF KillUser
  <1>7. CASE UNCHANGED lockVars
    BY <1>7 DEF lockVars
  <1> QED
    BY <1>1, <1>2, <1>3, <1>4, <1>5, <1>6, <1>7 DEF LockNext, Step

\* Whoever comes and dies at a lock, and however often it is released for
\* somebody else: when all are through, what is left of it is at most what a
\* getLock made in the background, that nobody awaited (common.ts:30-42).
THEOREM LockIsLeftClean == LockSpec => []CleanWhenIdle
  <1>1. LockInv => CleanWhenIdle
    BY DEF LockInv
  <1> QED
    BY <1>1, LockInitInv, LockNextInv, PTL DEF LockSpec

LEMMA AdvisoryInit == LockInit => Advisory!Init
  BY DEF LockInit, Exists, Advisory!Init

LEMMA AdvisoryNext ==
    ASSUME LockInv, [LockNext]_lockVars
    PROVE  [Advisory!Next]_Advisory!lockVars
  <1> USE DirLockAssumption DEF LockInv, LockTypeOK, LockPc,
              Exists, Moves
  <1> DEFINE Inside == {u \in Users : at[u] = "in"}
  <1>1. ASSUME NEW u \in Users, BeginLock(u)
        PROVE  [Advisory!Next]_Advisory!lockVars
    <2>1. Inside' = Inside /\ lockDir' = lockDir
      BY <1>1 DEF BeginLock
    <2> QED
      BY <2>1 DEF Advisory!lockVars
  <1>2. ASSUME NEW u \in Users, Mkdir(u)
        PROVE  [Advisory!Next]_Advisory!lockVars
    <2>1. CASE lockDir = "none"
      <3>1. u \notin Inside /\ Inside' = Inside \cup {u} /\ lockDir' # "none"
        BY <1>2, <2>1 DEF Mkdir
      <3> QED
        BY <3>1 DEF Advisory!Next, Advisory!Enter
    <2>2. CASE lockDir # "none"
      <3>1. Inside' = Inside /\ lockDir' = lockDir
        BY <1>2, <2>2 DEF Mkdir
      <3> QED
        BY <3>1 DEF Advisory!lockVars
    <2> QED
      BY <2>1, <2>2
  <1>3. ASSUME NEW u \in Users, Stat(u)
        PROVE  [Advisory!Next]_Advisory!lockVars
    <2>0. lockDir' = lockDir /\ u \notin Inside
      BY <1>3 DEF Stat
    <2>1. CASE at'[u] = "in"
      <3>1. Inside' = Inside \cup {u}
        BY <1>3, <2>1 DEF Stat
      <3>2. lockDir # "none" \/ u \in Unawaited
        BY <1>3, <2>1 DEF Stat
      <3> QED
        BY <2>0, <3>1, <3>2
        DEF Advisory!Next, Advisory!Enter,
            Advisory!EnterUnmarked
    <2>2. CASE at'[u] # "in"
      <3>1. Inside' = Inside
        BY <1>3, <2>2 DEF Stat
      <3> QED
        BY <2>0, <3>1 DEF Advisory!lockVars
    <2> QED
      BY <2>1, <2>2
  <1>4. ASSUME NEW u \in Users, LateMkdir(u)
        PROVE  [Advisory!Next]_Advisory!lockVars
    <2>1. u \in Unawaited /\ lockDir' # "none" /\ Inside' = Inside
      BY <1>4 DEF LateMkdir
    <2> QED
      BY <2>1 DEF Advisory!Next, Advisory!Mark
  <1>5. ASSUME NEW u \in Users, Release(u)
        PROVE  [Advisory!Next]_Advisory!lockVars
    <2>1. u \in Inside /\ Inside' = Inside \ {u} /\ lockDir' = "none"
      BY <1>5 DEF Release
    <2> QED
      BY <2>1 DEF Advisory!Next, Advisory!Leave
  <1>6. ASSUME NEW u \in Users, ReleaseJustInCase(u)
        PROVE  [Advisory!Next]_Advisory!lockVars
    <2>1. Inside' = Inside /\ lockDir' = "none"
      BY <1>6 DEF ReleaseJustInCase
    <2> QED
      BY <2>1 DEF Advisory!Next, Advisory!Clear
  <1>7. ASSUME NEW u \in Users, KillUser(u)
        PROVE  [Advisory!Next]_Advisory!lockVars
    <2>1. Inside' = Inside \ {u} /\ lockDir' = lockDir
      BY <1>7 DEF KillUser
    <2>2. CASE u \in Inside
      BY <2>1, <2>2 DEF Advisory!Next, Advisory!Vanish
    <2>3. CASE u \notin Inside
      BY <2>1, <2>3 DEF Advisory!lockVars
    <2> QED
      BY <2>2, <2>3
  <1>8. CASE UNCHANGED lockVars
    BY <1>8 DEF lockVars, Advisory!lockVars
  <1> QED
    BY <1>1, <1>2, <1>3, <1>4, <1>5, <1>6, <1>7, <1>8 DEF LockNext, Step

\* For any number of users a lock directory is the mark that the other modules
\* take it for: mkdir -p enters in one step, whatever happens between its two
\* system calls (hook.sh:9-18, common.ts:30-49).
THEOREM LocksAreAdvisory == LockSpec => IsAdvisoryLock
  BY LockInitInv, LockNextInv, AdvisoryInit, AdvisoryNext, PTL
  DEF LockSpec, IsAdvisoryLock, Advisory!Spec
=============================================================================
