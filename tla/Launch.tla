-------------------------------- MODULE Launch --------------------------------
(***************************************************************************)
(* What a "deepdbg" debug session is about and what comes of it.  Its      *)
(* configuration names another configuration of launch.json, or holds a    *)
(* command line.  VS Code has it checked (activateDeepDebug.ts:37-81)      *)
(* before it makes an adapter, and the adapter, at the end of the          *)
(* handshake of module LaunchHandshake, looks the name up again            *)
(* (deepDebug.ts:138-150, 384-451) and starts a session or a terminal.     *)
(*                                                                         *)
(* In between the user may edit launch.json, or stop the session: that     *)
(* keeps VS Code from sending more requests but does not cancel the wait.  *)
(***************************************************************************)
EXTENDS LaunchHandshake, Functions

CONSTANTS
    Names,         \* of configurations in launch.json
    MaxEdits       \* bound of this model: changes of launch.json

ASSUME LaunchAssumption == MaxEdits \in Nat

VARIABLES
    target,         \* config.launch of each session; never changes
    folders,       \* vscode.workspace.workspaceFolders; never changes
    launchJson,    \* what is found under each name
    edits,         \* changes of launch.json
    stage,         \* of each session before it has an adapter, and when stopped
    checked,       \* what its name stood for when it was checked
    launched       \* what its launch came to

constant == <<target, folders>>
launchVars ==
    <<handshakeVars, constant, launchJson, edits, stage, checked, launched>>

CommandLine == "command line"

\* F5 without a launch.json: a name nobody has is put in.
Placeholder == "<name of a configuration to launch>"

Absent == "absent"

Kinds == {"python", "other"}

Entry(n) == IF n \in Names THEN launchJson[n] ELSE Absent

-----------------------------------------------------------------------------
\* Mutant of CheckLaunchConfig: any name will do.
CheckTypeOnly(s) == folders = "one" \/ target[s] = CommandLine

CheckLaunchConfig(s) ==
    target[s] = CommandLine \/ (folders = "one" /\ Entry(target[s]) # Absent)

\* resolveDebugConfiguration; an aborted session gets no adapter.  With a
\* workspace of no folders checkLaunchConfig throws, which aborts it as well.
ResolveDebugConfiguration(s) ==
    /\ stage[s] = "new"
    /\ stage' = [stage EXCEPT
                   ![s] = IF CheckLaunchConfig(s) THEN "live" ELSE "aborted"]
    /\ checked' = [checked EXCEPT ![s] = Entry(target[s])]
    /\ UNCHANGED <<handshakeVars, constant, launchJson, edits, launched>>

Edit ==
    /\ edits < MaxEdits
    /\ edits' = edits + 1
    /\ \E n \in Names, k \in Kinds \cup {Absent} :
          /\ k # launchJson[n]
          /\ launchJson' = [launchJson EXCEPT ![n] = k]
    /\ UNCHANGED <<handshakeVars, constant, stage, checked, launched>>

Stop(s) ==
    /\ stage[s] = "live"
    /\ stage' = [stage EXCEPT ![s] = "stopped"]
    /\ UNCHANGED <<handshakeVars, constant, launchJson, edits, checked,
                   launched>>

-----------------------------------------------------------------------------
(* The interpreter of a python configuration (python.ts:20-43, 139-164) *)

Extension == {"missing", "new storage", "old storage"}

\* The settings makeBinConfig asks in turn; "python" counts as not set.
Settings == <<"cfg.python", "cfg.pythonPath", "defaultInterpreterPath",
              "python.python", "python.pythonPath">>

\* getPythonPath: the python extension's command, or the setting once more.
GetPythonPath(extension, set, command) ==
    CASE extension = "new storage" -> command
      [] extension = "old storage" -> "python.pythonPath" \in set
      [] OTHER -> FALSE

\* When nothing is set, hasbin answers yes or no: not a path.
HasInterpreter(extension, set, command) ==
    \/ Range(Settings) \cap set # {}
    \/ GetPythonPath(extension, set, command)

HasOrNot ==
    {has \in BOOLEAN :
        \E extension \in Extension, set \in SUBSET Range(Settings),
           command \in BOOLEAN :
              has = HasInterpreter(extension, set, command)}

-----------------------------------------------------------------------------
\* launchDebugeeConfig.  The exceptions it catches: no path for cloneDriver, and
\* a name that is taken for a command line, after the terminal has been opened.
Outcome(s, interpreter) ==
    LET found == IF folders = "one" THEN Entry(target[s]) ELSE Absent
    IN  CASE found = "python" /\ ~interpreter -> "nothing"
          [] found = "python" /\ interpreter -> "driver"
          [] found = "other" -> "session"
          [] found = Absent /\ target[s] = CommandLine -> "terminal"
          [] OTHER -> "empty terminal"

Launch(s) ==
    /\ LaunchDebuggee(s)
    /\ \E has \in HasOrNot :
          launched' = [launched EXCEPT ![s] = Outcome(s, has)]
    /\ UNCHANGED <<constant, launchJson, edits, stage, checked>>

Rest == UNCHANGED <<constant, launchJson, edits, stage, checked, launched>>

\* The other steps of the handshake, which needs an adapter to begin.
AskLive(s) == stage[s] = "live" /\ (\E ask \in Asks : Ask(s, ask)) /\ Rest

AdapterStep(s) ==
    \/ Launch(s)
    \/ InitializeRequest(s) /\ Rest
    \/ ConfigurationDoneRequest(s) /\ Rest
    \/ LaunchRequest(s) /\ Rest
    \/ Timeout(s) /\ Rest

LaunchInit ==
    /\ HandshakeInit
    /\ target \in [Sessions -> Names \cup {CommandLine, Placeholder}]
    /\ folders \in {"none", "empty", "one"}
    /\ launchJson \in [Names -> Kinds \cup {Absent}]
    /\ edits = 0
    /\ stage = [s \in Sessions |-> "new"]
    /\ checked = [s \in Sessions |-> Absent]
    /\ launched = [s \in Sessions |-> "no"]

LaunchNext ==
    \/ Edit
    \/ \E s \in Sessions :
          \/ ResolveDebugConfiguration(s) \/ Stop(s)
          \/ AskLive(s) \/ AdapterStep(s)

LaunchSpec == LaunchInit /\ [][LaunchNext]_launchVars

\* As in LaunchHandshake: timers fire and the adapter handles what it is sent.
LaunchFairSpec ==
    LaunchSpec /\ \A s \in Sessions : WF_launchVars(AdapterStep(s))

-----------------------------------------------------------------------------
LaunchTypeOK ==
    /\ mail \in [Sessions -> Seq(Asks)]
    /\ sent \in [Sessions -> SUBSET Asks]
    /\ adapter \in [Sessions -> {"idle", "waiting", "resumed", "launched"}]
    /\ target \in [Sessions -> Names \cup {CommandLine, Placeholder}]
    /\ folders \in {"none", "empty", "one"}
    /\ launchJson \in [Names -> Kinds \cup {Absent}]
    /\ edits \in 0..MaxEdits
    /\ stage \in [Sessions -> {"new", "aborted", "live", "stopped"}]
    /\ checked \in [Sessions -> Kinds \cup {Absent}]
    /\ launched \in [Sessions -> {"no", "nothing", "driver", "session",
                                  "terminal", "empty terminal"}]

\* The second lookup agrees with the first when what a name stands for is still,
\* or again, what it was when it was checked: it comes to a session of that
\* configuration, but a python configuration to nothing when there is no
\* interpreter; and only a command line comes to a terminal
\* (activateDeepDebug.ts:38-50, deepDebug.ts:138-150, 413-448).
LaunchedAsChecked ==
    [][\A s \in Sessions :
          launched'[s] # launched[s] /\ Entry(target[s]) = checked[s] =>
              \/ checked[s] = "python" /\ launched'[s] \in {"driver", "nothing"}
              \/ checked[s] = "other" /\ launched'[s] = "session"
              \/ target[s] = CommandLine /\ launched'[s] = "terminal"
         ]_launchVars
=============================================================================
