----------------------------- MODULE DriverCache -----------------------------
(***************************************************************************)
(* Copies of the python driver in the temporary directory: cloneDriver and *)
(* makeBinConfig (python.ts:45-175), and the driver that starts from such  *)
(* a copy and reads parent.cfg beside it (python_driver.sh:57-69,          *)
(* python_driver.cpp:10-47).                                               *)
(*                                                                         *)
(* The directory stands for the directory of an interpreter, of which it   *)
(* is a hash (python.ts:109-111).  On Windows that is, for the interpreter *)
(* of a virtual environment, the one its environment was made from         *)
(* (python.ts:64-66, 76): all environments of one base share a directory   *)
(* and a driver there, while parent.cfg gets the path of one of their own  *)
(* interpreters (python.ts:113).  Elsewhere both are the interpreter's own *)
(* path, which is python3 for the python of an environment of Python 3.    *)
(*                                                                         *)
(* Every window of VS Code works on the directory, one system call at a    *)
(* time; a window may be killed between two.  The lock of python.ts:       *)
(* 120-132 makes nobody wait (DirLock) and is left out.                    *)
(***************************************************************************)
EXTENDS Naturals

CONSTANTS
    Launches,      \* launches of python programs, each in a window of its own
    Interpreters,  \* by the path getInterpreter launches them by
    Base,          \* the interpreter getInterpreter gives the path of
    Dirs,          \* directories of interpreters
    Place,         \* the directory each interpreter is in
    Cached,        \* interpreters that are themselves copies of the driver
    Unset,         \* all settings leave the interpreter at its default
    Nothing,       \* no or an empty path in parent.cfg
    Broken,        \* a driver that is missing or cut short
    Killable,      \* launches whose window may be killed
    MaxBuilds      \* bound of this model: versions of the driver's source

ASSUME CacheAssumption ==
    /\ Base \in [Interpreters -> Interpreters]
    /\ Place \in [Interpreters -> Dirs]
    /\ Cached \subseteq Interpreters
    /\ Unset \notin Interpreters /\ Nothing \notin Interpreters
    /\ Broken \notin Interpreters
    /\ Unset \notin Launches /\ Killable \subseteq Launches
    /\ MaxBuilds \in Nat

VARIABLES
    wants,         \* the interpreter each launch is configured with
    pc,            \* where each launch is
    dirs,          \* directories made
    config,        \* parent.cfg of each directory
    version,       \* version of each driver; 0 if there is none
    whole,         \* is it all there
    copier,        \* the launch that truncated it last
    source,        \* version of the driver in the extension
    ran            \* what the driver of each launch has run

files == <<dirs, config, version, whole, copier>>
vars == <<wants, pc, files, source, ran>>

Goes(l, from, to) == pc[l] = from /\ pc' = [pc EXCEPT ![l] = to]

-----------------------------------------------------------------------------
\* Mutant of DriverDir: the directory of the interpreter is not in the hash.
DriverDirOne(i) == CHOOSE d \in Dirs : TRUE

DriverDir(i) == Place[Base[i]]

Dir(l) == DriverDir(wants[l])

\* In model and code a driver has the directory and the name of an interpreter,
\* so that an interpreter stands for the file, too.
Driver(l) == Base[wants[l]]

Uncached == {i \in Interpreters : Base[i] \notin Cached}

\* hasbin.sync returns a Boolean, and path.parse throws.
FailToChoose(l) ==
    /\ wants[l] = Unset
    /\ Goes(l, "idle", "failed")
    /\ UNCHANGED <<wants, files, source, ran>>

\* An interpreter below tempPath: its own path is taken for the directory, and
\* copying fails.  The driver is not there.
CloneCached(l) ==
    /\ wants[l] \in Interpreters \ Uncached
    /\ Goes(l, "idle", "failed")
    /\ ran' = [ran EXCEPT ![l] = Broken]
    /\ UNCHANGED <<wants, files, source>>

\* Mutant of MakeDir: parent.cfg is written by nobody.
MakeDirOnly(l) ==
    /\ wants[l] \in Uncached
    /\ Goes(l, "idle", "check")
    /\ dirs' = dirs \cup {Dir(l)}
    /\ UNCHANGED <<wants, config, version, whole, copier, source, ran>>

\* mkdirSync, recursive: only the one that makes the directory writes
\* parent.cfg.
MakeDir(l) ==
    /\ wants[l] \in Uncached
    /\ Goes(l, "idle", IF Dir(l) \in dirs THEN "check" ELSE "openConfig")
    /\ dirs' = dirs \cup {Dir(l)}
    /\ UNCHANGED <<wants, config, version, whole, copier, source, ran>>

\* writeFileSync: open, truncating, and write; of an environment's interpreter
\* the path itself, not the one of its base.
OpenConfig(l) ==
    /\ Goes(l, "openConfig", "writeConfig")
    /\ config' = [config EXCEPT ![Dir(l)] = Nothing]
    /\ UNCHANGED <<wants, dirs, version, whole, copier, source, ran>>

WriteConfig(l) ==
    /\ Goes(l, "writeConfig", "check")
    /\ config' = [config EXCEPT ![Dir(l)] = wants[l]]
    /\ UNCHANGED <<wants, dirs, version, whole, copier, source, ran>>

\* existsSync and the comparison of times.  A missing driver has version 0.
CheckDriver(l) ==
    /\ Goes(l, "check", IF version[Driver(l)] < source THEN "copy" ELSE "ready")
    /\ UNCHANGED <<wants, files, source, ran>>

\* copyFileSync: open and truncate.  Windows refuses while a driver runs from
\* that file; the exception is caught and the old driver stays.
OpenCopy(l) ==
    LET f == Driver(l)
    IN  \/ /\ Goes(l, "copy", "copying")
           /\ version' = [version EXCEPT ![f] = source]
           /\ whole' = [whole EXCEPT ![f] = FALSE]
           /\ copier' = [copier EXCEPT ![f] = l]
           /\ UNCHANGED <<wants, dirs, config, source, ran>>
        \/ /\ Goes(l, "copy", "ready")
           /\ \E k \in Launches : pc[k] = "running" /\ Driver(k) = f
           /\ UNCHANGED <<wants, files, source, ran>>

\* The rest of the copy.  When another has truncated the file since, what it
\* cut off may be missing or not until that one is through.
FinishCopy(l) ==
    LET f == Driver(l)
    IN  /\ Goes(l, "copying", "ready")
        /\ \E all \in BOOLEAN :
              /\ whole[f] \/ copier[f] = l => all
              /\ whole' = [whole EXCEPT ![f] = all]
        /\ UNCHANGED <<wants, dirs, config, version, copier, source, ran>>

Cloning == {"openConfig", "writeConfig", "check", "copy", "copying"}

CloneDriver(l) ==
    \/ FailToChoose(l) \/ CloneCached(l)
    \/ MakeDir(l) \/ OpenConfig(l) \/ WriteConfig(l)
    \/ CheckDriver(l) \/ OpenCopy(l) \/ FinishCopy(l)

-----------------------------------------------------------------------------
\* The debuggee starts the driver, which is read at once.
StartDriver(l) ==
    /\ \/ Goes(l, "ready", "running") /\ whole[Driver(l)] /\ UNCHANGED ran
       \/ /\ Goes(l, "ready", "done") /\ ~whole[Driver(l)]
          /\ ran' = [ran EXCEPT ![l] = Broken]
    /\ UNCHANGED <<wants, files, source>>

\* The driver takes the path from parent.cfg, whosever interpreter that is.
ReadConfig(l) ==
    /\ Goes(l, "running", "done")
    /\ ran' = [ran EXCEPT ![l] = config[Dir(l)]]
    /\ UNCHANGED <<wants, files, source>>

Kill(l) ==
    /\ l \in Killable
    /\ \E from \in Cloning : Goes(l, from, "killed")
    /\ UNCHANGED <<wants, files, source, ran>>

\* The driver in the extension is replaced, though not in the middle of a copy.
Rebuild ==
    /\ source < MaxBuilds
    /\ \A l \in Launches : pc[l] # "copying"
    /\ source' = source + 1
    /\ UNCHANGED <<wants, pc, files, ran>>

Init ==
    /\ wants \in [Launches -> Interpreters \cup {Unset}]
    /\ pc = [l \in Launches |-> "idle"]
    /\ dirs = {}
    /\ config = [d \in Dirs |-> Nothing]
    /\ version = [i \in Interpreters |-> 0]
    /\ whole = [i \in Interpreters |-> FALSE]
    /\ copier = [i \in Interpreters |-> Unset]
    /\ source = 1
    /\ ran = [l \in Launches |-> Unset]

Next ==
    \/ \E l \in Launches :
          CloneDriver(l) \/ StartDriver(l) \/ ReadConfig(l) \/ Kill(l)
    \/ Rebuild

Spec == Init /\ [][Next]_vars

-----------------------------------------------------------------------------
LaunchPc ==
    Cloning \cup {"idle", "failed", "ready", "running", "done", "killed"}

TypeOK ==
    /\ wants \in [Launches -> Interpreters \cup {Unset}]
    /\ pc \in [Launches -> LaunchPc]
    /\ dirs \subseteq Dirs
    /\ config \in [Dirs -> Interpreters \cup {Nothing}]
    /\ version \in [Interpreters -> Nat]
    /\ whole \in [Interpreters -> BOOLEAN]
    /\ copier \in [Interpreters -> Launches \cup {Unset}]
    /\ source \in Nat \ {0}
    /\ ran \in [Launches -> Interpreters \cup {Unset, Nothing, Broken}]

\* Interpreters that have a directory of drivers in common.
Neighbours(i, j) == Place[Base[i]] = Place[Base[j]]

\* A driver comes up cut short or without an interpreter only while another
\* launch is preparing the same directory, or after one was killed in that
\* (python.ts:112-131), or when its interpreter is a driver itself.
BrokenOnlyByOthers ==
    [][\A l \in Launches :
          ran'[l] # ran[l] /\ ran'[l] \in {Nothing, Broken} =>
              \/ Base[wants[l]] \in Cached
              \/ \E k \in Launches \ {l} :
                    /\ wants[k] \in Interpreters
                    /\ Neighbours(wants[k], wants[l])
                    /\ pc[k] \in Cloning \cup {"killed"}]_vars

\* All drivers of one directory run the same interpreter, whichever launch wrote
\* parent.cfg and whatever the others did meanwhile (python.ts:112-114): one
\* some launch asked for that shares the directory, and so the one asked for
\* where no two do.
RunsNeighbourAtMost ==
    \A l \in Launches :
        ran[l] \in Interpreters =>
            /\ Neighbours(ran[l], wants[l])
            /\ \E k \in Launches : wants[k] = ran[l]
            /\ \A k \in Launches :
                  ran[k] \in Interpreters /\ Neighbours(wants[k], wants[l])
                    => ran[k] = ran[l]
=============================================================================
