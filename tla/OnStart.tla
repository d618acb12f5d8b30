------------------------------- MODULE OnStart -------------------------------
(***************************************************************************)
(* What onStart makes of a request (deepDebug.ts:331-362): after the       *)
(* arguments (module SessionArgs) decodeConfig looks for the program and   *)
(* chooses a type; then the environment is decoded, by transformConfig     *)
(* (python.ts:177-197) for a request of the python driver; and the session *)
(* is started.  Any exception on the way is caught and forgotten, and then *)
(* nothing ever wakes the hook that asked.                                 *)
(*                                                                         *)
(* Files, interpreters and the lines of an environment are drawn at the    *)
(* start.  The value of a line of the environment is its position.         *)
(***************************************************************************)
EXTENDS SessionArgs

CONSTANTS
    MaxVaried,     \* bound of this model: arguments when files vary
    MaxLines       \* bound of this model: lines of an environment

ASSUME OnStartAssumption == MaxVaried \in Nat /\ MaxLines \in Nat

VARIABLES
    file,          \* what a hook's first argument names
    host,          \* process.argv[2] of VS Code's extension host
    python,        \* the interpreter a python configuration asks for
    lines,         \* the environment of the hook or driver, as it sends it
    program,       \* cfg.program
    type,          \* cfg.type
    environ,       \* cfg.environment or cfg.env
    id,            \* cfg.deepDbgSessionID
    launcher,      \* __PYVENV_LAUNCHER__, if transformConfig adds it
    fate           \* what onStart came to

drawn == <<file, host, python, lines>>
config == <<program, type, environ, id, launcher>>
startVars == <<argsVars, drawn, config, fate>>

Files == [place : {"absolute", "here", "PATH"},
          special : BOOLEAN,      \* a character that quote looks for
          kind : {"py", "js", "binary", "shell", "other"}]

\* Interpreters as python.ts tells them apart.  A virtual environment made by
\* venv has a version in its pyvenv.cfg, one made by virtualenv has not.  A bare
\* name has no directory, and the bare "python" is taken for no setting at all
\* (python.ts:140-142).
Pythons ==
    {p \in [in : {"venv", "virtualenv", "elsewhere", "bare"},
            name : {"python", "python3", "python3.8"}] :
        p.in = "bare" => p.name # "python"}

NoName == ""
SessionId == "DEEPDEBUGGER_SESSION_ID"
ParentId == "DEEPDEBUGGER_PARENT_SESSION_ID"
Names == {SessionId, ParentId, "X", NoName}

\* The programs for Windows send a line per variable, some of which have no name
\* there ("=C:").  The scripts send what printenv prints line by line: one
\* that is not whole continues the value of the line above it.
Lines == [name : Names, whole : BOOLEAN]

None == "none"

\* Two variables never have one name.
Printable(s) ==
    /\ \A i, j \in 1..Len(s) :
          s[i].whole /\ s[j].whole /\ s[i].name = s[j].name =>
            i = j \/ s[i].name = NoName
    /\ \A i \in 1..Len(s) :
          IF platform = "win32" THEN s[i].whole
                                ELSE s[i].whole => s[i].name # NoName
    /\ s # <<>> => s[1].whole

-----------------------------------------------------------------------------
(* getInterpreter (python.ts:45-87) *)

\* Mutant of With3: the digit is appended to any name.
With3Always(exe) ==
    CASE exe = "python" -> "python3" [] OTHER -> "no such interpreter"

\* pythonPath += '3', unless it ends with one.
With3(exe) ==
    CASE exe = "python" -> "python3"
      [] exe = "python3" -> "python3"
      [] exe = "python3.8" -> "no such interpreter"
      [] OTHER -> exe

\* The lines home and version of pyvenv.cfg: Windows takes the interpreter from
\* home and starts it through the one of the environment.
GetInterpreter(p) ==
    IF platform = "win32"
      THEN [path |-> IF p.in \in {"venv", "virtualenv"}
                       THEN [p EXCEPT !.in = "elsewhere"] ELSE p,
            launcher |-> {p}]
      ELSE [path |-> IF p.in = "venv" THEN [p EXCEPT !.name = With3(@)] ELSE p,
            launcher |-> {}]

\* What cloneDriver writes to parent.cfg, and the driver sends.
DriverProgram ==
    LET info == GetInterpreter(python)
    IN  IF info.launcher = {} THEN info.path ELSE python

-----------------------------------------------------------------------------
(* decodeConfig, from resolveCfgProgram on *)

\* Mutant of Quoted: the program is quoted with double quotes on Windows, too.
QuotedAnywhere == file.special

\* The first of the arguments was quoted like the others; only the quote of
\* Platform does anything.  A path in quotes is not absolute.
Quoted == file.special /\ platform = "posix"

\* isAbsolute, or existsSync in the working directory, which a switch may have
\* changed, where there is no interpreter.  The driver's program is not quoted.
Found ==
    IF sender = "hook"
      THEN /\ ~Quoted
           /\ \/ file.place = "absolute"
              \/ file.place = "here" /\ cwd = "cwd of the sender"
      ELSE python.in # "bare"

Resolved ==
    IF sender = "hook"
      THEN IF Found THEN "found" ELSE "missing"
      ELSE IF Found THEN DriverProgram
           ELSE [DriverProgram EXCEPT !.in = "missing"]

\* The search in PATH begins with path.dirname(process.argv[2]), an exception
\* without that argument, and if it is ".", looks for PATH with find in what
\* is still a string: another exception.
ResolveProgram ==
    /\ stage = "done" /\ fate = None
    /\ IF Found \/ host = "dir/file"
         THEN /\ stage' = "resolved"
              /\ program' = Resolved
              /\ UNCHANGED fate
         ELSE fate' = "swallowed" /\ UNCHANGED <<stage, program>>
    /\ UNCHANGED <<inputs, todo, args, at, name, cwd, drawn, type,
                   environ, id, launcher>>

\* Windows goes by the extension, POSIX by what file(1) says, which finds a
\* program here without its quotes: a shell takes them off.
Recognized ==
    \/ platform = "win32"
    \/ program = "found"
    \/ Quoted /\ file.place = "here" /\ cwd = "cwd of the sender"

\* setConfigType of DeepDebugSession, which sees the quote at the end of the
\* extension, then that of the platform, which may leave the type empty.
Type ==
    CASE file.kind = "py" /\ ~Quoted -> "python"
      [] file.kind = "js" /\ ~Quoted -> "node"
      [] file.kind = "binary" /\ Recognized -> "binary"
      [] file.kind = "shell" /\ Recognized -> "bashdb"
      [] OTHER -> Empty

\* The driver has named the type.
ChooseType ==
    /\ sender = "hook"
    /\ stage = "resolved" /\ stage' = "typed"
    /\ type' = Type
    /\ UNCHANGED <<inputs, todo, args, at, name, cwd, drawn, program,
                   environ, id, launcher, fate>>

-----------------------------------------------------------------------------
(* decodeEnvironment *)

NewId(k) == MaxLines + k

LinesOf(n) == {i \in 1..Len(lines) : lines[i].name = n}

\* Each line that has a name, at its position; the next number takes the place
\* of the session's.
Decoded ==
    [i \in 1..Len(lines) \ LinesOf(NoName) |->
        [name |-> lines[i].name,
         value |-> IF lines[i].name = SessionId
                     THEN NewId(Cardinality(LinesOf(SessionId) \cap 1..i))
                     ELSE i]]

\* The environment env with the session's number for a parent's at position p.
ParentAt(p, env) ==
    IF LinesOf(SessionId) = {} THEN env
    ELSE [i \in DOMAIN env \cup {p} |->
            IF i = p THEN [name |-> ParentId, value |-> Max(LinesOf(SessionId))]
                     ELSE env[i]]

\* Mutant of WithParent: the parent's number is always put in front.
WithParentInFront(env) == ParentAt(0, env)

\* The number, of the last line with one, becomes the parent's: in the first
\* entry there is, or in a new one.
WithParent(env) ==
    LET parents == LinesOf(ParentId)
    IN  ParentAt(IF parents = {} THEN Len(lines) + 1 ELSE Min(parents), env)

\* The session has the last of its numbers.
SetEnvironment ==
    /\ environ' = WithParent(Decoded)
    /\ id' = IF LinesOf(SessionId) = {} THEN 0
             ELSE NewId(Cardinality(LinesOf(SessionId)))

-----------------------------------------------------------------------------
Binary == IF platform = "win32" THEN "cppvsdbg" ELSE "cppdbg"

\* The default branch of onStart.  startDebugging finds no debugger for an
\* empty type.
StartOther ==
    /\ stage = "typed" /\ stage' = "over"
    /\ SetEnvironment
    /\ type' = IF type = "binary" THEN Binary ELSE type
    /\ fate' = IF type = Empty THEN "untyped" ELSE "started"
    /\ UNCHANGED <<inputs, todo, args, at, name, cwd, drawn, program, launcher>>

\* transformConfig, which refuses when a switch comes first.
TransformConfig ==
    /\ sender # "hook"
    /\ stage = "resolved" /\ stage' = "over"
    /\ IF args # <<>> /\ Head(args) \in Prefixed
         THEN fate' = "refused" /\ UNCHANGED config
         ELSE LET info == GetInterpreter(program)
              IN  /\ program' = info.path
                  /\ launcher' = info.launcher
                  /\ type' = Binary
                  /\ SetEnvironment
                  /\ fate' = "started"
    /\ UNCHANGED <<inputs, todo, args, at, name, cwd, drawn>>

-----------------------------------------------------------------------------
PlainFile == [place |-> "absolute", special |-> FALSE, kind |-> "py"]

InitDrawn ==
    /\ \/ /\ Len(user) <= MaxVaried
          /\ host \in {None, "file", "dir/file"}
          /\ file \in Files
          /\ python = [in |-> "elsewhere", name |-> "python3"]
          /\ lines = <<>>
          /\ sender = "hook"
       \/ /\ user = <<>>
          /\ python \in Pythons
          /\ host \in IF python.in = "bare" THEN {None, "file", "dir/file"}
                                          ELSE {"file"}
          /\ file = PlainFile
          /\ lines \in {s \in BoundedSeq(Lines, MaxLines) : Printable(s)}
       \/ /\ file = PlainFile /\ host = "file"
          /\ python = [in |-> "elsewhere", name |-> "python3"]
          /\ lines = <<>>

StartInit ==
    /\ ArgsInit
    /\ InitDrawn
    /\ program = None /\ type = Empty /\ environ = <<>> /\ id = 0
    /\ launcher = {} /\ fate = None

StartNext ==
    \/ ArgsNext /\ UNCHANGED <<drawn, config, fate>>
    \/ ResolveProgram \/ ChooseType \/ StartOther \/ TransformConfig

StartSpec == StartInit /\ [][StartNext]_startVars

-----------------------------------------------------------------------------
\* Whatever its arguments and its environment, a hook's request comes to a
\* debugger with an existing program if the program has a plain path, is at
\* that path, and is of a kind that setConfigType or file(1) knows; and only
\* then.  Otherwise the hook waits for ever (deepDebug.ts:253-273, 320-324,
\* 359).
StartedIfPlain ==
    sender = "hook" /\ (stage = "over" \/ fate # None) =>
        LET plain == /\ ~(file.special /\ platform = "posix")
                     /\ file.place # "PATH"
                     /\ file.kind # "other"
            started == fate = "started" /\ program = "found"
        IN  started \equiv
              plain /\ (file.place = "here" => cwd = "cwd of the sender")

Effective(n) ==
    LET entries == {i \in DOMAIN environ : environ[i].name = n}
    IN  IF entries = {} THEN 0 ELSE environ[Max(entries)].value

\* The debuggee has its own session's number, even when several lines look like
\* one, every other variable of the hook with its value, or its first line, and
\* the hook's session as parent (deepDebug.ts:209-251): unless a later line of
\* some value of several lines looks like that variable.
EnvironmentRestored ==
    fate \in {"started", "untyped"} =>
        /\ Effective(SessionId) = id
        /\ \A i \in 1..Len(lines) :
               /\ lines[i].whole /\ lines[i].name # NoName
               /\ \A j \in 1..Len(lines) :
                     ~lines[j].whole =>
                       lines[j].name \notin {lines[i].name, SessionId, ParentId}
               =>
               IF lines[i].name = SessionId
                 THEN Effective(ParentId) = i
                 ELSE \/ Effective(lines[i].name) = i
                      \/ lines[i].name = ParentId /\ id # 0

\* getInterpreter is applied twice between a configuration and its session
\* (python.ts:94, 185), and still the session debugs an interpreter of the
\* configured environment: on POSIX one beside it, which exists unless the
\* name of a venv's ends with a minor version; on Windows the one it was made
\* from, started as the configured one.  But an interpreter that PATH leads to
\* is looked for in the working directory in between (deepDebug.ts:253-256): no
\* session ever debugs it, though the driver itself runs it.
InterpreterKept ==
    sender # "hook" /\ fate = "started" =>
        CASE python.in = "bare" -> program.in = "missing" /\ host = "dir/file"
          [] python.in # "bare" /\ platform = "posix" ->
                /\ program.in = python.in
                /\ \/ program.name \in {"python", "python3", "python3.8"}
                   \/ python = [in |-> "venv", name |-> "python3.8"]
          [] python.in # "bare" /\ platform = "win32" ->
                /\ launcher = {python}
                /\ program = [python EXCEPT !.in = "elsewhere"]
=============================================================================
