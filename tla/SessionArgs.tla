----------------------------- MODULE SessionArgs -----------------------------
(***************************************************************************)
(* How the arguments of a program come through to its debug session, and   *)
(* with them the session's name and working directory, which the extension *)
(* appends as switches (python.ts:168-174, deepDebug.ts:421-423), the      *)
(* driver passes on (python_driver.sh:38-69) or the hook sends             *)
(* (hook.sh:35), and decodeConfig takes off again (deepDebug.ts:275-312).  *)
(* The programs for Windows send and pass on all arguments as they are     *)
(* (cpp/python_driver/python_driver.cpp:30-60, cpp/hook/hook.cpp:13).      *)
(* The python extension starts the driver twice: for its launcher, which   *)
(* the driver runs under the interpreter, and for the debuggee, with       *)
(* --connect, for which the driver sends a request.                        *)
(*                                                                         *)
(* Nothing tells the switches of the extension from the program's own      *)
(* arguments but where they stand.  Left out are the quotes that the       *)
(* extension's quote puts around arguments and unquote takes off name and  *)
(* directory, and the expansion of pathnames that the driver's shell does  *)
(* to arguments with a * or ? (python_driver.sh:49, 67).                   *)
(***************************************************************************)
EXTENDS Naturals, SequencesExt

CONSTANTS
    Words,         \* ordinary arguments, of two characters at least
    MaxArgs        \* bound of this model: arguments of the program

ASSUME ArgsAssumption == MaxArgs \in Nat

VARIABLES
    user,          \* the arguments of the program; never changes
    platform,      \* "posix" or "win32"; never changes
    sender,        \* who sends the request; never changes
    stage,         \* where the arguments are
    todo,          \* arguments the sender has not looked at
    args,          \* cmdline, then cfg.args
    at,            \* i + 1 of the loop in decodeConfig
    name,          \* cfg.name
    cwd            \* cfg.cwd

inputs == <<user, platform, sender>>
argsVars == <<inputs, stage, todo, args, at, name, cwd>>

LogSwitch == "--deep-debugger-log-file"
NameSwitch == "--deep-debugger-session-name"
CwdSwitch == "--deep-debugger-session-cwd"
Prefixed == {LogSwitch, NameSwitch, CwdSwitch}

\* Undefined and the empty string, which unquote makes of it
Empty == ""

\* What the python extension puts before the arguments of its program
Connect == "--connect"

\* Arguments of several words; makeBinConfig makes the name one
OwnName == "name (binary extensions)"
TwoWords == "two words"
Spaced == {OwnName, TwoWords}

\* An argument that the driver's quote puts in quotes, which nothing takes off
Semicolon == "one;word"
OwnCwd == "cwd of the configuration"

\* The element at JavaScript's index i - 1
Arg(i) == IF i \in 1..Len(args) THEN args[i] ELSE Empty

Switches == <<CwdSwitch, OwnCwd, NameSwitch, OwnName>>

Holds(s, x) == \E i \in 1..Len(s) : s[i] = x

Pending == todo # <<>> /\ Head(todo) # Empty

Goes(from, to) == stage = from /\ stage' = to

-----------------------------------------------------------------------------
\* Mutant of DriverArg: only one shift for the switch for the log file.
DriverArgShiftOnce ==
    /\ platform = "posix"
    /\ sender \in {"launcher", "debuggee"}
    /\ Goes("send", "send")
    /\ Pending
    /\ todo' = Tail(todo)
    /\ args' = IF Head(todo) = LogSwitch THEN args ELSE Append(args, Head(todo))
    /\ UNCHANGED <<inputs, at, name, cwd>>

\* python_driver.sh takes the switch for the log file out, wherever it is, and
\* stops at an argument that is empty.
DriverArg ==
    /\ platform = "posix"
    /\ sender \in {"launcher", "debuggee"}
    /\ Goes("send", "send")
    /\ Pending
    /\ IF Head(todo) = LogSwitch
         THEN todo' = Tail(Tail(todo)) /\ UNCHANGED args
         ELSE todo' = Tail(todo) /\ args' = Append(args, Head(todo))
    /\ UNCHANGED <<inputs, at, name, cwd>>

\* hook.sh stops there, too.
HookArg ==
    /\ platform = "posix"
    /\ sender = "hook"
    /\ Goes("send", "send")
    /\ Pending
    /\ todo' = Tail(todo)
    /\ args' = Append(args, Head(todo))
    /\ UNCHANGED <<inputs, at, name, cwd>>

\* The programs for Windows take all arguments as they are.
WinArgs ==
    /\ platform = "win32"
    /\ todo # <<>>
    /\ Goes("send", "send")
    /\ todo' = <<>>
    /\ args' = todo
    /\ UNCHANGED <<inputs, at, name, cwd>>

Done == IF platform = "posix" THEN ~Pending ELSE todo = <<>>

SendsRequest == sender = "hook" \/ Holds(args, Connect)

\* On POSIX $(quote $1) sees the first word of an argument, and the quotes it
\* puts around one with a semicolon are not quotes to the shell any more.
Cut(arg) ==
    CASE platform = "posix" /\ arg \in Spaced -> "the first word"
      [] platform = "posix" /\ arg = Semicolon -> "'one;word'"
      [] OTHER -> arg

\* Without --connect the driver becomes the interpreter.
RunInterpreter ==
    /\ Done /\ ~SendsRequest
    /\ Goes("send", "ran")
    /\ args' = [i \in 1..Len(args) |-> Cut(args[i])]
    /\ UNCHANGED <<inputs, todo, at, name, cwd>>

\* The encoder of the Windows programs overruns its buffers when an argument is
\* empty (module Base64).
Overrun ==
    /\ Done /\ SendsRequest /\ Holds(args, Empty)
    /\ Goes("send", "overrun")
    /\ UNCHANGED <<inputs, todo, args, at, name, cwd>>

\* The driver has named the program; of a hook it is the first argument.
SetProgram ==
    /\ Done /\ SendsRequest /\ ~Holds(args, Empty)
    /\ Goes("send", "decode")
    /\ args' = IF sender = "hook" THEN Tail(args) ELSE args
    /\ at' = 2
    /\ UNCHANGED <<inputs, todo, name, cwd>>

\* One turn of the loop.  The second test looks at what the first one may have
\* moved on to.
DecodeArg ==
    /\ Goes("decode", "decode")
    /\ at <= Len(args)
    /\ LET i == IF args[at] = NameSwitch THEN at + 1 ELSE at
           j == IF Arg(i) = CwdSwitch THEN i + 1 ELSE i
       IN  /\ name' = IF i > at THEN Arg(i) ELSE name
           /\ cwd' = IF j > i THEN Arg(j) ELSE cwd
           /\ at' = j + 1
    /\ UNCHANGED <<inputs, todo, args>>

LastIsSwitch(s) == Len(s) > 1 /\ s[Len(s) - 1] \in Prefixed

\* Mutant of StripSwitches: an if for the while.
StripOnce ==
    /\ Goes("decode", "done")
    /\ at > Len(args)
    /\ args' = IF LastIsSwitch(args) THEN SubSeq(args, 1, Len(args) - 2)
                                     ELSE args
    /\ UNCHANGED <<inputs, todo, at, name, cwd>>

\* The arguments that are left when no switch is last but one; then a missing
\* name becomes that of the program.
StripSwitches ==
    /\ Goes("decode", "done")
    /\ at > Len(args)
    /\ \E n \in 0..Len(args) :
          LET rest(k) == SubSeq(args, 1, Len(args) - 2 * k)
          IN  /\ 2 * n <= Len(args)
              /\ \A k \in 0..n - 1 : LastIsSwitch(rest(k))
              /\ ~LastIsSwitch(rest(n))
              /\ args' = rest(n)
    /\ UNCHANGED <<inputs, todo, at, name, cwd>>

Arguments == Words \cup Prefixed \cup {Connect, TwoWords, Semicolon, Empty}

ArgsInit ==
    /\ user \in BoundedSeq(Arguments, MaxArgs)
    /\ platform \in {"posix", "win32"}
    /\ \/ /\ sender \in {"launcher", "debuggee"}
          /\ \E log \in {<<>>, <<LogSwitch, "log">>} :
                todo = (IF sender = "debuggee" THEN <<Connect>> ELSE <<>>)
                         \o user \o Switches \o log
       \/ sender = "hook" /\ todo = <<"program">> \o user
    /\ stage = "send"
    /\ args = <<>> /\ at = 1
    /\ name = Empty /\ cwd = "cwd of the sender"

ArgsNext ==
    \/ DriverArg \/ HookArg \/ WinArgs \/ RunInterpreter \/ Overrun
    \/ SetProgram \/ DecodeArg \/ StripSwitches

ArgsSpec == ArgsInit /\ [][ArgsNext]_argsVars

-----------------------------------------------------------------------------
\* The program's own arguments, and to the python extension --connect is one.
Own == IF sender = "debuggee" THEN <<Connect>> \o user ELSE user

\* Through the driver a session gets back the name and the working directory of
\* its configuration (python.ts:171-174, deepDebug.ts:296-307), and the program
\* its own arguments (deepDebug.ts:309-312), even if these contain switches:
\* the working directory unless the program's last argument is the switch for
\* it, the arguments unless their last but one is a switch.  A hook's program
\* gets its arguments, too.  The launcher is debugged in place of its debuggee
\* only when that has an argument --connect.  An empty argument does harm
\* anywhere, and on POSIX to the driver the switch for the log file.
ArgsRestored ==
    /\ stage = "done"
    /\ ~Holds(user, Empty)
    /\ sender = "hook" \/ ~Holds(user, LogSwitch) \/ platform = "win32"
    =>
    /\ args = Own \/ LastIsSwitch(Own)
    /\ sender # "hook" => /\ name = OwnName
                          /\ cwd = OwnCwd \/ Last(Own) = CwdSwitch
    /\ sender = "launcher" => Holds(user, Connect)

\* The interpreter that the driver becomes gets every argument at its place,
\* on POSIX unchanged those of one word without a semicolon and no others,
\* whatever switches stand around it (python_driver.sh:29-53, 67,
\* python_driver.cpp:43-48).
LauncherGetsArgs ==
    /\ stage = "ran"
    /\ platform = "posix" => ~Holds(user, Empty) /\ ~Holds(user, LogSwitch)
    =>
    LET given == user \o Switches
    IN  /\ platform = "posix" => Len(args) = Len(given)
        /\ \A i \in 1..Len(given) :
              args[i] = given[i] \equiv
                 platform = "win32" \/ given[i] \notin Spaced \cup {Semicolon}
=============================================================================
