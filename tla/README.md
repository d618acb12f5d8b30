# A formal model of DeepDebugger

DeepDebugger is a VS Code extension that debugs the children of a debugged
program. A program under the debugger starts its children through a *hook*: a
small program that asks the extension for a debug session for the child and
returns only when that session is over. This directory holds TLA+ models of
that machinery, what TLC checks about them, and what TLAPS proves.

File names below are relative to the repository: `src/deepDebug.ts`,
`src/common.ts` and `src/python.ts` are the extension, `hook.sh`,
`python_driver.sh` and `server.sh` the helpers on POSIX systems, `cpp/` the same
helpers for Windows. The repository has no tests and no design document, so the
models come from the code and its comments.

## The system

```
 debuggee --runs--> hook --JSON--> [launcher queue] --> server.sh
    ^                |  (named pipe, one per launch)        | stdout
    |                |                                      v "start|JSON|end"
    |             waits on                              onMessage (inbox)
    |             its gate                                   | onStart
    |                ^                                       v
    +--- session of  |                             vscode.debug.startDebugging
         the child   +-- "stopped" -- server.sh GATE stopped <-- session ended
```

| Component | State it keeps | Operations | Hard part |
|---|---|---|---|
| Launcher queue: `hook.sh:9-47`, `python_driver.sh:71-86`, `server.sh:71-80` | a named pipe, a lock directory, `LINE` | write a request, read to end-of-file, print | writers overlap; SIGPIPE; kills |
| Launcher server: `server.sh:48-80`, `deepDebug.ts:98-136, 384-451` | the pipe's name in the file system, the server processes | spawn, stop, restart, EXIT trap | names reused; stop signal meets requests; a name that leads nowhere |
| Inbox: `deepDebug.ts:364-382` | the text gathered so far | take a chunk, take a request | chunks cut anywhere; several requests in a chunk |
| Hook gate: `hook.sh:49-60`, `server.sh:48-62` | a named pipe per hook | make, wait, stop, give up after 1 s, remove | session over before the gate exists; timeout against a late hook; pids given out again, with leftovers and sessions of hooks that are gone; the extension blocked meanwhile |
| Session tree: `deepDebug.ts:55-56, 92-106, 169-251, 331-362` | session counter, `sessionDict`, listeners, environments of processes | number a session, look up its parent, record starts and ends | parents not started yet or already over; numbers given out in two places; listeners pile up and all run on one configuration |
| Launch: `activateDeepDebug.ts:37-88`, `deepDebug.ts:138-150, 384-552` | a `Subject` without memory | check, initialize, configurationDone, launch, timeout | both orders; lost notification; launch.json edited or the session stopped meanwhile |
| Lock directories: `lock`/`release_lock` of the scripts, `common.ts:30-49` | a directory | `mkdir -p`, `rm -rf`, `mkdirSync`, `rmdirSync` | no mutual exclusion; un-awaited retries; kills |
| Request decoding: `deepDebug.ts:195-362` | none | decode, strip arguments, find the program, choose a type, number the session | parsing of `--deep-debugger-*` switches; values of several lines; exceptions that are swallowed |
| Python configurations and driver cache: `python.ts` | files in the temporary directory | choose an interpreter, clone the driver | crash between two writes; a directory shared by interpreters |
| Windows programs: `cpp/` | named pipe instances | the same as the scripts | pipe instances; a busy pipe; shared gate names |

What each component must get right, in a line: the queue must not split or
repeat a request; the inbox must not take a tail for a request; a hook must not
return before its session is over, and should return once it is; a server
must keep its pipe and end with its launch; session numbers must be unique and
the tree must show a child below the session that asked for it; a launch must
come about; a lock must keep nobody out for good.

## Modules

| Module | Models | Notes |
|---|---|---|
| `Fifo` | a kernel named pipe, as the scripts use it | external to the repository; opening meets a partner, end-of-file waits for every writer, the last close discards what is left |
| `RequestChannel` | abstract: what the path of a request promises | at most once, only after it was sent whole, garbage possible |
| `BlockingCall` | abstract: what a hook promises its caller | waits, is debugged, returns once the session is over |
| `LauncherQueue` | hooks and the server at the launcher queue | implements `RequestChannel` |
| `Inbox` | `onMessage` and the stream of the server's output | implements `RequestChannel` |
| `HookGate` | hooks, their gates, stoppers and the ends of sessions, those of hooks now gone included | |
| `DeepDebugger` | composition of `Inbox` and `HookGate`, with hooks that send and an extension of one thread | implements `Inbox`, `HookGate`, `RequestChannel`, `BlockingCall` |
| `ServerLifecycle` | launches, servers, stop signals and requests under pipe names | |
| `SessionTree` | ids, environments, `sessionDict`, parents, listeners | |
| `LaunchHandshake` | the debug adapter from initialize to launch | |
| `Launch` | the check of a configuration, the handshake, and what the launch comes to | extends `LaunchHandshake` |
| `AdvisoryLock` | abstract: a mark nobody waits for | |
| `DirLock` | the lock by system call | implements `AdvisoryLock` |
| `WinPipes` | server, hooks, gates and stoppers on Windows named pipes | implements `RequestChannel` |
| `DriverCache` | `cloneDriver` in several windows, and the drivers that start from its copies | |
| `SessionArgs` | arguments, name and directory of a session on their way through driver or hook and `decodeConfig` | |
| `OnStart` | the rest of `onStart`: program, type, environment, `getInterpreter`, `transformConfig` | extends `SessionArgs` |
| `Base64` | `base64::Encode` and `Decode` of the Windows programs | |
| `MC...` | values of the constants for TLC | |
| `LauncherQueueProofs`, `FifoLemmas` | theorems about `LauncherQueue` and `Fifo` | |
| `HookGateProofs` | theorems about `HookGate` | |
| `DeepDebuggerProofs` | theorems about `Inbox` and `DeepDebugger` | |
| `ServerLifecycleProofs` | theorems about `ServerLifecycle` | |
| `LaunchProofs` | theorems about `Launch`, `DriverCache` and `DirLock` | |
| `SessionProofs` | theorems about `SessionTree`, `SessionArgs` and `OnStart` | |
| `WindowsProofs` | theorems about `WinPipes` and `Base64` | |

How state and actions correspond to the code:

* **LauncherQueue.** `hookPc` is the position in `hook.sh:45-47`; `Lock`,
  `OpenQueue`, `Printf` (one per `write(2)`), `CloseQueue`, `ReleaseLock` are its
  steps; `BrokenPipe` is SIGPIPE. `serverPc` is the position in the loop
  `server.sh:71-80`. A request is a set of pieces, and a line the set of pieces
  read together: `JSON.parse` accepts a line exactly when it is all of one
  request and nothing else, and that is all the receiver tells apart. `Busy`
  counts process chains: a hook returns only when its session is over, so one
  chain runs one hook at a time.
* **Inbox.** A position in the server's output is a number of pieces, three to
  a line: all before its end marker, the marker's first bytes, the rest. A
  `Data` event takes `OnMessage` to any later printed position.
* **HookGate.** `path` is what is under the gate's name, `fifo` the pipe itself,
  which outlives its name. `stopperPc` is both the script `server.sh GATE
  stopped` and the extension, which sits in `spawnSync` until the script ends.
  A gate's name holds the hook's pid (`hook.sh:32`). `Earlier` are the sessions
  of killed hooks whose pid was given out again: each goes on like any other, and
  its stopper comes to the gate of its `Heir`, the hook that has the pid now.
  `Misled(h)` says that such a session has ended; then h may return early, as
  it may in the code, and `NoEarlyReturn` says that nothing else does it.
* **DeepDebugger.** `asked` is the set of hooks whose request is in the queue or
  past it, `order` ties the lines of the server's output to hooks. `Receive` is
  `onMessage` and, in the same step, the `onStart` it calls; it waits while
  `stopperPc` says that the extension sits in `spawnSync`. The launcher queue is
  replaced by what `LauncherQueue` implements, a channel that may lose and
  overtake: a request that is never printed is lost. That the server comes to
  print every request of a serial program is what the run `queue` shows
  (`OneChainDelivers`), and what the fairness of `PrintRequest` stands for.
* **ServerLifecycle.** The same for the launcher queue's name, with the servers'
  own loop and EXIT trap. A pipe is identified by the server that made it. A
  request is one piece here; its splitting and merging is LauncherQueue's
  subject. `times` counts how often a request was printed.
* **SessionTree.** `env` is `DEEPDEBUGGER_SESSION_ID` in the environment of a
  process; `owner` is the session the process is really under, which nothing in
  the code knows and the properties compare with. A session that a python driver
  asked for has no parent session, since only `hook.sh:36` sends one.
  `EndSession` is VS Code's report of an end; `OnDidTerminate` is the call of one
  listener, `left` how many are still to be called, all on the one configuration
  whose `hookPipe` the first of them deletes. Until the last has returned the
  extension's thread takes no other event (`Idle`).
* **LaunchHandshake.** An action runs from one `await` to the next; `handled`
  and `answers` are histories.
* **Launch.** `target` is `config.launch`, a name or a command line; `launchJson`
  maps a name to the kind of its configuration, and `checked` remembers what it
  was when `checkLaunchConfig` said yes. `HasInterpreter` is what the chain of
  settings in `makeBinConfig` finds; without one `cloneDriver` throws.
* **DirLock.** `Mkdir` and `Stat` are the two system calls of `mkdir -p`;
  `late` is the set of un-awaited retries of `getLock`.

* **WinPipes.** `queue` is the instance the server listens on or reads, the only
  one a client can reach; `handles` counts it and those the server has not
  closed. `gate` has an instance for each session number that hooks run under,
  since that is what the gate's name is made of. The server's `connect` and the
  hook's `connect` are the places between `CreateNamedPipe` and
  `ConnectNamedPipe`; a client that comes there makes `ConnectNamedPipe` fail
  with ERROR_PIPE_CONNECTED, after which the server hangs up (`cpp/server/
  server.cpp:60-63`) and the hook gives up (`cpp/utils/utils.cpp:249-252`).
  `WriteQueue` goes on to the gate when the write fails, as `send` does not look
  at the result. `stops` is the queue of end events that the extension works off
  one stopper at a time. A request is a set of pieces, and its pieces come in
  one or more calls of `ReadFile`.

* **DriverCache.** An action is a system call of `cloneDriver`. A directory of
  the cache is identified with the directory of the interpreter it is a hash of,
  a driver with the interpreter whose place and name it has. Both are those of
  the path that `getInterpreter` returns, which is `Base`: on Windows the base
  of a virtual environment, so that all its environments share directory and
  driver, while `parent.cfg` names an interpreter of one of them. `version` is
  the version of the driver's source at its copying, so that `version < source`
  is the comparison of modification times. `ran` is what a driver has run.
* **SessionArgs.** Arguments are switches or words. `DriverArg` and `HookArg`
  are turns of the loops in `python_driver.sh:38-53` and `hook.sh:35`,
  `DecodeArg` one of `deepDebug.ts:296-307`, with its second test on what the
  first has moved on to. `RunInterpreter` is the driver's other branch, in which
  it becomes the interpreter (`python_driver.sh:65-69`), with arguments that
  have lost all but their first word or, for a semicolon, gained quotes (`Cut`).
  `WinArgs` is what the programs for Windows do instead: they take all arguments
  as they are, and an empty one makes their encoder overrun its buffers
  (`Overrun`).
* **OnStart.** `stage` is the position in `onStart`, `fate` what it came to:
  "swallowed" is the `catch`, "refused" is `transformConfig`'s false. A file is
  known by where it is, whether `quote` would put quotes around it, and its
  kind; an interpreter by its environment and name, or as a bare name that PATH
  leads to. `ResolveProgram` is `resolveCfgProgram`, for hooks and drivers
  alike: a bare interpreter is not found in the working directory, and then the
  request ends in an exception or comes to a path where there is nothing. The
  environment is the list of lines that `printenv` prints, on Windows of
  variables; the value of a line is its position, so that what the session gets
  can be traced back.

* **Base64.** `EncodeTriple` is a turn of the loop in `cpp/utils/utils.cpp:47`,
  whose bound `in_len - 2` is taken modulo the width of `size_t`. What happens
  beyond the ends of the buffers is undefined; the model stops in `overrun`.

In the other modules a lock is taken in one step that never waits, or left out;
`DirLock` is why: the loop `while ! mkdir -p` goes round only when the
directory vanishes between two system calls, and such a lock implements
`AdvisoryLock`, a mark that anybody sets and anybody clears, which users of the
extension's kind (`Careless`) may even enter without or set when they are gone.

## Runs

| Run | Instance | Shows |
|---|---|---|
| `whole` | 3 hooks, serial or at once, 1 may be killed; chunks cut anywhere or only between markers | framing stays aligned and the way to `onStart` is the channel; each hook is a blocking call; a hook of a serial program returns unless its session goes on, is not started, or it loses a race at its gate |
| `queue` | 3 hooks, 2 writes each, any overlap, 2 may be killed | the queue implements the channel; a request is in at most one line; a line holds half a request only if its hook died; no hook stays blocked in sending; with one process chain every request is printed |
| `gate` | 2 hooks, both may be killed; one may find a leftover gate and has the pid of a killed one whose session goes on | no return before the end of the session, or of the earlier one of that pid; the extension always gets free; nothing is left in the file system but by kills, leftovers and that earlier end; the end of a session that outlasts its hook's way to the gate releases the hook, also after an earlier session has ended there |
| `server` | 2 launches, 2 hooks, four settings of names and timing | servers with names of their own print no request twice; the end of a main session ends its server and leaves no pipe; never two servers read one name |
| `launch` | 2 sessions, 1 name that is edited twice | every launch request is answered, in either order and even when the session was stopped; the launch comes to what its configuration stood for when it was checked, if it still does |
| `handshake_configured` | 1 session | **violated**: see Findings |
| `lock` | 2 shells (1 may be killed) and the extension, 2 visits each | everybody gets in, retries or not; implements `AdvisoryLock`; clean when idle |
| `tree` | 3 sessions, 3 processes, up to 6 listeners, hierarchy on | numbers, dictionary, parents; one stop per end, whichever listeners are told of it |
| `driver` | 3 windows (2 may be killed); 2 interpreters in one directory, 2 environments of one of them as on Windows, 1 interpreter elsewhere, 1 copy of a driver taken for an interpreter; 2 versions of the driver | a driver comes up broken, or without an interpreter, only while another launch prepares the directory or after one died doing so; all drivers of one directory run the same interpreter, one that was asked for in a launch with that directory |
| `request` | all lists of up to 4 arguments, empty ones, switches and words with a blank or a semicolon included, from launcher, debuggee or hook, on POSIX and Windows; all files with up to 2 arguments; all environments of up to 4 lines and all interpreters, bare names included, with no arguments | name, directory, arguments and environment come through, but for the cases that the properties name; exactly the plain programs get a session; the session debugs an interpreter of the environment that was configured, and never one configured by a bare name |
| `base64` | all texts of up to 7 characters with bytes 0, 4, 129, 255 | two or more characters come back from their digits; an argument of one character, or none, overruns the buffers |
| `windows` | 2 hooks under one session or two, 1 may be killed, 2 reads per request, 2 pipe instances | implements the channel; a request whose client found the server listening is printed; a printed line costs an instance and nothing else does; hooks of a session that follow one another never return early, and the end of a session whose hook waits releases it |

**Why the bounds are enough.** Two writes per request distinguish a first, a
torn and a last piece. Three hooks give the patterns that two miss: one writes
while another dies and a third is left with the pipe. In the whole system three
let one be started, one be dropped with it and one come in the next chunk, while
the extension is busy with a stopper or not. Two hooks make the stopper's queue
and let a gate be used while the extension is busy with another, and an earlier
session for one of them lets a stopper come to a gate before, while or after its
own does. The same two suffice on Windows, where a second hook is what can find
an instance taken or a gate of the same name; two instances instead of a hundred
let the server run out of them. Two launches are what a name can be shared by at
a time; a third meets the second as the second met the first. Three windows let
one find what another has left that a third is still at. Seven characters give
two turns of Encode's loop and every rest. Three sessions and processes give a
grandchild, a sibling, and a fork under a session that ended. Four arguments
leave room for a switch with its value, before or after others. Four lines of an
environment hold the session's number, its parent's, and a value of two lines
that looks like either; where the program is found, and what it is, depends on
the arguments only by the working directory, which two of them set. One name
edited twice lets a configuration vanish and come back between check and launch.

**Assumptions.** What the code does not control is either a constant, a
variable that is drawn in `Init` and never changes, or the antecedent of a
property. Every assumption is false in part of the run that uses it, and the
property does not hold without it.

* `OneChain` (LauncherQueue): the debuggee is one process chain and nobody kills
  its hooks. With more chains, requests merge (`IsRequestChannel` allows it as
  garbage) and are lost.
* `cut`, `paced` (Inbox, DeepDebugger): can a chunk end inside `|end`; is the
  debuggee a serial program, one chain of processes whose hooks follow one
  another. With bursts, all but the first request of a chunk are dropped; with
  cut markers, the last request waits for the next. Only `SerialHookReturns`
  assumes anything of them.
* `SessionEndReleasesHook` (HookGate) is about sessions that end only after
  their hook has opened its gate, when no session of an earlier hook of its pid
  is left to end there. Otherwise a hook can be left waiting for good: its
  stopper comes before the gate is made ("nopipe"); or the stopper gives up after
  its second, the hook opens the gate, and the stopper removes the name under
  it ("removed"), or has removed a leftover in whose place the hook then makes a
  new gate. A gate that is removed before the hook opens it lets the hook
  through. `SerialHookReturns` says that it is by these races and no other.
* `Killed` (DeepDebugger): hooks killed when they have sent their request. No
  other process is killed there, and no pid is given out again (`Earlier` and
  `Leftover` are empty in its instance of HookGate).
* `Leftover`, `Earlier`, `Heir` (HookGate): hooks that may find a pipe of an
  earlier process with the same pid; the sessions of such processes, and the hook
  that has the pid now. `NoEarlyReturn` exempts the hooks an earlier session's
  end has come to, `NoResidue` these and the hooks in `Leftover`.
* `LifecycleAssumption` also says that there is a launch and that the marks
  "none", "file" and "stopped" are no launches or hooks; `Base64Assumption`
  that a text's size fits `size_t` with three to spare.
* `Killable`, `Mortal` (DirLock): hooks, launches and users of a lock that may
  be killed.
* `Base` (DriverCache): any map of interpreters to those whose path
  `getInterpreter` gives; the identity but for environments on Windows.
* `setting` (ServerLifecycle), drawn from `Settings`:
  * `quiet`: hooks do not send while a server is being stopped. Without it
    "stopped" may be read together with a request, and the server goes on; or a
    request recreates the name as a regular file.
  * `prompt`: one second is enough for a server to come back to its pipe, so
    the stopper's timeout strikes only when there is no server.
  * `settled`: servers come up, and exit, before the next launch, stop or hook.
    Without it an old server's EXIT trap may remove its successor's pipe.
  * `nameOf`: random names (each launch its own, `OwnNames`) or
    `messageQueueName`.
  `Regular`, prompt and settled, is what all its properties ask for. With it
  `NoRepeat` needs names of one's own or quiet hooks, the others quiet hooks.
* `Unawaited` (DirLock): users whose retries nobody awaits, as the extension's.
* `OneChainEach` (WinPipes): under each session hooks run one after the other
  and nobody kills one. Otherwise a sibling finds its gate's name taken and
  returns early, or gets the stop that was meant for the other.
* `AcceptedIsPrinted` (WinPipes) is about clients that find the server in
  `ConnectNamedPipe`. Earlier ones are hung up on, and those that find no
  instance are turned away without a retry.
* `ArgsRestored`, `LauncherGetsArgs` exclude, on POSIX, empty arguments and,
  through the driver, the program's own `--deep-debugger-log-file`: the loops of
  the scripts end at the one and take out the other with its value. On Windows
  the former excludes empty arguments only, the latter nothing. `LauncherGetsArgs`
  names the arguments that arrive changed on POSIX: those of several words and
  those with a semicolon.
* `EnvironmentRestored` excludes variables that a later line of another value
  looks like.
* `parent` (WinPipes), drawn from `Parents`: the session each hook runs under.
* `Rebuild` (DriverCache): the driver in the extension is not replaced in the
  middle of a copy, which would make an old copy look new.
* `Hierarchy`: the setting `debugSessionsHierarchy`.

**Deadlock** is off where the system really stops: hooks and launches are
finite in every instance.

**Fairness.** The operating system runs every process that can run: weak
fairness of each hook's own steps (`Send`, `HookStep`, `WriteQueue \/
CloseQueue`), of each server (`Serve`, `ServerStep`) and of the stopper. Node runs the handlers of
events it has (`OnTerminate`, `Receiving`, `ExtensionStops`) and timers fire
(`Timeout` in `AdapterStep`).
Nothing is assumed of users and programs: launching, forking, starting a hook,
ending or stopping a session, killing a process, editing launch.json and sending
configurationDone have no fairness.

## Findings

* `handshake_configured`: the comment in `deepDebug.ts:545` says that
  `launchRequest` waits "until configuration has finished (and
  configurationDoneRequest has been called)". The call below it waits for at
  most 1000 ms and does not look at the result, so that a launch may come
  before configurationDone, and after a lost notification it comes a second
  late.

## Proofs

All of these hold for every value of the constants that the named assumption of
the module (`QueueAssumption`, `InboxAssumption`, ...) admits.

* `FifoLemmas`: the operators on pipes preserve the type and do what their
  names say.
* `LauncherQueueProofs`: `TypeCorrect`, `OneLinePerRequest`, `NoTornLines`,
  `QueueIsRequestChannel`. None of these is inductive. The invariant says
  where a request can be: the pieces of a hook that is still writing are all in
  the pipe or in `LINE` (*Together*), the server cannot have seen end-of-file
  while a writer that met it holds the pipe, and pieces in a printed line belong
  to hooks that have let go of the pipe, so no more of them can come. From that
  each line holds all of a request or none of it, kills excepted, and the step
  that prints one maps to a `Deliver` or a `Garbage` of the channel.
* `DeepDebuggerProofs`: `AlwaysAligned`, `AlwaysForward`, `InboxIsRequestChannel`. The
  invariant is the alignment of the gathered text with line starts, and that
  started requests lie below it in increasing order: a chunk that ends in an end
  marker moves the start of the text to the start of a line.
* `HookGateProofs`: `TypeCorrect`, `HookNeverReturnsEarly`,
  `HookLeavesNothing`, for any number of hooks and of earlier sessions. A hook
  leaves its wait only at end-of-file after contact, or because its gate is no
  pipe; the invariant says that contact and a missing gate both come only of a
  stopper for that gate, and a stopper only of the end of a session whose gate it
  is, the hook's own or an earlier one of its pid. For what is left behind, a
  second invariant adds that a session ends once, so that a hook whom no earlier
  session misleads has one stopper, and that whatever lets it go comes of a
  stopper that has opened the gate already or will not open it: it cannot make a
  file under the name later.
* `DeepDebuggerProofs`: `SystemIsInbox`, `SystemIsGate`, and through them
  `SystemAligned`, `SystemIsRequestChannel`; `HooksAreBlockingCalls`. The steps of
  the composition are steps of each part or stutter, so the invariants of the
  parts hold in it; what the composition adds is that a session is past
  "requested" only if its hook has asked, and a hook moves only then. The early
  return that a blocking call forbids is excluded by HookGate's invariant.
* `ServerLifecycleProofs`: `TypeCorrect`, `PrintedOnce`, `NeverTwoReaders`,
  `NothingIsLeft`. There are two reasons why a request is printed once, and each
  has an invariant of its own, which holds of the settings it is about.
  *OwnInv*: when each launch has a name of its own, the name leads to its
  server's pipe from mkfifo until the server exits, since only the stopper of
  the launch and the EXIT trap take it away; so the server's loop never fails to
  open it, and a request is in one place only: its writer, the pipe, `LINE`, or
  printed. *CalmInv*: when names are shared but hooks keep away from stop
  signals, a name leads to the one server that is up under it, a new server
  waits for the end of the old one, and a stopper finds a server with nothing
  else to do, so that "stopped" is read alone. The invariant covers who holds
  each end of the pipe, and what the server is bound to read next: without it
  `NeverTwoReaders` is not inductive, as a server that has read "stopped"
  together with a request stays.
* `LaunchProofs`, about `Launch`: `LaunchTypeCorrect`, `LaunchesAsChecked`. The
  invariant says that an adapter gets nothing before its session was checked,
  and what the check established of a session that passed.
* `LaunchProofs`, about `DriverCache`: `NeverFartherThanNeighbour`,
  `OthersAreToBlame`. The invariant names the launch to blame: a directory
  without parent.cfg has a maker that is still at it or was killed, a driver
  that is cut short was truncated last by one that is still copying or was
  killed. With that a driver that starts broken has another launch beside it.
  *ConfigWrittenOnce* says that only the launch that has made a directory writes
  its parent.cfg, and once; so what any driver has run can be read there ever
  after, and two drivers of a directory have run the same.
* `LaunchProofs`, about `DirLock`: `LockIsLeftClean`, and `LocksAreAdvisory`, the
  refinement of `AdvisoryLock` action by action: `mkdir` and `stat` are the steps
  that enter, a background retry is one that sets the mark from outside.
* `SessionProofs`, about `SessionTree`: `TypeCorrect`, `NumbersUnique`,
  `DictExact`, `ParentRight`, `Nested`, `StopOnce`. The invariant adds that
  numbers given out are below the counter, that the number in the environment of
  a process is that of the session it is under (through forks), and that the
  dictionary maps a number to the session that has it. For `StopOnce` it adds
  that listeners are at work exactly while one session is ending (*Ending*), and
  that a configuration keeps its hookPipe until the first of them has been told,
  and has lost it from the call of stopServer on (*PipeUntilStopped*).
* `SessionProofs`, about `SessionArgs` and `OnStart`, for lists of arguments and
  environments of any length: `ArgsAreRestored`, `LauncherGetsAll`,
  `PlainIsStarted`, `InterpreterIsKept`, `EnvironmentIsRestored`. Each loop of
  the code over a list is a sequence of steps of the model, so that the
  induction is that of the invariant: *ArgsInv* says which part of the list has
  been passed on and which is left, and where the loop of `decodeConfig` stands
  among the switches, whose values it may take for switches in turn. *ConfigInv*
  follows a request through `onStart`. *EnvInv* is about the one step that
  decodes the environment: a line with its number is found again under its name
  unless a later line has that name, whatever the session's and its parent's
  numbers put over it.
* `WindowsProofs`, about `WinPipes`: `LinesCost`, `PipesAreChannel`,
  `HooksNeverReturnEarly`. *QueueInv*: what is in the instance and in the line
  its client wrote there, whom nobody else can be mistaken for as long as the
  instance lasts; so a printed line holds no more than one request, and its
  printing is a `Deliver` or a `Garbage` of the channel.
  *GateInv*, while the hooks of each session follow one another: the gate
  belongs to the hook that waits there, who comes to it comes for that hook, and
  after it nobody is sent there for it again; so the next hook of the session
  does not meet the last one's stopper.
* `WindowsProofs`, about `Base64`: `LongTextsComeBack`. *EncodeInv* says of the
  digits so far, group by group, which three characters they stand for; the
  lemmas on which it rests are the arithmetic of a group (`DigitsOfThree`,
  `CharacterOf`) and of the subtractions that may wrap around (`MinusFacts`).
  A text that is long enough is restored for every width of `size_t`, and a
  shorter one overruns for every width, too.

Every invariant and every action property, refinements included, that a run
checks is thus proved. Only model-checked are the liveness properties, for which
the proof system has no practical rules (`SerialHookReturns`, `SendingEnds`,
`OneChainDelivers`, `ExtensionUnblocked`, both `SessionEndReleasesHook`,
`MainEndStopsServer`, `LaunchAnswered`, `LockerGetsIn`, `AcceptedIsPrinted`), and
the violated `LaunchedConfigured`. Library theorems about induction
take an operator as a parameter, which the provers cannot instantiate; where a
proof needs the greatest element of a finite set of numbers, as the environment
does, it is found by comparing cardinalities instead (`HasMax`). Type
invariants of modules with proofs are proved and not checked again by a run.

## Not modelled

* The text of requests, logging, quoting, file formats: abstracted.
* Failures of mkfifo, mkdir and the temporary directory other than "the name is
  taken"; `kill -9` of the extension host, with which all of its state goes.
* On Windows: restarts of the server under one name, and the exception for a
  missing session number (`cpp/utils/utils.cpp:167`), which is thrown as a
  character pointer and caught as a string, so that it ends the hook.
* A driver that is copied over while a shell still reads it: the script is
  shorter than a shell's buffer.
* Legacy code that nothing calls: `hooks/*.js`, `python_driver0.cpp`,
  `python_driver1.cpp`, `IPlatform.isNode`. `getHook` returns `hook.sh` or
  `hook.exe` for every mode.
* The other ways to run the adapter (`extension.ts:27-40, 53-135`,
  `debugAdapter.ts`): `runMode` is the constant `'inline'`. Registering commands
  and providers: calls into libraries.
* Names, suffixes and separators per platform (`common.ts`), and bundling.
* Restarts of the server inside the composition: `DeepDebugger` is about one
  server, `ServerLifecycle` about several.

`transformConfig` returns false when the first argument is a switch. A request
of the driver always has `--connect` in it, which the python extension puts
before the program's arguments, so `OnStart` reaches that case only for a
launcher whose own arguments hold `--connect`.

## Plan

What would add most from here on:

1. Action properties that the invariants proved here would carry, such as that
   a printed line is never taken back and that a session once over stays so, on
   the modules where a later step could undo them.
2. `SerialHookReturns` without its exception for races at the gate, under a
   bound on how soon a session may end: it would say how long is long enough.
3. A composition of `LauncherQueue` itself with `Inbox`, in place of the channel
   that stands for it in `DeepDebugger`.
