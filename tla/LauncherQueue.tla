---------------------------- MODULE LauncherQueue ----------------------------
(***************************************************************************)
(* The launcher queue on POSIX systems, while its server runs: hooks write *)
(* debug-session requests to one named pipe (hook.sh:44-47, and with the   *)
(* same code python_driver.sh:83-86), server.sh:71-80 reads the pipe to    *)
(* end-of-file and prints what it read as one line "start|LINE|end".       *)
(*                                                                         *)
(* Nothing in the pipe says where a request ends.  The server takes all    *)
(* that arrives up to end-of-file for one request, so requests stay apart  *)
(* only while their writers do not overlap.  The lock around the write     *)
(* does not keep them apart: "mkdir -p" succeeds on a directory that       *)
(* exists (module DirLock), so Lock below never waits.                     *)
(*                                                                         *)
(* A request is Parts pieces, one per write(2); a line is the set of       *)
(* pieces read together.  JSON.parse in the extension accepts a line       *)
(* exactly when it is the whole request of one hook.                       *)
(***************************************************************************)
EXTENDS Naturals, Sequences, FiniteSets, Fifo

CONSTANTS
    Hooks,       \* hook processes, one request each
    Server,      \* the process running server.sh
    Parts,       \* write(2) calls per request
    Killable     \* hooks somebody may kill (Ctrl-C in their terminal)

ASSUME QueueAssumption ==
    /\ Server \notin Hooks
    /\ Parts \in Nat \ {0}
    /\ Killable \subseteq Hooks

VARIABLES
    fifo,        \* the pipe DEEPDEBUGGER_LAUNCHER_QUEUE
    lockDir,     \* does the directory PIPE.lock exist
    hookPc,      \* where each hook is in hook.sh:45-47
    written,     \* pieces each hook has written
    serverPc,    \* where server.sh is in its loop
    line,        \* the shell variable LINE
    out          \* the lines printed to the extension, in order

vars == <<fifo, lockDir, hookPc, written, serverPc, line, out>>
hookVars == <<lockDir, hookPc, written>>
serverVars == <<serverPc, line, out>>

HookPc == {"lock", "open", "printf", "unlock", "sent", "broken", "killed"}
ServerPc == {"open", "read", "eof", "print"}

\* The JSON object a hook builds from its type, cwd, command line, parent
\* session, hook pipe and environment.
Request(h) == {h} \X (1..Parts)

Pieces == Hooks \X (1..Parts)

Holds(S, h) == \E i \in 1..Parts : <<h, i>> \in S

Answered(h) == \E i \in 1..Len(out) : out[i] = Request(h)

\* The hook did not get to the end of sending: SIGPIPE, or somebody's kill.
Died(h) == hookPc[h] \in {"broken", "killed"}

GoesFrom(h, from, to) ==
    /\ hookPc[h] = from
    /\ hookPc' = [hookPc EXCEPT ![h] = to]

-----------------------------------------------------------------------------
(* The hook *)

\* lock "${DEEPDEBUGGER_LAUNCHER_QUEUE}": makes the directory or finds it.
Lock(h) ==
    /\ GoesFrom(h, "lock", "open")
    /\ lockDir' = TRUE
    /\ UNCHANGED <<fifo, written>> /\ UNCHANGED serverVars

\* The redirection of printf opens the pipe; it returns when h is in fifo.met.
OpenQueue(h) ==
    /\ GoesFrom(h, "open", "printf")
    /\ fifo' = OpenForWriting(fifo, h)
    /\ UNCHANGED <<lockDir, written>> /\ UNCHANGED serverVars

Printf(h) ==
    /\ hookPc[h] = "printf"
    /\ h \in fifo.met
    /\ written[h] < Parts
    /\ fifo.readers # {}
    /\ fifo' = WritePiece(fifo, <<h, written[h] + 1>>)
    /\ written' = [written EXCEPT ![h] = @ + 1]
    /\ UNCHANGED <<lockDir, hookPc>> /\ UNCHANGED serverVars

\* Writing to a pipe nobody reads kills the shell with SIGPIPE, before it
\* releases the lock.
BrokenPipe(h) ==
    /\ h \in fifo.met
    /\ written[h] < Parts
    /\ fifo.readers = {}
    /\ GoesFrom(h, "printf", "broken")
    /\ fifo' = CloseEnd(fifo, h)
    /\ UNCHANGED <<lockDir, written>> /\ UNCHANGED serverVars

\* Mutant of CloseQueue: the hook goes on with the pipe open.
CloseQueueLater(h) ==
    /\ written[h] = Parts
    /\ GoesFrom(h, "printf", "unlock")
    /\ UNCHANGED <<fifo, lockDir, written>> /\ UNCHANGED serverVars

CloseQueue(h) ==
    /\ written[h] = Parts
    /\ GoesFrom(h, "printf", "unlock")
    /\ fifo' = CloseEnd(fifo, h)
    /\ UNCHANGED <<lockDir, written>> /\ UNCHANGED serverVars

\* rm -rf "${DEEPDEBUGGER_LAUNCHER_QUEUE}".lock, whoever made it.
ReleaseLock(h) ==
    /\ GoesFrom(h, "unlock", "sent")
    /\ lockDir' = FALSE
    /\ UNCHANGED <<fifo, written>> /\ UNCHANGED serverVars

\* The process is killed from outside in the middle of sending.
Kill(h) ==
    /\ h \in Killable
    /\ \E from \in {"open", "printf", "unlock"} : GoesFrom(h, from, "killed")
    /\ fifo' = CloseEnd(fifo, h)
    /\ UNCHANGED <<lockDir, written>> /\ UNCHANGED serverVars

-----------------------------------------------------------------------------
(* The server: read -r LINE < "${PIPE}"; printf "start|${LINE}|end" *)

\* Mutant of OpenPipe: LINE is appended to.
OpenPipeKeepsLine ==
    /\ serverPc = "open"
    /\ serverPc' = "read"
    /\ fifo' = OpenForReading(fifo, Server)
    /\ UNCHANGED <<line, out>> /\ UNCHANGED hookVars

\* The redirection opens the pipe; read assigns LINE anew.
OpenPipe ==
    /\ serverPc = "open"
    /\ serverPc' = "read"
    /\ fifo' = OpenForReading(fifo, Server)
    /\ line' = {}
    /\ UNCHANGED out /\ UNCHANGED hookVars

ReadData ==
    /\ serverPc = "read"
    /\ Server \in fifo.met
    /\ fifo.data # {}
    /\ line' = line \cup fifo.data
    /\ fifo' = TakeAll(fifo)
    /\ UNCHANGED <<serverPc, out>> /\ UNCHANGED hookVars

\* Mutant of ReadEof: one read(2) is taken for the whole request.
ReadOnce ==
    /\ serverPc = "read"
    /\ Server \in fifo.met
    /\ line # {} \/ AtEof(fifo)
    /\ serverPc' = "eof"
    /\ UNCHANGED <<fifo, line, out>> /\ UNCHANGED hookVars

\* A request carries no newline, so read goes on to end-of-file.
ReadEof ==
    /\ serverPc = "read"
    /\ Server \in fifo.met
    /\ AtEof(fifo)
    /\ serverPc' = "eof"
    /\ UNCHANGED <<fifo, line, out>> /\ UNCHANGED hookVars

\* End of the redirection: whoever opened the pipe since end-of-file is left
\* without a reader.
ClosePipe ==
    /\ serverPc = "eof"
    /\ serverPc' = "print"
    /\ fifo' = CloseEnd(fifo, Server)
    /\ UNCHANGED <<line, out>> /\ UNCHANGED hookVars

\* Mutant of PrintLine: the loop ends after every line.
PrintAndBreak ==
    /\ serverPc = "print"
    /\ serverPc' = "stopped"
    /\ out' = Append(out, line)
    /\ UNCHANGED <<fifo, line>> /\ UNCHANGED hookVars

PrintLine ==
    /\ serverPc = "print"
    /\ serverPc' = "open"
    /\ out' = Append(out, line)
    /\ UNCHANGED <<fifo, line>> /\ UNCHANGED hookVars

-----------------------------------------------------------------------------
Init ==
    /\ fifo = EmptyFifo
    /\ lockDir = FALSE
    /\ hookPc = [h \in Hooks |-> "lock"]
    /\ written = [h \in Hooks |-> 0]
    /\ serverPc = "open"
    /\ line = {}
    /\ out = <<>>

Send(h) ==
    \/ OpenQueue(h) \/ Printf(h) \/ BrokenPipe(h) \/ CloseQueue(h)
    \/ ReleaseLock(h)

Serve == OpenPipe \/ ReadData \/ ReadEof \/ ClosePipe \/ PrintLine

Next == (\E h \in Hooks : Lock(h) \/ Send(h) \/ Kill(h)) \/ Serve

Spec == Init /\ [][Next]_vars

\* The operating system runs every process that can run.  Whether the
\* debuggee starts a hook, or somebody kills one, is up to them.
FairSpec ==
    /\ Spec
    /\ \A h \in Hooks : WF_vars(Send(h))
    /\ WF_vars(Serve)

-----------------------------------------------------------------------------
TypeOK ==
    /\ fifo \in FifoType(Hooks \cup {Server}, Pieces)
    /\ lockDir \in BOOLEAN
    /\ hookPc \in [Hooks -> HookPc]
    /\ written \in [Hooks -> 0..Parts]
    /\ serverPc \in ServerPc
    /\ line \in SUBSET Pieces
    /\ out \in Seq(SUBSET Pieces)

\* The queue is a channel that delivers a request at most once and only after
\* the hook wrote all of it; everything else that reaches the extension is
\* garbage JSON.parse rejects (deepDebug.ts:333-361 drops it).
Channel == INSTANCE RequestChannel WITH
    Messages <- SUBSET Pieces,
    Requests <- {Request(h) : h \in Hooks},
    sent <- {Request(h) : h \in {g \in Hooks : written[g] = Parts}},
    got <- out

IsRequestChannel == Channel!Spec

\* No request is spread over two lines or printed twice: whatever the hooks
\* and the server interleave, the pieces of one request leave the server in at
\* most one line (server.sh:73 reads up to end-of-file, and end-of-file
\* waits for every writer).
RequestInOneLine ==
    \A i, j \in 1..Len(out) : i # j =>
        \A h \in Hooks : ~(Holds(out[i], h) /\ Holds(out[j], h))

\* A line never holds a part of a request without the rest, unless the hook
\* died while it wrote: lines are spoilt by merging, not by tearing.
TornOnlyIfKilled ==
    \A i \in 1..Len(out), h \in Hooks :
        Holds(out[i], h) => Request(h) \subseteq out[i] \/ Died(h)

\* A hook that started to send gets through, or dies: no mixture of writers
\* leaves one blocked in open or write while the server runs.
SendingEnds ==
    \A h \in Hooks : hookPc[h] = "open" ~> (hookPc[h] = "sent" \/ Died(h))

\* Hooks whose process chain is blocked: a hook returns only when the session
\* it asked for is over, so a chain runs its next hook after the request of
\* the previous one came through.
Busy == {h \in Hooks : hookPc[h] # "lock" /\ ~Answered(h)}

\* The debuggee is one process chain, and nobody kills its hooks.
OneChain ==
    /\ Cardinality(Busy) <= 1
    /\ \A h \in Hooks : hookPc[h] # "killed"

\* With one process chain every request is printed whole, although nothing
\* excludes anything and the pipe may be closed under a writer: the next hook
\* waits for the session of the one before it.
OneChainDelivers ==
    []OneChain => \A h \in Hooks : hookPc[h] = "open" ~> Answered(h)
=============================================================================
