------------------------- MODULE LauncherQueueProofs -------------------------
(***************************************************************************)
(* LauncherQueue for any number of hooks and writes per request, any of    *)
(* the hooks killed at any time: no request reaches the extension in two   *)
(* lines or twice, although nothing excludes the writers.                  *)
(***************************************************************************)
EXTENDS LauncherQueue, FifoLemmas

\* A hook that has finished writing, one way or another.
Done(h) == hookPc[h] \in {"unlock", "sent", "broken", "killed"}

\* The pipe knows who has it open: hooks that print, and the server from open
\* to end-of-file.
EndsMatch ==
    /\ \A h \in Hooks : h \in fifo.writers <=> hookPc[h] = "printf"
    /\ Server \notin fifo.writers
    /\ fifo.readers = IF serverPc \in {"read", "eof"} THEN {Server} ELSE {}

\* Only what a hook has written is anywhere.
OnlyWritten ==
    /\ \A h \in Hooks : hookPc[h] \in {"lock", "open"} => written[h] = 0
    /\ \A h \in Hooks, k \in 1..Parts :
          \/ <<h, k>> \in fifo.data
          \/ <<h, k>> \in line
          \/ \E i \in 1..Len(out) : <<h, k>> \in out[i]
          => k <= written[h]

\* At end-of-file whoever is in the line has finished and has nothing left in
\* the pipe; what comes later belongs to others.
LineClosed ==
    serverPc \in {"eof", "print"} =>
        \A h \in Hooks : Holds(line, h) => Done(h) /\ ~Holds(fifo.data, h)

\* Whoever is in a printed line has finished and is nowhere else.
PrintedClosed ==
    \A h \in Hooks, i \in 1..Len(out) : Holds(out[i], h) =>
        /\ Done(h)
        /\ ~Holds(fifo.data, h)
        /\ serverPc # "open" => ~Holds(line, h)

Inv ==
    /\ TypeOK
    /\ EndsMatch
    /\ OnlyWritten
    /\ LineClosed
    /\ PrintedClosed
    /\ RequestInOneLine

-----------------------------------------------------------------------------
LEMMA HoldsNothing == \A h \in Hooks : ~Holds({}, h)
  BY DEF Holds

LEMMA InitInv == Init => Inv
  <1> SUFFICES ASSUME Init PROVE Inv
    OBVIOUS
  <1> USE QueueAssumption DEF Init
  <1>1. fifo \in FifoType(Hooks \cup {Server}, Pieces)
    BY FifoEmpty
  <1>2. out \in Seq(SUBSET Pieces) /\ line \in SUBSET Pieces
    OBVIOUS
  <1>a. hookPc \in [Hooks -> HookPc]
    BY DEF HookPc
  <1>b. written \in [Hooks -> 0..Parts]
    OBVIOUS
  <1>c. serverPc \in ServerPc
    BY DEF ServerPc
  <1>3. TypeOK
    BY <1>1, <1>2, <1>a, <1>b, <1>c DEF TypeOK
  <1> QED
    BY <1>3, FifoEmpty, HoldsNothing
    DEF Inv, EndsMatch, OnlyWritten, LineClosed, PrintedClosed,
        RequestInOneLine

LEMMA TypeNext == TypeOK /\ [Next]_vars => TypeOK'
  <1> SUFFICES ASSUME TypeOK, [Next]_vars PROVE TypeOK'
    OBVIOUS
  <1> USE QueueAssumption
      DEF TypeOK, HookPc, ServerPc, GoesFrom, hookVars, serverVars
  <1>1. ASSUME NEW h \in Hooks, Lock(h) PROVE TypeOK'
    BY <1>1 DEF Lock
  <1>2. ASSUME NEW h \in Hooks, OpenQueue(h) PROVE TypeOK'
    BY <1>2, FifoOpenForWriting DEF OpenQueue
  <1>3. ASSUME NEW h \in Hooks, Printf(h) PROVE TypeOK'
    <2>1. written[h] + 1 \in 1..Parts /\ <<h, written[h] + 1>> \in Pieces
      BY <1>3 DEF Printf, Pieces
    <2>2. fifo' \in FifoType(Hooks \cup {Server}, Pieces)
      BY <1>3, <2>1, FifoWritePiece DEF Printf
    <2> QED
      BY <1>3, <2>1, <2>2 DEF Printf
  <1>4. ASSUME NEW h \in Hooks, BrokenPipe(h) PROVE TypeOK'
    BY <1>4, FifoCloseEnd DEF BrokenPipe
  <1>5. ASSUME NEW h \in Hooks, CloseQueue(h) PROVE TypeOK'
    BY <1>5, FifoCloseEnd DEF CloseQueue
  <1>6. ASSUME NEW h \in Hooks, ReleaseLock(h) PROVE TypeOK'
    BY <1>6 DEF ReleaseLock
  <1>7. ASSUME NEW h \in Hooks, Kill(h) PROVE TypeOK'
    BY <1>7, FifoCloseEnd DEF Kill
  <1>8. CASE OpenPipe
    BY <1>8, FifoOpenForReading DEF OpenPipe
  <1>9. CASE ReadData
    BY <1>9, FifoFields, FifoTakeAll DEF ReadData
  <1>10. CASE ReadEof
    BY <1>10 DEF ReadEof
  <1>11. CASE ClosePipe
    BY <1>11, FifoCloseEnd DEF ClosePipe
  <1>12. CASE PrintLine
    BY <1>12 DEF PrintLine
  <1>13. CASE UNCHANGED vars
    BY <1>13 DEF vars
  <1> QED
    BY <1>1, <1>2, <1>3, <1>4, <1>5, <1>6, <1>7, <1>8, <1>9, <1>10, <1>11,
       <1>12, <1>13
    DEF Next, Send, Serve

\* What one step of a hook or of the server does to the pipe, in one place.
LEMMA PipeSteps ==
    ASSUME TypeOK
    PROVE  /\ \A h \in Hooks : OpenQueue(h) =>
                /\ fifo'.readers = fifo.readers
                /\ fifo'.writers = fifo.writers \cup {h}
                /\ fifo'.data = fifo.data
           /\ \A h \in Hooks : Printf(h) =>
                /\ fifo'.readers = fifo.readers
                /\ fifo'.writers = fifo.writers
                /\ fifo'.data = fifo.data \cup {<<h, written[h] + 1>>}
           /\ \A h \in Hooks : BrokenPipe(h) \/ CloseQueue(h) \/ Kill(h) =>
                /\ fifo'.readers = fifo.readers \ {h}
                /\ fifo'.writers = fifo.writers \ {h}
                /\ fifo'.data \in {{}, fifo.data}
                /\ fifo'.readers \cup fifo'.writers # {} =>
                      fifo'.data = fifo.data
           /\ OpenPipe =>
                /\ fifo'.readers = fifo.readers \cup {Server}
                /\ fifo'.writers = fifo.writers
                /\ fifo'.data = fifo.data
           /\ ReadData =>
                /\ fifo'.readers = fifo.readers
                /\ fifo'.writers = fifo.writers
                /\ fifo'.data = {}
           /\ ClosePipe =>
                /\ fifo'.readers = fifo.readers \ {Server}
                /\ fifo'.writers = fifo.writers \ {Server}
                /\ fifo'.data \in {{}, fifo.data}
                /\ fifo'.readers \cup fifo'.writers # {} =>
                      fifo'.data = fifo.data
  <1> USE QueueAssumption
  <1>0. fifo \in FifoType(Hooks \cup {Server}, Pieces)
    BY DEF TypeOK
  <1>1. \A p : LET g == CloseEnd(fifo, p) IN
            /\ g.readers = fifo.readers \ {p}
            /\ g.writers = fifo.writers \ {p}
            /\ g.data \in {{}, fifo.data}
            /\ g.readers \cup g.writers # {} => g.data = fifo.data
    BY <1>0, FifoCloseEnd
  <1>2. ASSUME NEW h \in Hooks, OpenQueue(h)
        PROVE  /\ fifo'.readers = fifo.readers
               /\ fifo'.writers = fifo.writers \cup {h}
               /\ fifo'.data = fifo.data
    BY <1>0, <1>2, FifoOpenForWriting DEF OpenQueue
  <1>3. ASSUME NEW h \in Hooks, Printf(h)
        PROVE  /\ fifo'.readers = fifo.readers
               /\ fifo'.writers = fifo.writers
               /\ fifo'.data = fifo.data \cup {<<h, written[h] + 1>>}
    <2>1. <<h, written[h] + 1>> \in Pieces
      BY <1>3 DEF Printf, Pieces, TypeOK
    <2> QED
      BY <1>0, <1>3, <2>1, FifoWritePiece DEF Printf
  <1>4. ASSUME NEW h \in Hooks, BrokenPipe(h) \/ CloseQueue(h) \/ Kill(h)
        PROVE  fifo' = CloseEnd(fifo, h)
    BY <1>4 DEF BrokenPipe, CloseQueue, Kill
  <1>5. ASSUME OpenPipe
        PROVE  /\ fifo'.readers = fifo.readers \cup {Server}
               /\ fifo'.writers = fifo.writers
               /\ fifo'.data = fifo.data
    BY <1>0, <1>5, FifoOpenForReading DEF OpenPipe
  <1>6. ASSUME ReadData
        PROVE  /\ fifo'.readers = fifo.readers
               /\ fifo'.writers = fifo.writers
               /\ fifo'.data = {}
    BY <1>0, <1>6, FifoTakeAll DEF ReadData
  <1>7. ASSUME ClosePipe PROVE fifo' = CloseEnd(fifo, Server)
    BY <1>7 DEF ClosePipe
  <1> QED
    BY <1>1, <1>2, <1>3, <1>4, <1>5, <1>6, <1>7

LEMMA EndsNext == TypeOK /\ EndsMatch /\ [Next]_vars => EndsMatch'
  <1> SUFFICES ASSUME TypeOK, EndsMatch, [Next]_vars PROVE EndsMatch'
    OBVIOUS
  <1> USE QueueAssumption DEF TypeOK, EndsMatch
  <1>1. ASSUME NEW h \in Hooks, Lock(h) \/ ReleaseLock(h) PROVE EndsMatch'
    BY <1>1 DEF Lock, ReleaseLock, GoesFrom, serverVars
  <1>2. ASSUME NEW h \in Hooks, OpenQueue(h) PROVE EndsMatch'
    BY <1>2, PipeSteps DEF OpenQueue, GoesFrom, serverVars
  <1>3. ASSUME NEW h \in Hooks, Printf(h) PROVE EndsMatch'
    BY <1>3, PipeSteps DEF Printf, serverVars
  <1>4. ASSUME NEW h \in Hooks, BrokenPipe(h) \/ CloseQueue(h) \/ Kill(h)
        PROVE  EndsMatch'
    <2>1. /\ fifo'.readers = fifo.readers \ {h}
          /\ fifo'.writers = fifo.writers \ {h}
      BY <1>4, PipeSteps
    <2> QED
      BY <1>4, <2>1 DEF BrokenPipe, CloseQueue, Kill, GoesFrom, serverVars
  <1>5. CASE OpenPipe
    BY <1>5, PipeSteps DEF OpenPipe, hookVars
  <1>6. CASE ReadData
    BY <1>6, PipeSteps DEF ReadData, hookVars
  <1>7. CASE ReadEof
    BY <1>7 DEF ReadEof, hookVars
  <1>8. CASE ClosePipe
    <2>1. /\ fifo'.readers = fifo.readers \ {Server}
          /\ fifo'.writers = fifo.writers \ {Server}
      BY <1>8, PipeSteps
    <2> QED
      BY <1>8, <2>1 DEF ClosePipe, hookVars
  <1>9. CASE PrintLine
    BY <1>9 DEF PrintLine, hookVars
  <1>10. CASE UNCHANGED vars
    BY <1>10 DEF vars
  <1> QED
    BY <1>1, <1>2, <1>3, <1>4, <1>5, <1>6, <1>7, <1>8, <1>9, <1>10
    DEF Next, Send, Serve

\* Nothing written is invented, and writing starts after the open.
LEMMA WrittenNext == TypeOK /\ OnlyWritten /\ [Next]_vars => OnlyWritten'
  <1> SUFFICES ASSUME TypeOK, OnlyWritten, [Next]_vars PROVE OnlyWritten'
    OBVIOUS
  <1> USE QueueAssumption DEF OnlyWritten
  <1>1. ASSUME NEW h \in Hooks, Lock(h) \/ ReleaseLock(h) \/ OpenQueue(h)
        PROVE  OnlyWritten'
    BY <1>1, PipeSteps
    DEF Lock, ReleaseLock, OpenQueue, GoesFrom, serverVars, TypeOK
  <1>2. ASSUME NEW h \in Hooks, Printf(h) PROVE OnlyWritten'
    <2>1. /\ fifo'.data = fifo.data \cup {<<h, written[h] + 1>>}
          /\ UNCHANGED <<line, out, hookPc>>
          /\ hookPc[h] = "printf"
      BY <1>2, PipeSteps DEF Printf, serverVars
    <2>2. /\ written'[h] = written[h] + 1
          /\ \A g \in Hooks : written[g] \in Nat /\ written'[g] >= written[g]
          /\ \A g \in Hooks \ {h} : written'[g] = written[g]
      BY <1>2 DEF Printf, TypeOK
    <2>3. \A g \in Hooks, k \in 1..Parts :
            <<g, k>> \in fifo'.data =>
                <<g, k>> \in fifo.data \/ (g = h /\ k = written[h] + 1)
      BY <2>1
    <2> QED
      BY <2>1, <2>2, <2>3
  <1>3. ASSUME NEW h \in Hooks, BrokenPipe(h) \/ CloseQueue(h) \/ Kill(h)
        PROVE  OnlyWritten'
    BY <1>3, PipeSteps
    DEF BrokenPipe, CloseQueue, Kill, GoesFrom, serverVars, TypeOK
  <1>4. CASE OpenPipe \/ ReadData \/ ReadEof \/ ClosePipe
    BY <1>4, PipeSteps
    DEF OpenPipe, ReadData, ReadEof, ClosePipe, hookVars, TypeOK
  <1>5. CASE PrintLine
    <2>1. out \in Seq(SUBSET Pieces) /\ out' = Append(out, line)
          /\ UNCHANGED <<fifo, line, hookPc, written>>
      BY <1>5 DEF PrintLine, hookVars, TypeOK
    <2>2. Len(out') = Len(out) + 1 /\ out'[Len(out) + 1] = line
          /\ \A i \in 1..Len(out) : out'[i] = out[i]
      BY <2>1 DEF TypeOK
    <2>3. \A i \in 1..Len(out') : i \in 1..Len(out) \/ i = Len(out) + 1
      BY <2>1, <2>2
    <2> QED
      BY <2>1, <2>2, <2>3
  <1>6. CASE UNCHANGED vars
    BY <1>6 DEF vars
  <1> QED
    BY <1>1, <1>2, <1>3, <1>4, <1>5, <1>6 DEF Next, Send, Serve

\* A hook that has finished writes no more and stays finished.
LEMMA DoneStays ==
    ASSUME TypeOK, [Next]_vars, NEW h \in Hooks, Done(h)
    PROVE  Done(h)' /\ (Holds(fifo'.data, h) => Holds(fifo.data, h))
  <1> USE QueueAssumption DEF Done
  <1>0. hookPc \in [Hooks -> HookPc]
    BY DEF TypeOK
  <1>1. ASSUME NEW g \in Hooks, Lock(g) \/ ReleaseLock(g)
        PROVE  Done(h)' /\ fifo' = fifo
    BY <1>0, <1>1 DEF Lock, ReleaseLock, GoesFrom
  <1>2. ASSUME NEW g \in Hooks,
               OpenQueue(g) \/ BrokenPipe(g) \/ CloseQueue(g) \/ Kill(g)
        PROVE  Done(h)' /\ fifo'.data \subseteq fifo.data
    BY <1>0, <1>2, PipeSteps
    DEF OpenQueue, BrokenPipe, CloseQueue, Kill, GoesFrom
  <1>3. ASSUME NEW g \in Hooks, Printf(g)
        PROVE  /\ Done(h)'
               /\ Holds(fifo'.data, h) => Holds(fifo.data, h)
    <2>1. g # h /\ hookPc' = hookPc
      BY <1>3 DEF Printf
    <2>2. fifo'.data = fifo.data \cup {<<g, written[g] + 1>>}
      BY <1>3, PipeSteps
    <2> QED
      BY <2>1, <2>2 DEF Holds
  <1>4. CASE Serve
    <2>1. hookPc' = hookPc /\ fifo'.data \subseteq fifo.data
      BY <1>4, PipeSteps
      DEF Serve, OpenPipe, ReadData, ReadEof, ClosePipe, PrintLine, hookVars
    <2> QED
      BY <2>1 DEF Holds
  <1>5. CASE UNCHANGED vars
    BY <1>5 DEF vars
  <1> QED
    BY <1>1, <1>2, <1>3, <1>4, <1>5 DEF Next, Send, Holds

\* Only PrintLine adds to the output, and only the line it has closed.
LEMMA OutputSteps ==
    ASSUME TypeOK, [Next]_vars
    PROVE  \/ out' = out /\ ~PrintLine
           \/ /\ PrintLine
              /\ Len(out') = Len(out) + 1
              /\ out'[Len(out) + 1] = line
              /\ \A i \in 1..Len(out) : out'[i] = out[i]
  <1>1. CASE PrintLine
    BY <1>1 DEF PrintLine, TypeOK
  <1>2. CASE ~PrintLine
    BY <1>2
    DEF Next, Send, Serve, vars, Lock, OpenQueue, Printf, BrokenPipe,
        CloseQueue, ReleaseLock, Kill, OpenPipe, ReadData, ReadEof, ClosePipe,
        serverVars
  <1> QED
    BY <1>1, <1>2

\* The line under construction changes only while the server reads.
LEMMA LineSteps ==
    ASSUME TypeOK, [Next]_vars
    PROVE  \/ OpenPipe /\ line' = {} /\ serverPc' = "read"
           \/ ReadData /\ serverPc = "read" /\ serverPc' = "read"
              /\ line' = line \cup fifo.data
           \/ ReadEof /\ serverPc = "read" /\ AtEof(fifo) /\ line' = line
           \/ ClosePipe /\ serverPc = "eof" /\ line' = line
           \/ PrintLine /\ serverPc = "print" /\ serverPc' = "open"
              /\ line' = line
           \/ line' = line /\ serverPc' = serverPc
  BY DEF Next, Send, Serve, vars, Lock, OpenQueue, Printf, BrokenPipe,
         CloseQueue, ReleaseLock, Kill, OpenPipe, ReadData, ReadEof, ClosePipe,
         PrintLine, serverVars

LEMMA LineClosedNext == Inv /\ [Next]_vars => LineClosed'
  <1> SUFFICES ASSUME Inv, [Next]_vars, serverPc' \in {"eof", "print"},
                      NEW h \in Hooks, Holds(line', h)
               PROVE  Done(h)' /\ ~Holds(fifo'.data, h)
    BY DEF LineClosed, Holds, Done
  <1> USE QueueAssumption DEF Inv
  <1>1. CASE ReadEof
    <2>1. /\ fifo.data = {} /\ fifo.writers = {}
          /\ line' = line /\ hookPc' = hookPc
          /\ fifo' = fifo
      BY <1>1 DEF ReadEof, AtEof, hookVars
    <2>2. hookPc[h] # "printf"
      BY <2>1 DEF EndsMatch
    <2>3. hookPc[h] \notin {"lock", "open"}
      BY <2>1 DEF Holds, OnlyWritten
    <2> QED
      BY <2>1, <2>2, <2>3, HoldsNothing DEF Done, TypeOK, HookPc
  <1>2. CASE serverPc \in {"eof", "print"} /\ line' = line
    BY <1>2, DoneStays DEF LineClosed
  <1> QED
    BY <1>1, <1>2, LineSteps

LEMMA PrintedClosedNext == Inv /\ [Next]_vars => PrintedClosed'
  <1> SUFFICES ASSUME Inv, [Next]_vars,
                      NEW h \in Hooks, NEW i \in 1..Len(out'), Holds(out'[i], h)
               PROVE  /\ Done(h)'
                      /\ ~Holds(fifo'.data, h)
                      /\ serverPc' # "open" => ~Holds(line', h)
    BY DEF PrintedClosed, Holds, Done
  <1> USE DEF Inv
  <1>1. CASE PrintLine /\ i = Len(out) + 1
    <2>1. Holds(line, h) /\ serverPc = "print" /\ serverPc' = "open"
      BY <1>1, OutputSteps DEF PrintLine
    <2> QED
      BY <2>1, DoneStays DEF LineClosed
  <1>2. CASE i \in 1..Len(out) /\ out'[i] = out[i]
    <2>1. /\ Done(h)
          /\ ~Holds(fifo.data, h)
          /\ serverPc # "open" => ~Holds(line, h)
      BY <1>2 DEF PrintedClosed
    <2>2. Done(h)' /\ ~Holds(fifo'.data, h)
      BY <2>1, DoneStays
    <2>3. serverPc' # "open" => ~Holds(line', h)
      BY <2>1, LineSteps DEF Holds
    <2> QED
      BY <2>2, <2>3
  <1>3. out \in Seq(SUBSET Pieces)
    BY DEF TypeOK
  <1> QED
    BY <1>1, <1>2, <1>3, OutputSteps

LEMMA OneLineNext == Inv /\ [Next]_vars => RequestInOneLine'
  <1> SUFFICES ASSUME Inv, [Next]_vars PROVE RequestInOneLine'
    OBVIOUS
  <1> USE DEF Inv, RequestInOneLine
  <1>0. Len(out) \in Nat
    BY DEF TypeOK
  <1>1. CASE out' = out
    BY <1>1 DEF Holds
  <1>2. CASE /\ PrintLine
             /\ Len(out') = Len(out) + 1
             /\ out'[Len(out) + 1] = line
             /\ \A i \in 1..Len(out) : out'[i] = out[i]
    <2>1. serverPc = "print"
      BY <1>2 DEF PrintLine
    <2>2. ASSUME NEW i \in 1..Len(out), NEW h \in Hooks, Holds(out[i], h)
          PROVE  ~Holds(line, h)
      BY <2>1, <2>2 DEF PrintedClosed
    <2>3. ASSUME NEW i \in 1..Len(out'), NEW j \in 1..Len(out'), i < j,
                 NEW h \in Hooks
          PROVE  ~(Holds(out'[i], h) /\ Holds(out'[j], h))
      <3>1. i \in 1..Len(out) /\ (j \in 1..Len(out) \/ j = Len(out) + 1)
        BY <1>0, <1>2, <2>3
      <3> QED
        BY <1>2, <2>2, <2>3, <3>1
    <2> QED
      BY <2>3
  <1> QED
    BY <1>1, <1>2, OutputSteps

LEMMA NextInv == Inv /\ [Next]_vars => Inv'
  BY TypeNext, EndsNext, WrittenNext, LineClosedNext, PrintedClosedNext,
     OneLineNext
  DEF Inv

\* In every interleaving of hooks, the server and kills (hook.sh:9-47,
\* server.sh:71-80) requests are where Inv says.
THEOREM InvHolds == Spec => []Inv
  BY InitInv, NextInv, PTL DEF Spec

\* Every variable keeps its type, for any hooks and any Parts.
THEOREM TypeCorrect == Spec => []TypeOK
  BY InvHolds, PTL DEF Inv

\* However hooks overlap, and whoever is killed, the bytes of one request leave
\* the server in at most one line (server.sh:71-80).
THEOREM OneLinePerRequest == Spec => []RequestInOneLine
  BY InvHolds, PTL DEF Inv

-----------------------------------------------------------------------------
(* Lines are never torn. *)

\* The pieces of the line under construction: in the pipe, or in LINE already.
Coming == IF serverPc = "read" THEN fifo.data \cup line ELSE fifo.data

\* The server's line once it has seen end-of-file.
Closed == IF serverPc \in {"eof", "print"} THEN line ELSE {}

\* A hook that has printed its request and was not killed.
Sound(h) == hookPc[h] \in {"unlock", "sent"}

WholeIn(S, h) == Holds(S, h) => Request(h) \subseteq S

\* What a hook has printed so far is all in one place.
PrintingTogether ==
    \A h \in Hooks, k \in 1..Parts :
        hookPc[h] = "printf" /\ k <= written[h] => <<h, k>> \in Coming

\* A request that was printed whole stays whole, or is lost whole.
PrintedTogether ==
    \A h \in Hooks : Sound(h) =>
        /\ WholeIn(Coming, h)
        /\ WholeIn(Closed, h)
        /\ \A i \in 1..Len(out) : WholeIn(out[i], h)

Together == PrintingTogether /\ PrintedTogether

LEMMA InitTogether == Init => Together
  BY FifoEmpty, HoldsNothing
  DEF Init, Together, PrintingTogether, PrintedTogether, Sound

LEMMA TogetherNext == Inv /\ Together /\ [Next]_vars => Together'
  <1> SUFFICES ASSUME Inv, Together, [Next]_vars PROVE Together'
    OBVIOUS
  <1> USE QueueAssumption
  <1>0. TypeOK /\ EndsMatch
    BY DEF Inv
  <1>a. hookPc \in [Hooks -> HookPc] /\ out \in Seq(SUBSET Pieces)
        /\ \A h \in Hooks : written[h] \in Nat
    BY <1>0 DEF TypeOK
  \* Steps that leave every place as it is and finish no hook.
  <1>1. ASSUME Coming' = Coming, Closed' = Closed, out' = out,
               \A h \in Hooks : Sound(h)' => Sound(h),
               \A h \in Hooks : hookPc'[h] = "printf" =>
                   \/ written'[h] = 0
                   \/ hookPc[h] = "printf" /\ written'[h] = written[h]
        PROVE  Together'
    <2>1. PrintingTogether'
      BY <1>1 DEF Together, PrintingTogether
    <2>2. PrintedTogether'
      BY <1>1 DEF Together, PrintedTogether, WholeIn, Holds, Request
    <2> QED
      BY <2>1, <2>2 DEF Together
  \* Steps that discard what nobody holds any more.
  <1>2. ASSUME Coming' = {}, Closed' = Closed, out' = out,
               \A h \in Hooks : Sound(h)' => Sound(h),
               \A h \in Hooks : hookPc'[h] # "printf"
        PROVE  Together'
    <2>1. PrintingTogether'
      BY <1>2 DEF PrintingTogether
    <2>2. PrintedTogether'
      BY <1>2 DEF Together, PrintedTogether, WholeIn, Holds, Request
    <2> QED
      BY <2>1, <2>2 DEF Together
  <1>3. ASSUME NEW g \in Hooks, Lock(g) \/ ReleaseLock(g) PROVE Together'
    BY <1>a, <1>1, <1>3
    DEF Lock, ReleaseLock, GoesFrom, serverVars, Coming, Closed, Sound
  <1>4. ASSUME NEW g \in Hooks, OpenQueue(g) PROVE Together'
    <2>1. written[g] = 0
      BY <1>4 DEF OpenQueue, GoesFrom, Inv, OnlyWritten
    <2>2. fifo'.data = fifo.data
      BY <1>0, <1>4, PipeSteps
    <2> QED
      BY <1>a, <1>1, <1>4, <2>1, <2>2
      DEF OpenQueue, GoesFrom, serverVars, Coming, Closed, Sound
  <1>5. ASSUME NEW g \in Hooks, Printf(g) PROVE Together'
    <2>1. fifo'.data = fifo.data \cup {<<g, written[g] + 1>>}
      BY <1>0, <1>5, PipeSteps
    <2>2. /\ hookPc[g] = "printf"
          /\ UNCHANGED <<hookPc, serverPc, line, out>>
          /\ written'[g] = written[g] + 1
          /\ \A h \in Hooks \ {g} : written'[h] = written[h]
      BY <1>0, <1>5 DEF Printf, serverVars, TypeOK
    <2>3. Coming' = Coming \cup {<<g, written[g] + 1>>} /\ Closed' = Closed
      BY <2>1, <2>2 DEF Coming, Closed
    <2>4. PrintingTogether'
      BY <1>a, <2>2, <2>3 DEF Together, PrintingTogether
    <2>5. PrintedTogether'
      BY <2>2, <2>3
      DEF Together, PrintedTogether, WholeIn, Holds, Sound, Request
    <2> QED
      BY <2>4, <2>5 DEF Together
  <1>6. ASSUME NEW g \in Hooks, BrokenPipe(g) \/ CloseQueue(g) \/ Kill(g)
        PROVE  \/ Coming' = Coming /\ Closed' = Closed
               \/ /\ Coming' = {} /\ Closed' = Closed
                  /\ \A h \in Hooks : hookPc'[h] # "printf"
    <2>1. /\ fifo'.readers = fifo.readers \ {g}
          /\ fifo'.writers = fifo.writers \ {g}
          /\ fifo'.data \in {{}, fifo.data}
          /\ fifo'.readers \cup fifo'.writers # {} => fifo'.data = fifo.data
      BY <1>0, <1>6, PipeSteps
    <2>2. UNCHANGED <<serverPc, line>>
      BY <1>6 DEF BrokenPipe, CloseQueue, Kill, serverVars
    <2>3. CASE fifo'.data = fifo.data
      BY <2>2, <2>3 DEF Coming, Closed
    <2>4. CASE fifo'.data = {} /\ fifo'.readers \cup fifo'.writers = {}
      <3>1. EndsMatch'
        BY <1>0, EndsNext
      <3> QED
        BY <2>2, <2>4, <3>1 DEF Coming, Closed, EndsMatch
    <2> QED
      BY <2>1, <2>3, <2>4
  <1>7. ASSUME NEW g \in Hooks, BrokenPipe(g) \/ Kill(g) PROVE Together'
    BY <1>a, <1>1, <1>2, <1>6, <1>7
    DEF BrokenPipe, Kill, GoesFrom, serverVars, Sound
  <1>8. ASSUME NEW g \in Hooks, CloseQueue(g) PROVE Together'
    <2>1. /\ hookPc[g] = "printf" /\ written[g] = Parts
          /\ hookPc' = [hookPc EXCEPT ![g] = "unlock"]
          /\ UNCHANGED <<written, out>>
      BY <1>8 DEF CloseQueue, GoesFrom, serverVars
    <2>2. Request(g) \subseteq Coming
      BY <2>1 DEF Together, PrintingTogether, Request
    <2>3. ~Holds(Closed, g) /\ \A i \in 1..Len(out) : ~Holds(out[i], g)
      BY <2>1, HoldsNothing DEF Inv, LineClosed, PrintedClosed, Done, Closed
    <2>4. \A h \in Hooks : hookPc'[h] = IF h = g THEN "unlock" ELSE hookPc[h]
      BY <1>a, <2>1
    <2>5. PrintingTogether'
      BY <1>6, <1>8, <2>1, <2>4 DEF Together, PrintingTogether
    <2>6. PrintedTogether'
      <3> SUFFICES ASSUME NEW h \in Hooks, Sound(h)'
                   PROVE  /\ WholeIn(Coming', h)
                          /\ WholeIn(Closed', h)
                          /\ \A i \in 1..Len(out) : WholeIn(out[i], h)
        BY <2>1 DEF PrintedTogether, WholeIn, Holds, Request
      <3>1. Coming' \in {Coming, {}} /\ Closed' = Closed
        BY <1>6, <1>8
      <3>2. WholeIn({}, h)
        BY DEF WholeIn, Holds
      <3>3. CASE h = g
        <4>1. WholeIn(Coming, h) /\ WholeIn(Closed, h)
          BY <2>2, <2>3, <3>3 DEF WholeIn
        <4>2. \A i \in 1..Len(out) : WholeIn(out[i], h)
          BY <2>3, <3>3 DEF WholeIn
        <4> QED
          BY <3>1, <3>2, <4>1, <4>2
      <3>4. CASE h # g
        <4>1. Sound(h)
          BY <2>4, <3>4 DEF Sound
        <4>2. /\ WholeIn(Coming, h) /\ WholeIn(Closed, h)
              /\ \A i \in 1..Len(out) : WholeIn(out[i], h)
          BY <4>1 DEF Together, PrintedTogether
        <4> QED
          BY <3>1, <3>2, <4>2
      <3> QED
        BY <3>3, <3>4
    <2> QED
      BY <2>5, <2>6 DEF Together
  <1>9. CASE OpenPipe \/ ReadData
    <2>1. Coming' = Coming /\ Closed' = Closed
      BY <1>0, <1>9, PipeSteps DEF OpenPipe, ReadData, Coming, Closed
    <2> QED
      BY <1>1, <1>9, <2>1 DEF OpenPipe, ReadData, hookVars, Sound
  <1>10. CASE ReadEof
    <2>1. /\ Coming = line /\ Coming' = {} /\ Closed' = line /\ out' = out
          /\ hookPc' = hookPc /\ fifo.writers = {}
      BY <1>10 DEF ReadEof, AtEof, hookVars, Coming, Closed
    <2>2. \A h \in Hooks : hookPc[h] # "printf"
      BY <1>0, <2>1 DEF EndsMatch
    <2> QED
      BY <2>1, <2>2, HoldsNothing
      DEF Together, PrintingTogether, PrintedTogether, WholeIn, Sound, Holds,
          Request
  <1>11. CASE ClosePipe
    <2>1. /\ fifo'.writers = fifo.writers \ {Server}
          /\ fifo'.data \in {{}, fifo.data}
          /\ fifo'.readers \cup fifo'.writers # {} => fifo'.data = fifo.data
      BY <1>0, <1>11, PipeSteps
    <2>2. /\ serverPc = "eof" /\ serverPc' = "print"
          /\ UNCHANGED <<line, out, hookPc, written>>
      BY <1>11 DEF ClosePipe, hookVars
    <2>3. CASE fifo'.data = fifo.data
      BY <1>1, <2>2, <2>3 DEF Coming, Closed, Sound
    <2>4. CASE fifo'.data = {} /\ fifo'.writers = {}
      <3>1. \A h \in Hooks : hookPc[h] # "printf"
        BY <1>0, <2>1, <2>4 DEF EndsMatch
      <3> QED
        BY <1>2, <2>2, <2>4, <3>1 DEF Coming, Closed, Sound
    <2> QED
      BY <2>1, <2>3, <2>4
  <1>12. CASE PrintLine
    <2>1. /\ Coming' = Coming /\ Closed = line /\ Closed' = {}
          /\ UNCHANGED <<hookPc, written>>
      BY <1>12 DEF PrintLine, hookVars, Coming, Closed
    <2>2. PrintingTogether'
      BY <2>1 DEF Together, PrintingTogether
    <2>3. \A i \in 1..Len(out') :
            \/ i \in 1..Len(out) /\ out'[i] = out[i]
            \/ out'[i] = Closed
      BY <1>0, <1>a, <1>12, <2>1, OutputSteps
    <2>4. PrintedTogether'
      BY <2>1, <2>3, HoldsNothing
      DEF Together, PrintedTogether, WholeIn, Sound, Holds, Request
    <2> QED
      BY <2>2, <2>4 DEF Together
  <1>13. CASE UNCHANGED vars
    BY <1>1, <1>13 DEF vars, Coming, Closed, Sound
  <1> QED
    BY <1>3, <1>4, <1>5, <1>7, <1>8, <1>9, <1>10, <1>11, <1>12, <1>13
    DEF Next, Send, Serve

\* A printed line holds all of a request or nothing of it, unless the hook was
\* killed, by SIGPIPE or from outside: overlapping writers alone never tear one.
THEOREM NoTornLines == Spec => []TornOnlyIfKilled
  <1>1. Inv /\ Together => TornOnlyIfKilled
    BY DEF Inv, PrintedClosed, Done, Together, PrintedTogether, Sound, WholeIn,
           TornOnlyIfKilled, Died
  <1> QED
    BY <1>1, InvHolds, InitTogether, TogetherNext, PTL DEF Spec

-----------------------------------------------------------------------------
(* The queue implements the request channel. *)

Writers == {h \in Hooks : written[h] = Parts}

Requests == {Request(h) : h \in Hooks}

LEMMA RequestsDiffer ==
    \A g, h \in Hooks : Request(g) = Request(h) => g = h
  <1> SUFFICES ASSUME NEW g \in Hooks, NEW h \in Hooks, Request(g) = Request(h)
               PROVE  g = h
    OBVIOUS
  <1>1. <<g, 1>> \in Request(g)
    BY QueueAssumption DEF Request
  <1> QED
    BY <1>1 DEF Request

LEMMA ChannelInit == Init => Channel!Init
  BY QueueAssumption DEF Init, Channel!Init

LEMMA ChannelStep == Inv /\ [Next]_vars => [Channel!Next]_Channel!chanVars
  <1> SUFFICES ASSUME Inv, [Next]_vars
               PROVE  [Channel!Next]_Channel!chanVars
    OBVIOUS
  <1> DEFINE Sent == {Request(h) : h \in Writers}
  <1>0. TypeOK /\ \A h \in Hooks : written[h] \in 0..Parts
    BY DEF Inv, TypeOK
  <1>1. ASSUME NEW h \in Hooks, Printf(h)
        PROVE  [Channel!Next]_Channel!chanVars
    <2>1. /\ out' = out
          /\ written[h] < Parts
          /\ written'[h] = written[h] + 1
          /\ \A g \in Hooks \ {h} : written'[g] = written[g]
      BY <1>0, <1>1 DEF Printf, serverVars, TypeOK
    <2>2. CASE written'[h] = Parts
      <3>1. Writers' = Writers \cup {h} /\ h \notin Writers
        BY <1>0, <2>1, <2>2 DEF Writers
      <3>2. Sent' = Sent \cup {Request(h)}
        BY <3>1 DEF Request
      <3>3. Request(h) \in Requests \ Sent
        BY <3>1, RequestsDiffer DEF Requests, Writers
      <3>4. Channel!Send(Request(h))
        BY <2>1, <3>2, <3>3 DEF Channel!Send, Requests, Writers
      <3> QED
        BY <3>3, <3>4 DEF Channel!Next, Requests
    <2>3. CASE written'[h] # Parts
      <3>1. Writers' = Writers
        BY <1>0, <2>1, <2>3 DEF Writers
      <3> QED
        BY <2>1, <3>1 DEF Channel!chanVars, Writers
    <2> QED
      BY <2>2, <2>3
  <1>2. CASE PrintLine
    <2>1. /\ out' = Append(out, line)
          /\ written' = written
          /\ serverPc = "print"
          /\ line \in SUBSET Pieces
      BY <1>0, <1>2 DEF PrintLine, hookVars, TypeOK
    <2>2. ASSUME NEW h \in Hooks, line = Request(h)
          PROVE  Channel!Deliver(line)
      <3>1. <<h, Parts>> \in line /\ Parts \in 1..Parts
        BY <2>2, QueueAssumption DEF Request
      <3>2. written[h] = Parts
        BY <1>0, <3>1 DEF Inv, OnlyWritten
      <3>3. ~Channel!Seen(line)
        <4>1. Holds(line, h)
          BY <3>1 DEF Holds
        <4>2. \A i \in 1..Len(out) : ~Holds(out[i], h)
          BY <2>1, <4>1 DEF Inv, PrintedClosed
        <4>3. DOMAIN out = 1..Len(out)
          BY <1>0 DEF TypeOK
        <4> QED
          BY <4>1, <4>2, <4>3 DEF Channel!Seen
      <3> QED
        BY <2>1, <2>2, <3>2, <3>3 DEF Channel!Deliver
    <2>3. ASSUME line \notin Requests PROVE Channel!Garbage(line)
      BY <2>1, <2>3 DEF Channel!Garbage, Requests
    <2> QED
      BY <2>1, <2>2, <2>3 DEF Channel!Next, Requests
  <1>3. ASSUME written' = written, out' = out
        PROVE  [Channel!Next]_Channel!chanVars
    BY <1>3 DEF Channel!chanVars
  <1> QED
    BY <1>1, <1>2, <1>3
    DEF Next, Send, Serve, vars, Lock, OpenQueue, BrokenPipe, CloseQueue,
        ReleaseLock, Kill, OpenPipe, ReadData, ReadEof, ClosePipe, hookVars,
        serverVars

\* The queue delivers a request at most once, and only if its hook wrote all of
\* it; whatever else comes out is no hook's request.
THEOREM QueueIsRequestChannel == Spec => IsRequestChannel
  BY ChannelInit, ChannelStep, InvHolds, PTL
  DEF Spec, IsRequestChannel, Channel!Spec
=============================================================================
