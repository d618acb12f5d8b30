-------------------------- MODULE DeepDebuggerProofs --------------------------
(***************************************************************************)
(* The whole way of a hook, for any number of hooks: the composition       *)
(* implements its parts, so that what is proved of the inbox and of the    *)
(* gates holds of it, and through both the abstract blocking call.         *)
(*                                                                         *)
(* The proof needs of the parts that onMessage takes only lines the server *)
(* has begun to print, which name the hook to start a session for, and     *)
(* that a hook past its gate belongs to a session that is over.            *)
(***************************************************************************)
EXTENDS DeepDebugger, TLAPS

GateProofs == INSTANCE HookGateProofs WITH
    Killable <- {}, Leftover <- {}, Earlier <- {}, Heir <- [e \in {} |-> e]

-----------------------------------------------------------------------------
(* The inbox alone, for any way of cutting the stream into chunks: it      *)
(* never loses its alignment with the lines, and calls onStart only        *)
(* forward and only for what has arrived.                                  *)

TypeOK ==
    /\ printed \in 0..(LinePieces * MaxLines)
    /\ received \in 0..printed
    /\ responce \in 0..received
    /\ started \in Seq(Lines)
    /\ cut \in BOOLEAN
    /\ paced \in BOOLEAN

\* onStart is called with requests in the order they were printed, each at most
\* once and only when all of it has arrived.
OnlyForward ==
    /\ \A i, j \in 1..Len(started) : i < j => started[i] < started[j]
    /\ \A i \in 1..Len(started) : started[i] + LinePieces <= responce

Inv == TypeOK /\ FrameAligned /\ OnlyForward

LEMMA InitInv == Init => Inv
  BY InboxAssumption
  DEF Init, Inv, TypeOK, FrameAligned, OnlyForward, AtLineStart, LinePieces

\* Two line starts are at least a line apart.
LEMMA LineStartsApart ==
    ASSUME NEW from \in Nat, NEW to \in Nat,
           AtLineStart(from), AtLineStart(to), from < to
    PROVE  from + LinePieces <= to
  BY DEF AtLineStart, LinePieces

LEMMA LineStartIsLine ==
    ASSUME NEW pos \in Nat, AtLineStart(pos),
           pos + LinePieces <= LinePieces * MaxLines
    PROVE  pos \in Lines
  <1>1. PICK k \in Nat : pos = 3 * k
    BY DEF AtLineStart, LinePieces
  <1>2. k + 1 \in 1..MaxLines /\ pos = 3 * ((k + 1) - 1)
    BY <1>1, InboxAssumption DEF LinePieces
  <1> QED
    BY <1>2 DEF Lines, LinePieces

\* What a chunk that ends a line does to the gathered text and to onStart.
LEMMA TakeKeepsInv ==
    ASSUME Inv, NEW to \in 1..printed, received < to, AtLineStart(to), Take(to)
    PROVE  /\ responce' = to
           /\ responce \in Lines
           /\ responce + LinePieces <= to
           /\ started' = Append(started, responce)
           /\ \A i \in 1..Len(started) : started[i] + LinePieces <= responce
  <1> USE InboxAssumption DEF Inv, TypeOK
  <1>1. AtLineStart(responce)
    BY DEF FrameAligned
  <1>2. responce \in Nat /\ to \in Nat /\ responce < to
    OBVIOUS
  <1>3. responce + LinePieces <= to
    BY <1>1, <1>2, LineStartsApart
  <1>4. responce + LinePieces <= LinePieces * MaxLines
    BY <1>2, <1>3 DEF LinePieces
  <1> QED
    BY <1>1, <1>2, <1>3, <1>4, LineStartIsLine DEF Take, OnlyForward

LEMMA NextInv == Inv /\ [Next]_vars => Inv'
  <1> SUFFICES ASSUME Inv, [Next]_vars PROVE Inv'
    OBVIOUS
  <1> USE InboxAssumption DEF Inv
  <1>1. CASE PrintLine
    BY <1>1
    DEF PrintLine, drawn, TypeOK, FrameAligned, OnlyForward, AtLineStart,
        LinePieces
  <1>2. ASSUME NEW to \in 1..printed, OnMessage(to)
        PROVE  Inv'
    <2>1. CASE EndsWithMarker(received, to)
      <3>1. received < to /\ received' = to /\ printed' = printed
            /\ AtLineStart(to) /\ Take(to)
            /\ cut' = cut /\ paced' = paced
        BY <1>2, <2>1 DEF OnMessage, EndsWithMarker, drawn
      <3>2. /\ responce' = to
            /\ responce \in Lines
            /\ responce + LinePieces <= to
            /\ started' = Append(started, responce)
            /\ \A i \in 1..Len(started) : started[i] + LinePieces <= responce
        BY <3>1, TakeKeepsInv
      <3>3. started \in Seq(Lines) /\ started' \in Seq(Lines)
        BY <3>2 DEF TypeOK
      <3>4. TypeOK' /\ FrameAligned'
        BY <3>1, <3>2, <3>3 DEF TypeOK, FrameAligned, AtLineStart
      <3>5. Lines \subseteq Int
        BY DEF Lines, LinePieces
      <3>6. /\ Len(started') = Len(started) + 1
            /\ started'[Len(started')] = responce
            /\ \A i \in 1..Len(started) : started'[i] = started[i]
        BY <3>2, <3>3
      <3>7. \A i \in 1..Len(started) : started[i] \in Lines
        BY <3>3
      <3>8. responce \in Int /\ \A i \in 1..Len(started) : started[i] \in Int
        BY <3>2, <3>5, <3>7
      <3>9. \A i \in 1..Len(started) : started[i] < responce
        BY <3>2, <3>8 DEF LinePieces
      <3>10. \A i, j \in 1..Len(started') : i < j => started'[i] < started'[j]
        BY <3>3, <3>6, <3>9 DEF OnlyForward
      <3>11. \A i \in 1..Len(started') : started'[i] + LinePieces <= responce'
        BY <3>2, <3>3, <3>6, <3>8 DEF LinePieces
      <3> QED
        BY <3>4, <3>10, <3>11 DEF OnlyForward
    <2>2. CASE ~EndsWithMarker(received, to)
      BY <1>2, <2>2
      DEF OnMessage, drawn, TypeOK, FrameAligned, OnlyForward, AtLineStart
    <2> QED
      BY <2>1, <2>2
  <1>3. CASE UNCHANGED vars
    BY <1>3 DEF vars, drawn, TypeOK, FrameAligned, OnlyForward, AtLineStart
  <1> QED
    BY <1>1, <1>2, <1>3 DEF Next, Data

\* Inv holds in every reachable state.
THEOREM InvHolds == Spec => []Inv
  BY InitInv, NextInv, PTL DEF Spec

\* However node cuts the server's output into chunks, the text gathered in
\* responce starts with the start of a request (deepDebug.ts:366-373).
THEOREM AlwaysAligned == Spec => []FrameAligned
  BY InvHolds, PTL DEF Inv

\* onStart gets requests in the order they were printed, each at most once and
\* complete (deepDebug.ts:372-378).
THEOREM AlwaysForward == Spec => []OnlyForward
  BY InvHolds, PTL DEF Inv

-----------------------------------------------------------------------------
(* The inbox is half of the request channel *)

LEMMA ChannelInit == Init => Channel!Init
  BY InboxAssumption
  DEF Init, Channel!Init, Lines, IsPrinted, LinePieces

LEMMA ChannelStep == Inv /\ [Next]_vars => [Channel!Next]_Channel!chanVars
  <1> SUFFICES ASSUME Inv, [Next]_vars
               PROVE  [Channel!Next]_Channel!chanVars
    OBVIOUS
  <1> USE InboxAssumption DEF Inv, TypeOK
  <1> DEFINE Sent == {ln \in Lines : IsPrinted(ln)}
  <1>1. CASE PrintLine
    <2>1. started' = started
      BY <1>1 DEF PrintLine
    <2>2. \A ln \in Lines : ln \in Int /\ ln % 3 = 0
      BY DEF Lines, LinePieces
    <2>3. \A m, n \in Lines :
            m \in Sent' \ Sent /\ n \in Sent' \ Sent => m = n
      BY <1>1, <2>2 DEF PrintLine, IsPrinted, LinePieces
    <2>4. Sent \subseteq Sent'
      BY <1>1, <2>2 DEF PrintLine, IsPrinted, LinePieces
    <2>5. CASE Sent' = Sent
      BY <2>1, <2>5 DEF Channel!chanVars
    <2>6. CASE Sent' # Sent
      <3>1. PICK ln \in Lines : ln \in Sent' \ Sent
        BY <2>4, <2>6
      <3>2. Sent' = Sent \cup {ln}
        BY <2>3, <2>4, <3>1
      <3>3. Channel!Send(ln)
        BY <2>1, <3>1, <3>2 DEF Channel!Send
      <3> QED
        BY <3>3 DEF Channel!Next
    <2> QED
      BY <2>5, <2>6
  <1>2. ASSUME NEW to \in 1..printed, OnMessage(to)
        PROVE  [Channel!Next]_Channel!chanVars
    <2>0. Sent' = Sent
      BY <1>2 DEF OnMessage, IsPrinted, Lines
    <2>1. CASE EndsWithMarker(received, to)
      <3>1. received < to /\ AtLineStart(to) /\ Take(to)
        BY <1>2, <2>1 DEF OnMessage, EndsWithMarker
      <3>2. /\ responce \in Lines
            /\ responce + LinePieces <= to
            /\ started' = Append(started, responce)
            /\ \A i \in 1..Len(started) : started[i] + LinePieces <= responce
        BY <3>1, TakeKeepsInv
      <3>3. responce \in Sent
        BY <3>2 DEF IsPrinted, LinePieces
      <3>4. ~Channel!Seen(responce)
        BY <3>2 DEF Channel!Seen, LinePieces
      <3>5. Channel!Deliver(responce)
        BY <2>0, <3>2, <3>3, <3>4 DEF Channel!Deliver
      <3> QED
        BY <3>2, <3>5 DEF Channel!Next
    <2>2. CASE ~EndsWithMarker(received, to)
      BY <1>2, <2>0, <2>2 DEF OnMessage, Channel!chanVars
    <2> QED
      BY <2>1, <2>2
  <1>3. CASE UNCHANGED vars
    BY <1>3 DEF vars, drawn, Channel!chanVars, Lines, IsPrinted
  <1> QED
    BY <1>1, <1>2, <1>3 DEF Next, Data

\* The inbox loses requests (one chunk may carry several) but never repeats,
\* invents or truncates one: it implements the request channel.
THEOREM InboxIsRequestChannel == Spec => IsRequestChannel
  BY ChannelInit, ChannelStep, InvHolds, PTL
  DEF Spec, IsRequestChannel, Channel!Spec

-----------------------------------------------------------------------------
(* The whole system *)

\* The printed lines are those of hooks that have asked.
PrintedForAsked ==
    /\ asked \subseteq Hooks
    /\ order \in Seq(Hooks)
    /\ \A i \in 1..Len(order) : order[i] \in asked
    /\ printed <= LinePieces * Len(order)

\* Nothing happens to a hook that has not asked.
QuietBeforeAsked ==
    \A h \in Hooks \ asked : hookPc[h] = "sent" /\ session[h] = "requested"

SystemInv ==
    /\ Inv
    /\ GateProofs!Inv
    /\ PrintedForAsked
    /\ QuietBeforeAsked

-----------------------------------------------------------------------------
(* The composition implements its parts *)

LEMMA InitInbox == SystemInit => Init
  BY DEF SystemInit

LEMMA StepInbox == [SystemNext]_systemVars => [Next]_vars
  <1> SUFFICES ASSUME [SystemNext]_systemVars PROVE [Next]_vars
    OBVIOUS
  <1>1. CASE PrintRequest
    BY <1>1 DEF PrintRequest, Next
  <1>2. ASSUME NEW to \in 1..printed, Receive(to) PROVE [Next]_vars
    BY <1>2 DEF Receive, Next, Data
  <1> QED
    BY <1>1, <1>2
    DEF SystemNext, systemVars, Receiving, ExtensionStops, StopperStep,
        SendRequest, HookStep, SessionEnds

\* When a request is started, its line names a hook that has asked.
LEMMA StartedHasAsked ==
    ASSUME Inv, PrintedForAsked, NEW to \in 1..printed, OnMessage(to),
           started' # started
    PROVE  HookOf(responce) \in asked /\ HookOf(responce) \in Hooks
  <1> USE DEF Inv, TypeOK, LinePieces
  <1>1. received < to
    BY DEF OnMessage
  <1>2. responce \in Nat /\ responce < printed
    BY <1>1, InboxAssumption
  <1>3. Len(order) \in Nat /\ responce < 3 * Len(order)
    BY <1>2, InboxAssumption DEF PrintedForAsked
  <1>4. (responce \div 3) + 1 \in 1..Len(order)
    BY <1>2, <1>3
  <1> QED
    BY <1>4 DEF HookOf, PrintedForAsked

LEMMA InitGate == SystemInit => Gate!Init
  BY DEF SystemInit

LEMMA StepGate ==
    SystemInv /\ [SystemNext]_systemVars => [Gate!Next]_gateVars
  <1> SUFFICES ASSUME SystemInv, [SystemNext]_systemVars
               PROVE  [Gate!Next]_gateVars
    OBVIOUS
  <1>1. ASSUME NEW to \in 1..printed, Receive(to)
        PROVE  [Gate!Next]_gateVars
    <2>1. CASE UNCHANGED gateVars
      BY <2>1
    <2>2. CASE started' # started /\ Gate!OnStart(HookOf(responce))
      <3>1. HookOf(responce) \in Hooks
        BY <1>1, <2>2, StartedHasAsked DEF SystemInv, Receive
      <3> QED
        BY <2>2, <3>1 DEF Gate!Next, Gate!Sessions
    <2> QED
      BY <1>1, <2>1, <2>2 DEF Receive
  <1>2. ASSUME NEW h \in Hooks, HookStep(h) \/ SessionEnds(h)
        PROVE  [Gate!Next]_gateVars
    BY <1>2 DEF HookStep, SessionEnds, Gate!Next, Gate!Sessions
  <1>3. CASE ExtensionStops \/ StopperStep
    BY <1>3 DEF ExtensionStops, StopperStep, Gate!Next
  <1> QED
    BY <1>1, <1>2, <1>3
    DEF SystemNext, systemVars, Receiving, PrintRequest, SendRequest

-----------------------------------------------------------------------------
(* The gates of the composition are those of HookGateProofs *)

LEMMA SameInit == Gate!Init <=> GateProofs!Init
  BY DEF Gate!Init, GateProofs!Init, Gate!EmptyFifo, GateProofs!EmptyFifo,
         Gate!Sessions, GateProofs!Sessions

LEMMA SameNext == [Gate!Next]_gateVars => [GateProofs!Next]_gateVars
  <1>1. ASSUME NEW s \in Gate!Sessions,
               Gate!OnStart(s) \/ Gate!TerminateSession(s)
        PROVE  GateProofs!Next
    BY <1>1
    DEF Gate!OnStart, GateProofs!OnStart, Gate!TerminateSession,
        GateProofs!TerminateSession, Gate!hookVars, GateProofs!hookVars,
        Gate!stopperVars, GateProofs!stopperVars, Gate!Sessions,
        GateProofs!Sessions, GateProofs!Next
  <1>2. ASSUME NEW h \in Hooks, Gate!HookStep(h)
        PROVE  GateProofs!HookStep(h)
    BY <1>2
    DEF Gate!HookStep, GateProofs!HookStep, Gate!CheckGate,
        GateProofs!CheckGate, Gate!MakeGate, GateProofs!MakeGate,
        Gate!OpenGate, GateProofs!OpenGate, Gate!ReadStop, GateProofs!ReadStop,
        Gate!ReadEnd, GateProofs!ReadEnd, Gate!ExitHook, GateProofs!ExitHook,
        Gate!HookGoes, GateProofs!HookGoes, Gate!SetPath, GateProofs!SetPath,
        Gate!SetFifo, GateProofs!SetFifo, Gate!hookVars, GateProofs!hookVars,
        Gate!stopperVars, GateProofs!stopperVars, Gate!EmptyFifo,
        GateProofs!EmptyFifo, Gate!OpenForReading, GateProofs!OpenForReading,
        Gate!TakeAll, GateProofs!TakeAll, Gate!AtEof, GateProofs!AtEof,
        Gate!CloseEnd, GateProofs!CloseEnd
  <1>3. Gate!OnTerminate => GateProofs!OnTerminate
    BY DEF Gate!OnTerminate, GateProofs!OnTerminate, Gate!hookVars,
           GateProofs!hookVars
  <1>4. Gate!StopperStep => GateProofs!StopperStep
    BY DEF Gate!StopperStep, GateProofs!StopperStep, Gate!StopCheck,
        GateProofs!StopCheck, Gate!StopOpen, GateProofs!StopOpen,
        Gate!StopWrite, GateProofs!StopWrite, Gate!StopClose,
        GateProofs!StopClose, Gate!StopTimeout, GateProofs!StopTimeout,
        Gate!StopRemove, GateProofs!StopRemove, Gate!StopperGoes,
        GateProofs!StopperGoes, Gate!StopperEnds, GateProofs!StopperEnds,
        Gate!SetPath, GateProofs!SetPath, Gate!SetFifo, GateProofs!SetFifo,
        Gate!hookVars, GateProofs!hookVars, Gate!OpenForWriting,
        GateProofs!OpenForWriting, Gate!gate, GateProofs!gate, Gate!GateOf,
        GateProofs!GateOf, Gate!WritePiece, GateProofs!WritePiece,
        Gate!CloseEnd, GateProofs!CloseEnd
  <1>5. ASSUME NEW h \in Hooks PROVE ~Gate!KillHook(h)
    BY DEF Gate!KillHook
  <1> QED
    BY <1>1, <1>2, <1>3, <1>4, <1>5 DEF Gate!Next, GateProofs!Next

LEMMA GateInvInit == SystemInit => GateProofs!Inv
  BY InitGate, SameInit, GateProofs!InitInv, HooksAssumption
  DEF GateProofs!GateAssumption

LEMMA GateInvNext ==
    SystemInv /\ [SystemNext]_systemVars => GateProofs!Inv'
  <1>1. GateProofs!Inv /\ [GateProofs!Next]_gateVars => GateProofs!Inv'
    BY GateProofs!NextInv, HooksAssumption
    DEF GateProofs!GateAssumption, gateVars, GateProofs!vars
  <1> QED
    BY <1>1, StepGate, SameNext DEF SystemInv

\* What is needed of HookGateProofs' invariant.
LEMMA GateFacts ==
    ASSUME SystemInv
    PROVE  /\ session \in [Hooks -> Gate!SessionState]
           /\ hookPc \in [Hooks -> Gate!HookPc]
           /\ \A h \in Hooks :
                hookPc[h] \in {"exit", "returned"} => session[h] = "terminated"
  BY DEF SystemInv, GateProofs!Inv, GateProofs!TypeOK, GateProofs!NoEarlyReturn,
         GateProofs!Misled, GateProofs!Sessions,
         GateProofs!SessionState, GateProofs!HookPc, Gate!SessionState,
         Gate!HookPc

-----------------------------------------------------------------------------
(* The invariant *)

LEMMA SystemInvInit == SystemInit => SystemInv
  <1> SUFFICES ASSUME SystemInit PROVE SystemInv
    OBVIOUS
  <1>1. Inv /\ GateProofs!Inv
    BY InitInbox, InitInv, GateInvInit
  <1>2. order = <<>> /\ printed = 0 /\ asked = {}
    BY DEF SystemInit, Init
  <1>3. PrintedForAsked
    BY <1>2 DEF PrintedForAsked, LinePieces
  <1>4. QuietBeforeAsked
    BY DEF SystemInit, Gate!Init, Gate!Sessions, QuietBeforeAsked
  <1> QED
    BY <1>1, <1>3, <1>4 DEF SystemInv

LEMMA PrintedNext ==
    SystemInv /\ [SystemNext]_systemVars => PrintedForAsked'
  <1> SUFFICES ASSUME SystemInv, [SystemNext]_systemVars
               PROVE  PrintedForAsked'
    OBVIOUS
  <1> USE DEF SystemInv
  <1>1. printed \in Nat
    BY InboxAssumption DEF Inv, TypeOK, LinePieces
  <1>2. CASE PrintRequest
    <2>1. printed' = printed + 1 /\ asked' = asked
      BY <1>2 DEF PrintRequest, PrintLine
    <2>2. CASE AtLineStart(printed)
      <3>1. PICK h \in asked \ Range(order) : order' = Append(order, h)
        BY <1>2, <2>2 DEF PrintRequest
      <3>2. h \in Hooks /\ order \in Seq(Hooks)
        BY <3>1 DEF PrintedForAsked
      <3>3. /\ order' \in Seq(Hooks)
            /\ Len(order') = Len(order) + 1
            /\ \A i \in 1..Len(order) : order'[i] = order[i]
            /\ order'[Len(order) + 1] = h
        BY <3>1, <3>2
      <3>4. \A i \in 1..Len(order') : order'[i] \in asked
        BY <3>1, <3>2, <3>3 DEF PrintedForAsked
      <3>5. printed' <= LinePieces * Len(order')
        BY <1>1, <2>1, <3>2, <3>3 DEF PrintedForAsked, LinePieces
      <3> QED
        BY <2>1, <3>3, <3>4, <3>5 DEF PrintedForAsked, LinePieces
    <2>3. CASE ~AtLineStart(printed)
      <3>1. order' = order /\ Len(order) \in Nat
        BY <1>2, <2>3 DEF PrintRequest, PrintedForAsked
      <3>2. printed % 3 # 0 /\ printed <= 3 * Len(order)
        BY <2>3 DEF AtLineStart, PrintedForAsked, LinePieces
      <3>3. printed + 1 <= 3 * Len(order)
        BY <1>1, <3>1, <3>2
      <3> QED
        BY <2>1, <3>1, <3>3 DEF PrintedForAsked, LinePieces
    <2> QED
      BY <2>2, <2>3
  <1>3. ASSUME UNCHANGED <<order, printed>>, asked \subseteq asked',
               asked' \subseteq Hooks
        PROVE  PrintedForAsked'
    BY <1>3 DEF PrintedForAsked, LinePieces
  <1>4. asked \subseteq Hooks
    BY DEF PrintedForAsked
  <1>5. ASSUME NEW to \in 1..printed, Receive(to) PROVE PrintedForAsked'
    BY <1>3, <1>4, <1>5 DEF Receive, OnMessage
  <1>6. ASSUME NEW h \in Hooks,
               SendRequest(h) \/ HookStep(h) \/ SessionEnds(h)
        PROVE  PrintedForAsked'
    BY <1>3, <1>4, <1>6 DEF SendRequest, HookStep, SessionEnds, vars
  <1>7. CASE ExtensionStops \/ StopperStep
    BY <1>3, <1>4, <1>7 DEF ExtensionStops, StopperStep, vars
  <1>8. CASE UNCHANGED systemVars
    BY <1>3, <1>4, <1>8 DEF systemVars, vars
  <1> QED
    BY <1>2, <1>5, <1>6, <1>7, <1>8 DEF SystemNext, Receiving

\* A step changes the session or the hook of one who has asked.
LEMMA OnlyAskedChange ==
    ASSUME SystemInv, [SystemNext]_systemVars, NEW h \in Hooks,
           h \notin asked
    PROVE  hookPc'[h] = hookPc[h] /\ session'[h] = session[h]
  <1> USE GateFacts
  <1>1. ASSUME NEW to \in 1..printed, Receive(to)
        PROVE  hookPc'[h] = hookPc[h] /\ session'[h] = session[h]
    <2>1. CASE UNCHANGED gateVars
      BY <2>1 DEF gateVars
    <2>2. CASE started' # started /\ Gate!OnStart(HookOf(responce))
      <3>1. HookOf(responce) # h
        BY <1>1, <2>2, StartedHasAsked DEF SystemInv, Receive
      <3> QED
        BY <2>2, <3>1 DEF Gate!OnStart, Gate!hookVars
    <2> QED
      BY <1>1, <2>1, <2>2 DEF Receive
  <1>2. ASSUME NEW g \in Hooks, HookStep(g)
        PROVE  hookPc'[h] = hookPc[h] /\ session'[h] = session[h]
    <2>1. g # h
      BY <1>2 DEF HookStep
    <2> QED
      BY <1>2, <2>1
      DEF HookStep, Gate!HookStep, Gate!CheckGate, Gate!MakeGate, Gate!OpenGate,
          Gate!ReadStop, Gate!ReadEnd, Gate!ExitHook, Gate!HookGoes,
          Gate!hookVars
  <1>3. ASSUME NEW g \in Hooks, SessionEnds(g)
        PROVE  hookPc'[h] = hookPc[h] /\ session'[h] = session[h]
    <2>1. session[g] = "running" /\ session[h] = "requested"
      BY <1>3 DEF SessionEnds, Gate!TerminateSession, SystemInv,
                  QuietBeforeAsked
    <2> QED
      BY <1>3, <2>1 DEF SessionEnds, Gate!TerminateSession, Gate!hookVars
  <1>4. CASE ExtensionStops \/ StopperStep
    BY <1>4
    DEF ExtensionStops, StopperStep, Gate!OnTerminate, Gate!StopperStep,
        Gate!StopCheck, Gate!StopOpen, Gate!StopWrite, Gate!StopClose,
        Gate!StopTimeout, Gate!StopRemove, Gate!hookVars
  <1> QED
    BY <1>1, <1>2, <1>3, <1>4
    DEF SystemNext, systemVars, gateVars, Receiving, PrintRequest, SendRequest

LEMMA SystemInvNext == SystemInv /\ [SystemNext]_systemVars => SystemInv'
  <1> SUFFICES ASSUME SystemInv, [SystemNext]_systemVars PROVE SystemInv'
    OBVIOUS
  <1>1. Inv'
    BY StepInbox, NextInv DEF SystemInv
  <1>2. GateProofs!Inv' /\ PrintedForAsked'
    BY GateInvNext, PrintedNext
  <1>3. asked \subseteq asked'
    BY DEF SystemNext, systemVars, Receiving, PrintRequest, Receive,
           SendRequest, HookStep, SessionEnds, ExtensionStops, StopperStep
  <1>4. QuietBeforeAsked'
    BY <1>3, OnlyAskedChange DEF SystemInv, QuietBeforeAsked
  <1> QED
    BY <1>1, <1>2, <1>4 DEF SystemInv

\* SystemInv holds in every reachable state.
THEOREM SystemInvHolds == SystemSpec => []SystemInv
  BY SystemInvInit, SystemInvNext, PTL DEF SystemSpec

\* The composition does not disturb the inbox: what holds of onMessage for any
\* stream of requests holds of the one that the hooks and the busy extension
\* make of it (deepDebug.ts:364-393).
THEOREM SystemIsInbox == SystemSpec => Spec
  BY InitInbox, StepInbox, PTL DEF SystemSpec, Spec

\* Nor the gates: with sessions started by onMessage only, the hooks, sessions
\* and stoppers do what HookGate allows (hook.sh:49-60, server.sh:48-62).
THEOREM SystemIsGate == SystemSpec => Gate!Spec
  <1>1. [Gate!Next]_gateVars => [Gate!Next]_Gate!vars
    BY DEF gateVars, Gate!vars
  <1> QED
    BY <1>1, InitGate, StepGate, SystemInvHolds, PTL DEF SystemSpec, Gate!Spec

\* onMessage stays aligned in the composition, too (deepDebug.ts:366-373).
THEOREM SystemAligned == SystemSpec => []FrameAligned
  BY SystemIsInbox, AlwaysAligned, PTL

\* And starts no request twice, or part of one (deepDebug.ts:372-378).
THEOREM SystemIsRequestChannel == SystemSpec => IsRequestChannel
  BY SystemIsInbox, InboxIsRequestChannel, PTL

-----------------------------------------------------------------------------
(* The blocking call *)

Calls == [h \in Hooks |-> CallOf(h)]

LEMMA CallInit == SystemInit => Call!Init
  <1> SUFFICES ASSUME SystemInit PROVE Call!Init
    OBVIOUS
  <1>1. asked = {} /\ \A h \in Hooks : hookPc[h] = "sent"
    BY DEF SystemInit, Gate!Init
  <1>2. \A h \in Hooks : CallOf(h) = "idle"
    BY <1>1 DEF CallOf
  <1> QED
    BY <1>2 DEF Call!Init

\* One caller goes on, the others stay where they are.
LEMMA OneGoes ==
    ASSUME NEW h \in Hooks,
           \A g \in Hooks \ {h} : CallOf(g)' = CallOf(g),
           \/ CallOf(h) = "idle" /\ CallOf(h)' = "waiting"
           \/ CallOf(h) = "waiting" /\ CallOf(h)' = "debugged"
           \/ CallOf(h) = "debugged" /\ CallOf(h)' = "over"
           \/ CallOf(h) = "over" /\ CallOf(h)' = "returned"
           \/ CallOf(h)' = CallOf(h)
    PROVE  [Call!Next]_Calls
  <1>1. ASSUME CallOf(h)' = CallOf(h) PROVE [Call!Next]_Calls
    BY <1>1 DEF Calls
  <1>2. ASSUME NEW from, NEW to, CallOf(h) = from, CallOf(h)' = to
        PROVE  Call!Goes(h, from, to)
    BY <1>2 DEF Call!Goes
  <1> QED
    BY <1>1, <1>2 DEF Call!Next, Call!Ask, Call!Start, Call!End, Call!Return

\* CallOf depends on these three only.
LEMMA SameCall ==
    ASSUME NEW h \in Hooks, h \in asked' <=> h \in asked,
           session'[h] = session[h],
           hookPc'[h] = "returned" <=> hookPc[h] = "returned"
    PROVE  CallOf(h)' = CallOf(h)
  BY DEF CallOf

LEMMA CallStep == SystemInv /\ [SystemNext]_systemVars => [Call!Next]_Calls
  <1> SUFFICES ASSUME SystemInv, [SystemNext]_systemVars
               PROVE  [Call!Next]_Calls
    OBVIOUS
  <1> USE GateFacts
  <1>1. ASSUME NEW h \in Hooks, SendRequest(h) PROVE [Call!Next]_Calls
    <2>1. UNCHANGED <<session, hookPc>> /\ h \notin asked /\ h \in asked'
          /\ \A g \in Hooks \ {h} : g \in asked' <=> g \in asked
      BY <1>1 DEF SendRequest, gateVars
    <2>2. hookPc[h] = "sent" /\ session[h] = "requested"
      BY <2>1 DEF SystemInv, QuietBeforeAsked
    <2>3. CallOf(h) = "idle" /\ CallOf(h)' = "waiting"
      BY <2>1, <2>2 DEF CallOf
    <2> QED
      BY <2>1, <2>3, SameCall, OneGoes
  <1>2. ASSUME NEW to \in 1..printed, Receive(to) PROVE [Call!Next]_Calls
    <2>1. CASE UNCHANGED gateVars
      <3>1. \A g \in Hooks : CallOf(g)' = CallOf(g)
        BY <1>2, <2>1, SameCall DEF Receive, gateVars
      <3> QED
        BY <3>1 DEF Calls
    <2>2. CASE started' # started /\ Gate!OnStart(HookOf(responce))
      <3>0. HookOf(responce) \in asked /\ HookOf(responce) \in Hooks
        BY <1>2, <2>2, StartedHasAsked DEF SystemInv, Receive
      <3>1. PICK h \in Hooks : h = HookOf(responce) /\ h \in asked
        BY <3>0
      <3>2. /\ asked' = asked /\ hookPc' = hookPc
            /\ session[h] = "requested"
            /\ session'[h] \in {"running", "dropped"}
            /\ \A g \in Hooks \ {h} : session'[g] = session[g]
        BY <1>2, <2>2, <3>1 DEF Receive, Gate!OnStart, Gate!hookVars
      <3>3. hookPc[h] # "returned"
        BY <3>1, <3>2
      <3>4. CallOf(h) = "waiting" /\ CallOf(h)' \in {"waiting", "debugged"}
        BY <3>1, <3>2, <3>3 DEF CallOf
      <3>5. \A g \in Hooks \ {h} : CallOf(g)' = CallOf(g)
        BY <3>2, SameCall
      <3> QED
        BY <3>1, <3>4, <3>5, OneGoes
    <2> QED
      BY <1>2, <2>1, <2>2 DEF Receive
  <1>3. ASSUME NEW h \in Hooks, HookStep(h) PROVE [Call!Next]_Calls
    <2>1. asked' = asked /\ h \in asked /\ session' = session
      BY <1>3
      DEF HookStep, Gate!HookStep, Gate!CheckGate, Gate!MakeGate, Gate!OpenGate,
          Gate!ReadStop, Gate!ReadEnd, Gate!ExitHook
    <2>2. /\ \A g \in Hooks \ {h} : hookPc'[g] = hookPc[g]
          /\ hookPc'[h] = "returned" =>
                hookPc[h] \in {"exit", "returned"}
          /\ hookPc[h] = "returned" => hookPc'[h] = "returned"
      BY <1>3
      DEF HookStep, Gate!HookStep, Gate!CheckGate, Gate!MakeGate, Gate!OpenGate,
          Gate!ReadStop, Gate!ReadEnd, Gate!ExitHook, Gate!HookGoes,
          Gate!hookVars
    <2>3. \A g \in Hooks \ {h} : CallOf(g)' = CallOf(g)
      BY <2>1, <2>2, SameCall
    <2>4. CASE hookPc'[h] = "returned" /\ hookPc[h] # "returned"
      <3>1. CallOf(h) = "over" /\ CallOf(h)' = "returned"
        BY <2>1, <2>2, <2>4 DEF CallOf
      <3> QED
        BY <2>3, <3>1, OneGoes
    <2>5. CASE ~(hookPc'[h] = "returned" /\ hookPc[h] # "returned")
      <3>1. CallOf(h)' = CallOf(h)
        BY <2>1, <2>2, <2>5, SameCall
      <3> QED
        BY <2>3, <3>1, OneGoes
    <2> QED
      BY <2>4, <2>5
  <1>4. ASSUME NEW h \in Hooks, SessionEnds(h) PROVE [Call!Next]_Calls
    <2>1. /\ asked' = asked /\ hookPc' = hookPc
          /\ session[h] = "running" /\ session'[h] = "terminated"
          /\ \A g \in Hooks \ {h} : session'[g] = session[g]
      BY <1>4 DEF SessionEnds, Gate!TerminateSession, Gate!hookVars
    <2>2. h \in asked /\ hookPc[h] # "returned"
      BY <2>1 DEF SystemInv, QuietBeforeAsked
    <2>3. CallOf(h) = "debugged" /\ CallOf(h)' = "over"
      BY <2>1, <2>2 DEF CallOf
    <2>4. \A g \in Hooks \ {h} : CallOf(g)' = CallOf(g)
      BY <2>1, SameCall
    <2> QED
      BY <2>3, <2>4, OneGoes
  <1>5. ASSUME UNCHANGED <<asked, session, hookPc>> PROVE [Call!Next]_Calls
    <2>1. \A g \in Hooks : CallOf(g)' = CallOf(g)
      BY <1>5, SameCall
    <2> QED
      BY <2>1 DEF Calls
  <1>6. CASE ExtensionStops \/ StopperStep
    BY <1>5, <1>6
    DEF ExtensionStops, StopperStep, Gate!OnTerminate, Gate!StopperStep,
        Gate!StopCheck, Gate!StopOpen, Gate!StopWrite, Gate!StopClose,
        Gate!StopTimeout, Gate!StopRemove, Gate!hookVars
  <1> QED
    BY <1>1, <1>2, <1>3, <1>4, <1>5, <1>6
    DEF SystemNext, systemVars, gateVars, Receiving, PrintRequest

\* For any number of hooks, however their requests are cut, dropped or held up
\* and whichever races they meet at their gates: a hook that returns to its
\* program has been through a session of its own, once, which is over
\* (hook.sh:45-60, deepDebug.ts:98-106, 364-382).
THEOREM HooksAreBlockingCalls == SystemSpec => IsBlockingCall
  <1>1. SystemInit => Call!Init
    BY CallInit
  <1>2. SystemInv /\ [SystemNext]_systemVars =>
            [Call!Next]_[h \in Hooks |-> CallOf(h)]
    BY CallStep DEF Calls
  <1> QED
    BY <1>1, <1>2, SystemInvHolds, PTL
    DEF SystemSpec, IsBlockingCall, Call!Spec
=============================================================================
