--------------------------- MODULE WindowsProofs ----------------------------
(***************************************************************************)
(* WinPipes for any number of hooks, sessions, pieces and instances, and   *)
(* Base64 for texts of any bytes and any size that size_t can count.       *)
(*                                                                         *)
(* QueueInv says whose pieces are in the instance and in the line, which   *)
(* makes the queue a request channel whatever anybody does, kills          *)
(* included.  GateInv is about the gates while the hooks under each        *)
(* session follow one another: who has been called to its gate is over,    *)
(* and nobody will be sent there for it again.                             *)
(***************************************************************************)
EXTENDS WinPipes, Base64, Integers, SequenceTheorems, TLAPS

Instances ==
    [exists : BOOLEAN, client : Hooks \cup {Stopper, NoOne}, open : BOOLEAN,
     data : SUBSET ((Hooks \X (1..Parts)) \cup {Stop})]

Types ==
    /\ queue \in Instances
    /\ handles \in Int
    /\ serverPc \in {"create", "connect", "listen", "read", "print", "gone"}
    /\ out \in Seq(SUBSET (Hooks \X (1..Parts)))
    /\ gate \in [Gates -> Instances]
    /\ parent \in Parents
    /\ hookPc \in [Hooks -> {"start", "write", "gate", "connect", "listen",
                             "returned", "failed", "killed"}]
    /\ written \in [Hooks -> 0..Parts]
    /\ session \in [Hooks -> {"none", "running", "dropped", "over"}]
    /\ stops \in Seq(Hooks \cup {Main})
    /\ stopperPc \in {"idle", "write"}
    /\ stopperPc = "write" => stops # <<>>

\* Pieces that h has written.
Own(h) == {h} \X (1..written[h])

\* In the instance is what its client has written there, and who once had one
\* does not come back.
ClientWrote ==
    /\ queue.client = NoOne => queue.data = {}
    /\ queue.client = Stopper => queue.data \subseteq {Stop}
    /\ \A h \in Hooks :
          queue.client = h =>
              /\ queue.data \subseteq Own(h)
              /\ hookPc[h] # "start"
              /\ ~Printed(h)

\* The server reads one client at a time.
LineIsClients ==
    serverPc \in {"read", "print"} =>
        /\ queue.client # NoOne
        /\ queue.client = Stopper => line = {}
        /\ \A h \in Hooks : queue.client = h => line \subseteq Own(h)

PrintedIsWritten ==
    \A h \in Hooks :
        /\ hookPc[h] = "start" => written[h] = 0
        /\ Printed(h) => hookPc[h] # "start" /\ written[h] = Parts

QueueInv ==
    /\ Types /\ ClientWrote /\ LineIsClients /\ PrintedIsWritten
    /\ LinesCostInstances

-----------------------------------------------------------------------------
AtGate(h) == hookPc[h] \in {"connect", "listen"}
Through(h) == hookPc[h] \in {"returned", "failed"}

\* A gate is that of a hook waiting at it, and what is in it somebody wrote.
GateOwned ==
    \A g \in Gates :
        /\ gate[g].exists => \E h \in Hooks : parent[h] = g /\ AtGate(h)
        /\ gate[g].data # {} => gate[g].client # NoOne

\* The stop of h, if there is one left, is being carried out.
LastCall(h) ==
    \A i \in 1..Len(stops) : stops[i] = h => i = 1 /\ stopperPc = "write"

\* A client at the gate comes for the hook that waits there.
CallIsOwn ==
    \A h \in Hooks :
        AtGate(h) /\ gate[parent[h]].client # NoOne =>
            session[h] = "over" /\ LastCall(h)

ThroughIsOver ==
    \A h \in Hooks : Through(h) => Released(h) /\ LastCall(h)

\* Each session is over before it is stopped, and is stopped once.
StopsOnce ==
    /\ \A i, j \in 1..Len(stops) :
          stops[i] \in Hooks /\ stops[i] = stops[j] => i = j
    /\ \A i \in 1..Len(stops) :
          stops[i] \in Hooks => session[stops[i]] = "over"

\* Who has a session has asked for it.
SessionIsAsked ==
    \A h \in Hooks :
        session[h] # "none" => hookPc[h] # "start" /\ written[h] # 0

GateInv ==
    GateOwned /\ CallIsOwn /\ ThroughIsOver /\ StopsOnce /\ SessionIsAsked

-----------------------------------------------------------------------------
(* Types and the queue.                                                    *)

LEMMA ParentInGates ==
    ASSUME Types, NEW h \in Hooks
    PROVE  parent[h] \in Gates
  BY DEF Types, Gates

LEMMA InstanceFacts ==
    /\ NoInstance \in Instances /\ Fresh \in Instances
    /\ \A i \in Instances, p \in Hooks \cup {Stopper} :
          Accept(i, p) \in Instances /\ HangUp(i, p) \in Instances
    /\ \A i \in Instances, x \in (Hooks \X (1..Parts)) \cup {Stop} :
          Put(i, x) \in Instances
    /\ \A i \in Instances : Told(i) \in Instances
  <1> USE DEF Instances
  <1>1. NoInstance \in Instances /\ Fresh \in Instances
    BY DEF NoInstance, Fresh
  <1>2. \A i \in Instances, p \in Hooks \cup {Stopper} :
          Accept(i, p) \in Instances /\ HangUp(i, p) \in Instances
    BY DEF Accept, HangUp
  <1>3. \A i \in Instances, x \in (Hooks \X (1..Parts)) \cup {Stop} :
          Put(i, x) \in Instances
    BY DEF Put
  <1> HIDE DEF Instances
  <1>4. \A i \in Instances : Told(i) \in Instances
    BY <1>2, <1>3 DEF Told
  <1> QED
    BY <1>1, <1>2, <1>3, <1>4

LEMMA InitQueueInv == Init => QueueInv
  <1> SUFFICES ASSUME Init PROVE QueueInv
    OBVIOUS
  <1> USE DEF Init
  <1>1. 0 \in 0..Parts
    BY WinAssumption
  <1>2. /\ <<>> \in Seq(SUBSET (Hooks \X (1..Parts)))
        /\ <<>> \in Seq(Hooks \cup {Main})
    OBVIOUS
  <1>3. Types
    BY <1>1, <1>2, InstanceFacts DEF Types
  <1>4. queue.client = NoOne /\ queue.data = {}
    BY DEF NoInstance
  <1>5. ClientWrote
    BY <1>4, WinAssumption DEF ClientWrote
  <1>6. LineIsClients
    BY DEF LineIsClients
  <1>7. Len(out) = 0
    OBVIOUS
  <1>8. PrintedIsWritten
    <2>1. 1..Len(out) = {}
      BY <1>7
    <2>2. \A h \in Hooks : ~Printed(h)
      BY <2>1, Zenon DEF Printed
    <2> QED
      BY <2>2 DEF PrintedIsWritten
  <1>9. LinesCostInstances
    BY <1>7 DEF LinesCostInstances
  <1> QED
    BY <1>3, <1>5, <1>6, <1>8, <1>9 DEF QueueInv

-----------------------------------------------------------------------------
(* Steps of the server.                                                    *)

\* Steps that touch the server's end of the queue only.
LEMMA ServerFrame ==
    ASSUME Serve
    PROVE  UNCHANGED <<gate, parent, hookPc, written, session, mainOver, stops,
                       stopperPc>>
  BY DEF Serve, CreateQueue, ConnectQueue, ClientComes, ReadQueue, ReadEnd,
         PrintLine, ServerOnly, hookVars, extensionVars

\* The server puts away the instance, or takes a new one.
LEMMA NewQueueKeepsInv ==
    ASSUME QueueInv, queue' \in {NoInstance, Fresh}, UNCHANGED <<line, out>>,
           UNCHANGED <<gate, parent, hookPc, written, session, stops,
                       stopperPc>>,
           serverPc' \in {"create", "connect", "gone"},
           handles' \in Int, LinesCostInstances'
    PROVE  QueueInv'
  <1>1. Types'
    BY InstanceFacts DEF QueueInv, Types
  <1>2. queue'.client = NoOne /\ queue'.data = {}
    BY DEF NoInstance, Fresh
  <1>3. ClientWrote'
    BY <1>2, WinAssumption DEF ClientWrote
  <1>4. LineIsClients'
    BY DEF LineIsClients
  <1>5. PrintedIsWritten'
    BY DEF QueueInv, PrintedIsWritten, Printed
  <1> QED
    BY <1>1, <1>3, <1>4, <1>5 DEF QueueInv

\* The server goes on with the instance it has.
LEMMA SameQueueKeepsInv ==
    ASSUME QueueInv, UNCHANGED <<queue, handles, out>>,
           UNCHANGED <<gate, parent, hookPc, written, session, stops,
                       stopperPc>>,
           serverPc' \in {"create", "connect", "listen", "read", "print",
                          "gone"},
           serverPc \in {"create", "gone"} <=> serverPc' \in {"create", "gone"},
           LineIsClients'
    PROVE  QueueInv'
  <1>1. Types'
    BY DEF QueueInv, Types
  <1>2. ClientWrote'
    BY DEF QueueInv, ClientWrote, Own, Printed
  <1>3. PrintedIsWritten'
    BY DEF QueueInv, PrintedIsWritten, Printed
  <1>4. LinesCostInstances'
    BY DEF QueueInv, LinesCostInstances
  <1> QED
    BY <1>1, <1>2, <1>3, <1>4 DEF QueueInv

LEMMA CreateKeepsInv == QueueInv /\ CreateQueue => QueueInv'
  <1> SUFFICES ASSUME QueueInv, CreateQueue PROVE QueueInv'
    OBVIOUS
  <1>0. UNCHANGED <<gate, parent, hookPc, written, session, mainOver, stops,
                    stopperPc>>
    BY ServerFrame DEF Serve
  <1>1. CASE handles < MaxInstances /\ handles' = handles + 1
    <2>1. /\ serverPc = "create" /\ serverPc' = "connect"
          /\ queue' = Fresh /\ UNCHANGED <<line, out>>
      BY <1>1, WinAssumption DEF CreateQueue, ServerGoes, queueVars, QueueInv,
                                 Types
    <2>2. handles' \in Int
      BY <1>1 DEF QueueInv, Types
    <2>3. LinesCostInstances'
      BY <1>1, <2>1 DEF QueueInv, LinesCostInstances, Types
    <2> QED
      BY <1>0, <2>1, <2>2, <2>3, NewQueueKeepsInv
  <1>2. CASE UNCHANGED queueVars /\ ServerGoes("create", "gone")
    <2>1. UNCHANGED <<queue, handles, out>>
      BY <1>2 DEF CreateQueue, queueVars
    <2>2. serverPc = "create" /\ serverPc' = "gone"
      BY <1>2 DEF ServerGoes
    <2>3. LineIsClients'
      BY <2>2 DEF LineIsClients
    <2> QED
      BY <1>0, <2>1, <2>2, <2>3, SameQueueKeepsInv
  <1> QED
    BY <1>1, <1>2 DEF CreateQueue

LEMMA ConnectKeepsInv == QueueInv /\ ConnectQueue => QueueInv'
  <1> SUFFICES ASSUME QueueInv, ConnectQueue PROVE QueueInv'
    OBVIOUS
  <1>0. UNCHANGED <<gate, parent, hookPc, written, session, mainOver, stops,
                    stopperPc>>
    BY ServerFrame DEF Serve
  <1>1. CASE queue.client = NoOne
    <2>1. UNCHANGED <<queue, handles, out>>
      BY <1>1 DEF ConnectQueue, queueVars
    <2>2. serverPc = "connect" /\ serverPc' = "listen"
      BY <1>1 DEF ConnectQueue, ServerGoes
    <2>3. LineIsClients'
      BY <2>2 DEF LineIsClients
    <2> QED
      BY <1>0, <2>1, <2>2, <2>3, SameQueueKeepsInv
  <1>2. CASE queue.client # NoOne
    <2>1. /\ serverPc = "connect" /\ serverPc' = "create"
          /\ queue' = NoInstance /\ handles' = handles - 1
          /\ UNCHANGED <<line, out>>
      BY <1>2 DEF ConnectQueue, ServerGoes
    <2>2. handles' \in Int
      BY <2>1 DEF QueueInv, Types
    <2>3. LinesCostInstances'
      BY <2>1 DEF QueueInv, LinesCostInstances, Types
    <2> QED
      BY <1>0, <2>1, <2>2, <2>3, NewQueueKeepsInv
  <1> QED
    BY <1>1, <1>2

LEMMA ClientComesKeepsInv == QueueInv /\ ClientComes => QueueInv'
  <1> SUFFICES ASSUME QueueInv, ClientComes PROVE QueueInv'
    OBVIOUS
  <1>0. UNCHANGED <<gate, parent, hookPc, written, session, mainOver, stops,
                    stopperPc>>
    BY ServerFrame DEF Serve
  <1>1. UNCHANGED <<queue, handles, out>>
    BY DEF ClientComes, queueVars
  <1>2. serverPc = "listen" /\ serverPc' = "read" /\ line' = {}
        /\ queue.client # NoOne
    BY DEF ClientComes, ServerGoes
  <1>3. LineIsClients'
    BY <1>1, <1>2 DEF LineIsClients
  <1> QED
    BY <1>0, <1>1, <1>2, <1>3, SameQueueKeepsInv

LEMMA ReadKeepsInv == QueueInv /\ ReadQueue => QueueInv'
  <1> SUFFICES ASSUME QueueInv, ReadQueue PROVE QueueInv'
    OBVIOUS
  <1>0. UNCHANGED <<gate, parent, hookPc, written, session, mainOver, stops,
                    stopperPc>>
    BY ServerFrame DEF Serve
  <1>1. CASE queue.data = {Stop}
    <2>1. /\ serverPc = "read" /\ serverPc' = "gone"
          /\ queue' = NoInstance /\ handles' = handles - 1
          /\ UNCHANGED <<line, out>>
      BY <1>1 DEF ReadQueue, ServerGoes
    <2>2. handles' \in Int
      BY <2>1 DEF QueueInv, Types
    <2>3. LinesCostInstances'
      BY <2>1 DEF QueueInv, LinesCostInstances, Types
    <2> QED
      BY <1>0, <2>1, <2>2, <2>3, NewQueueKeepsInv
  <1>2. CASE queue.data # {Stop}
    <2>1. /\ serverPc = "read" /\ serverPc' = "read"
          /\ queue' = [queue EXCEPT !.data = {}]
          /\ line' = line \cup queue.data
          /\ queue.data # {}
          /\ UNCHANGED <<handles, out>>
      BY <1>2 DEF ReadQueue, ServerGoes
    <2>2. queue' \in Instances
      BY <2>1 DEF QueueInv, Types, Instances
    <2>3. queue'.client = queue.client /\ queue'.data = {}
      BY <2>1 DEF QueueInv, Types, Instances
    <2>4. Types'
      BY <1>0, <2>1, <2>2 DEF QueueInv, Types
    <2>5. ClientWrote'
      BY <1>0, <2>1, <2>3 DEF QueueInv, ClientWrote, Printed
    <2>6. LineIsClients'
      <3>1. queue.client # NoOne
        BY <2>1 DEF QueueInv, LineIsClients
      <3>2. queue.client # Stopper
        BY <1>2, <2>1 DEF QueueInv, ClientWrote
      <3>3. ASSUME NEW h \in Hooks, queue.client = h
            PROVE  line' \subseteq Own(h)
        BY <2>1, <3>3 DEF QueueInv, ClientWrote, LineIsClients
      <3>4. \A h \in Hooks : Own(h)' = Own(h)
        BY <1>0 DEF Own
      <3> QED
        BY <2>3, <3>1, <3>2, <3>3, <3>4 DEF LineIsClients
    <2>7. PrintedIsWritten'
      BY <1>0, <2>1 DEF QueueInv, PrintedIsWritten, Printed
    <2>8. LinesCostInstances'
      BY <2>1 DEF QueueInv, LinesCostInstances
    <2> QED
      BY <2>4, <2>5, <2>6, <2>7, <2>8 DEF QueueInv
  <1> QED
    BY <1>1, <1>2

LEMMA ReadEndKeepsInv == QueueInv /\ ReadEnd => QueueInv'
  <1> SUFFICES ASSUME QueueInv, ReadEnd PROVE QueueInv'
    OBVIOUS
  <1>0. UNCHANGED <<gate, parent, hookPc, written, session, mainOver, stops,
                    stopperPc>>
    BY ServerFrame DEF Serve
  <1>1. UNCHANGED <<queue, handles, line, out>>
    BY DEF ReadEnd, queueVars
  <1>2. serverPc = "read" /\ serverPc' = "print"
    BY DEF ReadEnd, ServerGoes
  <1>3. LineIsClients'
    BY <1>0, <1>1, <1>2 DEF QueueInv, LineIsClients, Own
  <1> QED
    BY <1>0, <1>1, <1>2, <1>3, SameQueueKeepsInv

-----------------------------------------------------------------------------
(* The line that is printed.                                               *)

\* A whole request in the line is that of the client, which has sent it and
\* which was not printed before.
LEMMA LineIsNew ==
    ASSUME QueueInv, serverPc = "print"
    PROVE  /\ line \in SUBSET (Hooks \X (1..Parts))
           /\ \A h \in Hooks : line = Request(h) =>
                 /\ ~Printed(h)
                 /\ hookPc[h] # "start"
                 /\ written[h] = Parts
  <1>1. queue.client \in Hooks \cup {Stopper}
    BY DEF QueueInv, Types, Instances, LineIsClients
  <1>2. CASE queue.client = Stopper
    <2>1. line = {}
      BY <1>2 DEF QueueInv, LineIsClients
    <2>2. \A h \in Hooks : <<h, 1>> \in Request(h)
      BY WinAssumption DEF Request
    <2> QED
      BY <2>1, <2>2
  <1>3. ASSUME NEW c \in Hooks, queue.client = c
        PROVE  /\ line \in SUBSET (Hooks \X (1..Parts))
               /\ \A h \in Hooks : line = Request(h) =>
                     /\ ~Printed(h)
                     /\ hookPc[h] # "start"
                     /\ written[h] = Parts
    <2>1. line \subseteq Own(c)
      BY <1>3 DEF QueueInv, LineIsClients
    <2>2. written[c] \in 0..Parts
      BY DEF QueueInv, Types
    <2>3. line \in SUBSET (Hooks \X (1..Parts))
      BY <2>1, <2>2, WinAssumption DEF Own
    <2>4. ASSUME NEW h \in Hooks, line = Request(h)
          PROVE  h = c /\ written[c] = Parts
      <3>1. <<h, Parts>> \in Own(c)
        BY <2>1, <2>4, WinAssumption DEF Request
      <3> QED
        BY <2>2, <3>1, WinAssumption DEF Own
    <2> QED
      BY <1>3, <2>3, <2>4 DEF QueueInv, ClientWrote
  <1> QED
    BY <1>1, <1>2, <1>3

LEMMA PrintKeepsInv == QueueInv /\ PrintLine => QueueInv'
  <1> SUFFICES ASSUME QueueInv, PrintLine PROVE QueueInv'
    OBVIOUS
  <1>0. UNCHANGED <<gate, parent, hookPc, written, session, mainOver, stops,
                    stopperPc>>
    BY ServerFrame DEF Serve
  <1>1. /\ serverPc = "print" /\ serverPc' = "create"
        /\ queue' = NoInstance /\ out' = Append(out, line)
        /\ UNCHANGED <<handles, line>>
    BY DEF PrintLine, ServerGoes
  <1>2. /\ line \in SUBSET (Hooks \X (1..Parts))
        /\ \A h \in Hooks : line = Request(h) =>
              hookPc[h] # "start" /\ written[h] = Parts
    BY <1>1, LineIsNew
  <1>3. /\ out \in Seq(SUBSET (Hooks \X (1..Parts)))
        /\ Len(out) \in Nat
    BY DEF QueueInv, Types
  <1>4. out' \in Seq(SUBSET (Hooks \X (1..Parts)))
    BY <1>1, <1>2, <1>3
  <1>5. /\ Len(out') = Len(out) + 1
        /\ \A i \in 1..Len(out) : out'[i] = out[i]
        /\ out'[Len(out) + 1] = line
    BY <1>1, <1>3
  <1>6. Types'
    BY <1>0, <1>1, <1>4, InstanceFacts DEF QueueInv, Types
  <1>7. queue'.client = NoOne /\ queue'.data = {}
    BY <1>1 DEF NoInstance
  <1>8. ClientWrote'
    BY <1>7, WinAssumption DEF ClientWrote
  <1>9. LineIsClients'
    BY <1>1 DEF LineIsClients
  <1>10. PrintedIsWritten'
    <2>1. ASSUME NEW h \in Hooks, Printed(h)'
          PROVE  hookPc[h] # "start" /\ written[h] = Parts
      <3>1. PICK i \in 1..Len(out') : out'[i] = Request(h)
        BY <2>1 DEF Printed, Request
      <3>2. CASE i \in 1..Len(out)
        <4>1. Printed(h)
          BY <1>5, <3>1, <3>2 DEF Printed
        <4> QED
          BY <4>1 DEF QueueInv, PrintedIsWritten
      <3>3. CASE i = Len(out) + 1
        BY <1>2, <1>5, <3>1, <3>3
      <3> QED
        BY <1>3, <1>5, <3>2, <3>3
    <2> QED
      BY <1>0, <2>1 DEF QueueInv, PrintedIsWritten
  <1>11. LinesCostInstances'
    <2>1. handles = Len(out) + 1
      BY <1>1 DEF QueueInv, LinesCostInstances
    <2> QED
      BY <1>1, <1>3, <1>5, <2>1 DEF LinesCostInstances
  <1> QED
    BY <1>6, <1>8, <1>9, <1>10, <1>11 DEF QueueInv

-----------------------------------------------------------------------------
(* Steps of the others on the queue.                                       *)

\* Who has the instance keeps it and adds what is his.
LEMMA SameClientKeepsInv ==
    ASSUME QueueInv, Types', UNCHANGED <<handles, serverPc, line, out>>,
           queue'.client = queue.client,
           queue.client = NoOne => queue'.data = queue.data,
           queue.client = Stopper =>
               queue'.data \subseteq queue.data \cup {Stop},
           \A h \in Hooks :
              /\ queue.client = h =>
                    queue'.data \subseteq queue.data \cup Own(h)'
              /\ written[h] <= written'[h]
              /\ hookPc'[h] = "start" =>
                    hookPc[h] = "start" /\ written'[h] = written[h]
    PROVE  QueueInv'
  <1>1. \A h \in Hooks : Own(h) \subseteq Own(h)'
    <2> SUFFICES ASSUME NEW h \in Hooks PROVE Own(h) \subseteq Own(h)'
      OBVIOUS
    <2>1. written[h] \in Nat /\ written'[h] \in Nat
      BY DEF QueueInv, Types
    <2> QED
      BY <2>1 DEF Own
  <1>2. \A h \in Hooks : Printed(h)' <=> Printed(h)
    BY DEF Printed
  <1>3. ClientWrote'
    <2>1. queue'.client = NoOne => queue'.data = {}
      BY DEF QueueInv, ClientWrote
    <2>2. queue'.client = Stopper => queue'.data \subseteq {Stop}
      BY DEF QueueInv, ClientWrote
    <2>3. ASSUME NEW h \in Hooks, queue'.client = h
          PROVE  /\ queue'.data \subseteq Own(h)'
                 /\ hookPc'[h] # "start"
                 /\ ~Printed(h)'
      BY <1>1, <1>2, <2>3 DEF QueueInv, ClientWrote
    <2> QED
      BY <2>1, <2>2, <2>3 DEF ClientWrote
  <1>4. LineIsClients'
    BY <1>1 DEF QueueInv, LineIsClients
  <1>5. PrintedIsWritten'
    <2> SUFFICES ASSUME NEW h \in Hooks
                 PROVE  /\ hookPc'[h] = "start" => written'[h] = 0
                        /\ Printed(h) =>
                              hookPc'[h] # "start" /\ written'[h] = Parts
      BY <1>2 DEF PrintedIsWritten
    <2>1. written[h] \in 0..Parts /\ written'[h] \in 0..Parts
      BY DEF QueueInv, Types
    <2> QED
      BY <2>1, WinAssumption DEF QueueInv, PrintedIsWritten
  <1>6. LinesCostInstances'
    BY DEF QueueInv, LinesCostInstances
  <1> QED
    BY <1>3, <1>4, <1>5, <1>6 DEF QueueInv

\* Nobody who had an instance before, or the stopper, gets the one on offer.
LEMMA AcceptKeepsInv ==
    ASSUME QueueInv, Types',
           UNCHANGED <<handles, serverPc, line, out, written>>,
           NEW p \in Hooks \cup {Stopper},
           Offered(queue), queue' = Accept(queue, p),
           p \in Hooks => hookPc[p] = "start" /\ hookPc'[p] # "start",
           \A h \in Hooks : hookPc'[h] = "start" => hookPc[h] = "start",
           \A h \in Hooks \ {p} : hookPc'[h] = hookPc[h]
    PROVE  QueueInv'
  <1>1. queue.client = NoOne /\ queue.data = {}
    BY DEF QueueInv, ClientWrote, Offered
  <1>2. queue'.client = p /\ queue'.data = {}
    BY <1>1 DEF Accept, QueueInv, Types, Instances
  <1>3. \A h \in Hooks : Printed(h)' <=> Printed(h)
    BY DEF Printed
  <1>4. ClientWrote'
    <2>1. p # NoOne
      BY WinAssumption
    <2> QED
      BY <1>2, <1>3, <2>1 DEF ClientWrote, QueueInv, PrintedIsWritten
  <1>5. LineIsClients'
    BY <1>1 DEF QueueInv, LineIsClients
  <1>6. PrintedIsWritten'
    BY <1>3 DEF QueueInv, PrintedIsWritten
  <1>7. LinesCostInstances'
    BY DEF QueueInv, LinesCostInstances
  <1> QED
    BY <1>4, <1>5, <1>6, <1>7 DEF QueueInv

\* A hook's step, in types.
LEMMA HookTypes ==
    ASSUME Types, NEW h \in Hooks, NEW from, NEW to, HookGoes(h, from, to),
           to \in {"write", "gate", "connect", "listen", "returned", "failed",
                   "killed"},
           HookOnly, UNCHANGED handles,
           queue' \in Instances, gate' \in [Gates -> Instances],
           written' \in [Hooks -> 0..Parts]
    PROVE  /\ Types'
           /\ hookPc'[h] = to
           /\ \A g \in Hooks \ {h} : hookPc'[g] = hookPc[g]
  BY DEF Types, HookGoes, HookOnly, serverVars, extensionVars

LEMMA GateTypes ==
    ASSUME Types, NEW g, NEW i \in Instances, SetGate(g, i)
    PROVE  gate' \in [Gates -> Instances]
  BY DEF Types, SetGate

LEMMA OpenKeepsInv ==
    ASSUME QueueInv, NEW h \in Hooks, OpenQueue(h)
    PROVE  QueueInv'
  <1>1. /\ UNCHANGED <<handles, gate, written, serverPc, line, out>>
        /\ HookOnly
    BY DEF OpenQueue, HookOnly, serverVars
  <1>2. Types
    BY DEF QueueInv
  <1>3. gate' \in [Gates -> Instances] /\ written' \in [Hooks -> 0..Parts]
    BY <1>1, <1>2 DEF Types
  <1>4. CASE Offered(queue) /\ queue' = Accept(queue, h)
                            /\ HookGoes(h, "start", "write")
    <2>1. queue' \in Instances
      BY <1>2, <1>4, InstanceFacts DEF Types
    <2>2. /\ Types'
          /\ hookPc'[h] = "write"
          /\ \A g \in Hooks \ {h} : hookPc'[g] = hookPc[g]
      BY <1>1, <1>2, <1>3, <1>4, <2>1, HookTypes
    <2>3. hookPc[h] = "start"
      BY <1>4 DEF HookGoes
    <2> QED
      BY <1>1, <1>4, <2>2, <2>3, AcceptKeepsInv
  <1>5. CASE HookGoes(h, "start", "failed") /\ UNCHANGED queue
    <2>1. /\ Types'
          /\ hookPc'[h] = "failed"
          /\ \A g \in Hooks \ {h} : hookPc'[g] = hookPc[g]
      BY <1>1, <1>2, <1>3, <1>5, HookTypes DEF Types
    <2>2. \A g \in Hooks : written[g] \in Nat
      BY <1>2 DEF Types
    <2> QED
      BY <1>1, <1>5, <2>1, <2>2, SameClientKeepsInv
  <1> QED
    BY <1>4, <1>5 DEF OpenQueue

LEMMA WriteKeepsInv ==
    ASSUME QueueInv, NEW h \in Hooks, WriteQueue(h)
    PROVE  QueueInv'
  <1> DEFINE going == written[h] < Parts /\ queue.client = h
  <1>1. /\ UNCHANGED <<handles, gate, serverPc, line, out>>
        /\ HookOnly
        /\ queue' = IF going THEN Put(queue, <<h, written[h] + 1>>)
                             ELSE HangUp(queue, h)
        /\ written' = [written EXCEPT ![h] = IF going THEN @ + 1 ELSE @]
        /\ HookGoes(h, "write", IF going THEN "write" ELSE "gate")
    BY DEF WriteQueue, HookOnly, serverVars
  <1>2. Types /\ queue \in Instances
    BY DEF QueueInv, Types
  <1>3. written[h] \in 0..Parts /\ Parts \in Nat \ {0}
    BY <1>2, WinAssumption DEF Types
  <1>4. written' \in [Hooks -> 0..Parts]
    <2>1. (IF going THEN written[h] + 1 ELSE written[h]) \in 0..Parts
      BY <1>3
    <2> QED
      BY <1>1, <1>2, <2>1 DEF Types
  <1>5. queue' \in Instances
    <2>1. CASE going
      <3>1. <<h, written[h] + 1>> \in Hooks \X (1..Parts)
        BY <1>3, <2>1
      <3> QED
        BY <1>1, <1>2, <2>1, <3>1, InstanceFacts
    <2>2. CASE ~going
      BY <1>1, <1>2, <2>2, InstanceFacts
    <2> QED
      BY <2>1, <2>2
  <1>6. gate' \in [Gates -> Instances]
    BY <1>1, <1>2 DEF Types
  <1>7. /\ Types'
        /\ hookPc'[h] \in {"write", "gate"}
        /\ \A g \in Hooks \ {h} : hookPc'[g] = hookPc[g]
    <2>1. CASE going
      BY <1>1, <1>2, <1>4, <1>5, <1>6, <2>1, HookTypes
    <2>2. CASE ~going
      BY <1>1, <1>2, <1>4, <1>5, <1>6, <2>2, HookTypes
    <2> QED
      BY <2>1, <2>2
  <1>8. \A g \in Hooks :
           /\ written[g] \in Nat
           /\ written[g] <= written'[g]
           /\ g # h => written'[g] = written[g]
           /\ g = h => written'[g] = IF going THEN written[h] + 1
                                              ELSE written[h]
    BY <1>1, <1>2, <1>3 DEF Types
  <1>9. queue'.client = queue.client
    BY <1>1, <1>2 DEF Put, HangUp, Instances
  <1>10. CASE going
    <2>1. queue'.data = queue.data \cup {<<h, written[h] + 1>>}
      BY <1>1, <1>2, <1>10 DEF Put, Instances
    <2>2. <<h, written[h] + 1>> \in Own(h)'
      BY <1>3, <1>8, <1>10 DEF Own
    <2>3. queue.client = h /\ h # NoOne /\ h # Stopper
      BY <1>10, WinAssumption
    <2> QED
      BY <1>1, <1>7, <1>8, <1>9, <2>1, <2>2, <2>3, SameClientKeepsInv
  <1>11. CASE ~going
    <2>1. queue'.data = queue.data
      BY <1>1, <1>2, <1>11 DEF HangUp, Instances
    <2> QED
      BY <1>1, <1>7, <1>8, <1>9, <2>1, SameClientKeepsInv
  <1> QED
    BY <1>10, <1>11

\* Steps of a hook at its gate, and its death.
LEMMA GateStepTypes ==
    ASSUME Types, NEW h \in Hooks,
           MakeGate(h) \/ ConnectGate(h) \/ ReadGate(h) \/ Kill(h)
    PROVE  /\ Types' /\ UNCHANGED <<handles, serverPc, line, out, written>>
           /\ queue' \in {queue, HangUp(queue, h)}
           /\ hookPc'[h] \in {"connect", "listen", "returned", "failed",
                              "killed"}
           /\ \A g \in Hooks \ {h} : hookPc'[g] = hookPc[g]
  <1>1. /\ UNCHANGED <<handles, serverPc, line, out, written>>
        /\ queue' \in {queue, HangUp(queue, h)}
        /\ HookOnly
    BY DEF MakeGate, ConnectGate, ReadGate, Kill, HookOnly, serverVars,
           queueVars
  <1>2. queue' \in Instances /\ written' \in [Hooks -> 0..Parts]
    BY <1>1, InstanceFacts DEF Types
  <1>3. gate' \in [Gates -> Instances]
    <2>1. CASE UNCHANGED gate
      BY <2>1 DEF Types
    <2>2. CASE SetGate(parent[h], Fresh) \/ SetGate(parent[h], NoInstance)
      BY <2>2, GateTypes, InstanceFacts
    <2> QED
      BY <2>1, <2>2, Zenon DEF MakeGate, ConnectGate, ReadGate, Kill
  <1>4. PICK from \in {"write", "gate", "connect", "listen"},
             to \in {"connect", "listen", "returned", "failed", "killed"} :
            HookGoes(h, from, to)
    BY DEF MakeGate, ConnectGate, ReadGate, Kill
  <1> QED
    BY <1>1, <1>2, <1>3, <1>4, HookTypes

LEMMA GateStepKeepsInv ==
    ASSUME QueueInv, NEW h \in Hooks,
           MakeGate(h) \/ ConnectGate(h) \/ ReadGate(h) \/ Kill(h)
    PROVE  QueueInv'
  <1>1. Types /\ queue \in Instances /\ \A g \in Hooks : written[g] \in Nat
    BY DEF QueueInv, Types
  <1>2. /\ Types' /\ UNCHANGED <<handles, serverPc, line, out, written>>
        /\ queue' \in {queue, HangUp(queue, h)}
        /\ hookPc'[h] \in {"connect", "listen", "returned", "failed", "killed"}
        /\ \A g \in Hooks \ {h} : hookPc'[g] = hookPc[g]
    BY <1>1, GateStepTypes
  <1>3. queue'.client = queue.client /\ queue'.data = queue.data
    BY <1>1, <1>2 DEF HangUp, Instances
  <1> QED
    BY <1>1, <1>2, <1>3, SameClientKeepsInv

-----------------------------------------------------------------------------
(* Steps of the extension and the stopper.                                 *)

LEMMA SessionTypes ==
    ASSUME Types, NEW h \in Hooks, OnStart(h) \/ SessionEnds(h) \/ MainEnds
    PROVE  /\ Types'
           /\ UNCHANGED <<queue, handles, serverPc, line, out, gate, parent,
                          hookPc, written, stopperPc>>
  <1>1. UNCHANGED <<queue, handles, serverPc, line, out, gate, parent, hookPc,
                    written, stopperPc>>
    BY DEF OnStart, SessionEnds, MainEnds, queueVars, ExtensionOnly, serverVars,
           hookVars
  <1>2. session' \in [Hooks -> {"none", "running", "dropped", "over"}]
    BY DEF OnStart, SessionEnds, MainEnds, Types
  <1>3. stops' \in Seq(Hooks \cup {Main})
    <2>1. stops' \in {stops, Append(stops, h), Append(stops, Main)}
      BY DEF OnStart, SessionEnds, MainEnds
    <2>2. stops \in Seq(Hooks \cup {Main})
      BY DEF Types
    <2>3. /\ Append(stops, h) \in Seq(Hooks \cup {Main})
          /\ Append(stops, Main) \in Seq(Hooks \cup {Main})
      BY <2>2
    <2> QED
      BY <2>1, <2>2, <2>3
  <1>4. stops # <<>> => stops' # <<>>
    <2>1. stops' \in {stops, Append(stops, h), Append(stops, Main)}
      BY DEF OnStart, SessionEnds, MainEnds
    <2> QED
      BY <2>1 DEF Types
  <1> QED
    BY <1>1, <1>2, <1>3, <1>4 DEF Types

LEMMA StopperTypes ==
    ASSUME Types, StopperStep
    PROVE  /\ Types'
           /\ UNCHANGED <<handles, serverPc, line, out, parent, hookPc, written,
                          session>>
  <1>1. UNCHANGED <<handles, serverPc, line, out, parent, hookPc, written,
                    session>>
    BY DEF StopperStep, StopOpen, StopWrite, ExtensionOnly, serverVars,
           hookVars
  <1>0. stops # <<>>
    BY DEF StopperStep, StopOpen, StopWrite, Types
  <1>2. Head(stops) \in Hooks \cup {Main}
        /\ Tail(stops) \in Seq(Hooks \cup {Main})
    BY <1>0 DEF Types
  <1>3. /\ stops' \in Seq(Hooks \cup {Main}) /\ stopperPc' \in {"idle", "write"}
        /\ stopperPc' = "write" => stops' # <<>>
    <2>1. /\ stops' \in {stops, Tail(stops)}
          /\ stopperPc' \in {"idle", "write"}
          /\ stopperPc' = "write" => stops' = stops
      BY <1>0 DEF StopperStep, StopOpen, StopWrite, Types
    <2> QED
      BY <1>0, <1>2, <2>1 DEF Types
  <1>4. queue' \in Instances
    <2>1. queue' \in {queue, Accept(queue, Stopper), Told(queue)}
      BY DEF StopperStep, StopOpen, StopWrite
    <2> QED
      BY <2>1, InstanceFacts DEF Types
  <1>5. gate' \in [Gates -> Instances]
    <2>1. CASE UNCHANGED gate
      BY <2>1 DEF Types
    <2>2. CASE Head(stops) # Main /\ ~UNCHANGED gate
      <3> DEFINE i == gate[parent[Head(stops)]]
      <3>1. i \in Instances
        BY <1>2, <2>2, ParentInGates DEF Types
      <3>2. Accept(i, Stopper) \in Instances /\ Told(i) \in Instances
        BY <3>1, InstanceFacts
      <3>3. \/ SetGate(parent[Head(stops)], Accept(i, Stopper))
            \/ SetGate(parent[Head(stops)], Told(i))
        BY <2>2, Zenon DEF StopperStep, StopOpen, StopWrite
      <3> QED
        BY <3>2, <3>3, GateTypes
    <2>3. Head(stops) = Main => UNCHANGED gate
      BY DEF StopperStep, StopOpen, StopWrite
    <2> QED
      BY <2>1, <2>2, <2>3
  <1> QED
    BY <1>1, <1>3, <1>4, <1>5 DEF Types

LEMMA StopperKeepsInv == QueueInv /\ StopperStep => QueueInv'
  <1> SUFFICES ASSUME QueueInv, StopperStep PROVE QueueInv'
    OBVIOUS
  <1>1. Types /\ queue \in Instances /\ \A h \in Hooks : written[h] \in Nat
    BY DEF QueueInv, Types
  <1>2. /\ Types'
        /\ UNCHANGED <<handles, serverPc, line, out, parent, hookPc, written,
                       session>>
    BY <1>1, StopperTypes
  <1>3. CASE Offered(queue) /\ queue' = Accept(queue, Stopper)
    <2>1. Stopper \in Hooks \cup {Stopper} /\ Stopper \notin Hooks
      BY WinAssumption
    <2> QED
      BY <1>2, <1>3, <2>1, AcceptKeepsInv
  <1>4. CASE queue' \in {queue, Told(queue)}
    <2>1. /\ queue'.client = queue.client
          /\ queue.client # Stopper => queue'.data = queue.data
          /\ queue'.data \subseteq queue.data \cup {Stop}
      BY <1>1, <1>4 DEF Told, Put, HangUp, Instances
    <2>2. NoOne # Stopper /\ Stopper \notin Hooks
      BY WinAssumption
    <2> QED
      BY <1>1, <1>2, <2>1, <2>2, SameClientKeepsInv
  <1>5. \/ Offered(queue) /\ queue' = Accept(queue, Stopper)
        \/ queue' \in {queue, Told(queue)}
    BY DEF StopperStep, StopOpen, StopWrite
  <1> QED
    BY <1>3, <1>4, <1>5

LEMMA SessionKeepsInv ==
    ASSUME QueueInv, NEW h \in Hooks, OnStart(h) \/ SessionEnds(h) \/ MainEnds
    PROVE  QueueInv'
  <1>1. Types /\ \A g \in Hooks : written[g] \in Nat
    BY DEF QueueInv, Types
  <1>2. /\ Types'
        /\ UNCHANGED <<queue, handles, serverPc, line, out, gate, parent,
                       hookPc, written, stopperPc>>
    BY <1>1, SessionTypes
  <1> QED
    BY <1>1, <1>2, SameClientKeepsInv

LEMMA MainKeepsInv == QueueInv /\ MainEnds => QueueInv'
  <1> SUFFICES ASSUME QueueInv, MainEnds PROVE QueueInv'
    OBVIOUS
  <1>1. UNCHANGED <<queue, handles, serverPc, line, out, gate, parent, hookPc,
                    written, session, stopperPc>>
    BY DEF MainEnds, queueVars, ExtensionOnly, serverVars, hookVars
  <1>2. stops' = Append(stops, Main) /\ stops \in Seq(Hooks \cup {Main})
    BY DEF MainEnds, QueueInv, Types
  <1>3. stops' \in Seq(Hooks \cup {Main}) /\ stops' # <<>>
    BY <1>2
  <1>4. Types'
    BY <1>1, <1>3 DEF QueueInv, Types
  <1>5. \A g \in Hooks : written[g] \in Nat
    BY DEF QueueInv, Types
  <1> QED
    BY <1>1, <1>4, <1>5, SameClientKeepsInv

LEMMA QueueStep == QueueInv /\ [Next]_vars => QueueInv'
  <1> SUFFICES ASSUME QueueInv, [Next]_vars PROVE QueueInv'
    OBVIOUS
  <1>1. CASE Serve
    BY <1>1, CreateKeepsInv, ConnectKeepsInv, ClientComesKeepsInv,
       ReadKeepsInv, ReadEndKeepsInv, PrintKeepsInv DEF Serve
  <1>2. ASSUME NEW h \in Hooks,
               \/ OpenQueue(h) \/ HookStep(h) \/ Kill(h)
               \/ OnStart(h) \/ SessionEnds(h)
        PROVE  QueueInv'
    BY <1>2, OpenKeepsInv, WriteKeepsInv, GateStepKeepsInv, SessionKeepsInv
    DEF HookStep
  <1>3. CASE UNCHANGED vars
    <2>1. Types'
      BY <1>3 DEF QueueInv, Types, vars, queueVars, serverVars, hookVars,
                  extensionVars
    <2>2. \A h \in Hooks : written[h] \in Nat
      BY DEF QueueInv, Types
    <2> QED
      BY <1>3, <2>1, <2>2, SameClientKeepsInv
      DEF vars, queueVars, serverVars, hookVars
  <1> QED
    BY <1>1, <1>2, <1>3, MainKeepsInv, StopperKeepsInv DEF Next

\* Whatever server, hooks and killers do in whatever order, the instance, the
\* line and the lines printed hold only what hooks have written (server.cpp:
\* 52-97, utils.cpp:199-237).
THEOREM QueueInvHolds == Spec => []QueueInv
  BY InitQueueInv, QueueStep, PTL DEF Spec

\* For any number of hooks and instances, a line the server prints costs an
\* instance of the pipe, and nothing else does (server.cpp:60-91).
THEOREM LinesCost == Spec => []LinesCostInstances
  BY QueueInvHolds, PTL DEF QueueInv

-----------------------------------------------------------------------------
(* The queue implements the request channel.                               *)

LEMMA ChannelInit == Init => Channel!Init
  <1> SUFFICES ASSUME Init PROVE Channel!Init
    OBVIOUS
  <1>1. \A g \in Hooks : written[g] # Parts
    BY WinAssumption DEF Init
  <1> QED
    BY <1>1 DEF Init, Channel!Init

\* Requests of different hooks are different.
LEMMA RequestsDiffer ==
    ASSUME NEW g \in Hooks, NEW h \in Hooks, Request(g) = Request(h)
    PROVE  g = h
  <1>1. <<g, 1>> \in Request(h)
    BY WinAssumption DEF Request
  <1> QED
    BY <1>1 DEF Request

LEMMA PrintRefines ==
    ASSUME QueueInv, PrintLine
    PROVE  Channel!Next
  <1>1. /\ serverPc = "print" /\ out' = Append(out, line)
        /\ UNCHANGED written
    BY ServerFrame DEF PrintLine, ServerGoes, Serve
  <1>2. /\ line \in SUBSET (Hooks \X (1..Parts))
        /\ \A h \in Hooks : line = Request(h) =>
              ~Printed(h) /\ written[h] = Parts
    BY <1>1, LineIsNew
  <1>3. CASE line \notin {Request(h) : h \in Hooks}
    <2>1. Channel!Garbage(line)
      BY <1>1, <1>2, <1>3 DEF Channel!Garbage
    <2> QED
      BY <1>2, <2>1 DEF Channel!Next
  <1>4. ASSUME NEW h \in Hooks, line = Request(h)
        PROVE  Channel!Next
    <2>1. DOMAIN out = 1..Len(out)
      BY DEF QueueInv, Types
    <2>2. ~Channel!Seen(line)
      BY <1>2, <1>4, <2>1 DEF Channel!Seen, Printed
    <2>3. Channel!Deliver(line)
      BY <1>1, <1>2, <1>4, <2>2 DEF Channel!Deliver
    <2> QED
      BY <1>4, <2>3 DEF Channel!Next
  <1> QED
    BY <1>3, <1>4

LEMMA WriteRefines ==
    ASSUME QueueInv, NEW h \in Hooks, WriteQueue(h)
    PROVE  [Channel!Next]_(Channel!chanVars)
  <1>1. UNCHANGED out
    BY DEF WriteQueue, HookOnly, serverVars
  <1>2. written \in [Hooks -> 0..Parts] /\ Parts \in Nat \ {0}
    BY WinAssumption DEF QueueInv, Types
  <1>3. CASE UNCHANGED written
    BY <1>1, <1>3 DEF Channel!chanVars
  <1>4. CASE written' = [written EXCEPT ![h] = @ + 1] /\ written[h] < Parts
    <2>1. \A g \in Hooks :
             written'[g] = IF g = h THEN written[h] + 1 ELSE written[g]
      BY <1>2, <1>4
    <2>2. CASE written[h] + 1 # Parts
      <3>1. {g \in Hooks : written'[g] = Parts}
              = {g \in Hooks : written[g] = Parts}
        BY <1>2, <1>4, <2>1, <2>2
      <3> QED
        BY <1>1, <3>1 DEF Channel!chanVars
    <2>3. CASE written[h] + 1 = Parts
      <3>1. {g \in Hooks : written'[g] = Parts}
              = {g \in Hooks : written[g] = Parts} \cup {h}
        BY <1>2, <1>4, <2>1, <2>3
      <3>2. written[h] # Parts
        BY <1>2, <2>3
      <3>3. Request(h) \notin {Request(k) : k \in
                                 {g \in Hooks : written[g] = Parts}}
        BY <3>2, RequestsDiffer
      <3>4. {Request(k) : k \in {g \in Hooks : written'[g] = Parts}}
              = {Request(k) : k \in {g \in Hooks : written[g] = Parts}}
                  \cup {Request(h)}
        BY <3>1
      <3>5. Channel!Send(Request(h))
        BY <1>1, <3>3, <3>4 DEF Channel!Send
      <3> QED
        BY <3>5 DEF Channel!Next
    <2> QED
      BY <2>2, <2>3
  <1>5. UNCHANGED written
        \/ (written' = [written EXCEPT ![h] = @ + 1] /\ written[h] < Parts)
    <2>1. [written EXCEPT ![h] = @] = written
      BY <1>2
    <2> QED
      BY <2>1 DEF WriteQueue
  <1> QED
    BY <1>3, <1>4, <1>5

LEMMA OthersRefine ==
    ASSUME QueueInv, UNCHANGED <<out, written>>
    PROVE  [Channel!Next]_(Channel!chanVars)
  BY DEF Channel!chanVars

LEMMA ChannelStep ==
    QueueInv /\ [Next]_vars => [Channel!Next]_(Channel!chanVars)
  <1> SUFFICES ASSUME QueueInv, [Next]_vars
               PROVE  [Channel!Next]_(Channel!chanVars)
    OBVIOUS
  <1>1. CASE PrintLine
    BY <1>1, PrintRefines
  <1>2. CASE Serve /\ ~PrintLine
    <2>1. UNCHANGED <<out, written>>
      BY <1>2, ServerFrame
      DEF Serve, CreateQueue, ConnectQueue, ClientComes, ReadQueue, ReadEnd
    <2> QED
      BY <2>1, OthersRefine
  <1>3. ASSUME NEW h \in Hooks, WriteQueue(h)
        PROVE  [Channel!Next]_(Channel!chanVars)
    BY <1>3, WriteRefines
  <1>4. CASE StopperStep \/ MainEnds \/ UNCHANGED vars
    <2>1. UNCHANGED <<out, written>>
      BY <1>4
      DEF StopperStep, StopOpen, StopWrite, MainEnds, ExtensionOnly,
          serverVars, hookVars, vars
    <2> QED
      BY <2>1, OthersRefine
  <1>5. ASSUME NEW h \in Hooks,
               \/ OpenQueue(h) \/ MakeGate(h) \/ ConnectGate(h)
               \/ ReadGate(h) \/ Kill(h) \/ OnStart(h) \/ SessionEnds(h)
        PROVE  [Channel!Next]_(Channel!chanVars)
    <2>1. UNCHANGED <<out, written>>
      BY <1>5
      DEF OpenQueue, MakeGate, ConnectGate, ReadGate, Kill, OnStart,
          SessionEnds, ExtensionOnly, HookOnly, serverVars, hookVars
    <2> QED
      BY <2>1, OthersRefine
  <1> QED
    BY <1>1, <1>2, <1>3, <1>4, <1>5 DEF Next, HookStep

\* Whatever hooks are started or killed, and however many knock at once, a
\* request comes out of the pipe at most once, and only if it was sent whole
\* (server.cpp:60-91, utils.cpp:199-237).
THEOREM PipesAreChannel == Spec => IsRequestChannel
  BY ChannelInit, ChannelStep, QueueInvHolds, PTL
  DEF Spec, IsRequestChannel, Channel!Spec

-----------------------------------------------------------------------------
(* The gates, while under each session hooks follow one another.           *)

LEMMA InitGateInv == Init => GateInv
  <1> SUFFICES ASSUME Init PROVE GateInv
    OBVIOUS
  <1>1. 1..Len(stops) = {}
    BY DEF Init
  <1>2. GateOwned
    BY DEF Init, GateOwned, NoInstance
  <1>3. CallIsOwn /\ ThroughIsOver
    BY DEF Init, CallIsOwn, ThroughIsOver, AtGate, Through
  <1>4. StopsOnce
    BY <1>1, Zenon DEF StopsOnce
  <1>5. SessionIsAsked
    BY DEF Init, SessionIsAsked
  <1> QED
    BY <1>2, <1>3, <1>4, <1>5 DEF GateInv

\* Steps that concern no gate and no hook.
LEMMA ApartKeepsGateInv ==
    ASSUME GateInv, UNCHANGED <<gate, parent, hookPc, written, session, stops,
                                stopperPc>>
    PROVE  GateInv'
  <1>1. GateOwned'
    BY DEF GateInv, GateOwned, AtGate
  <1>2. CallIsOwn' /\ ThroughIsOver'
    BY DEF GateInv, CallIsOwn, ThroughIsOver, AtGate, Through, LastCall,
           Released
  <1>3. StopsOnce' /\ SessionIsAsked'
    BY DEF GateInv, StopsOnce, SessionIsAsked
  <1> QED
    BY <1>1, <1>2, <1>3 DEF GateInv

\* Steps of one hook.
LEMMA HookKeepsGateInv ==
    ASSUME GateInv, NEW h \in Hooks,
           UNCHANGED <<parent, session, stops, stopperPc>>,
           \A k \in Hooks \ {h} :
              hookPc'[k] = hookPc[k] /\ written'[k] = written[k],
           hookPc'[h] # "start", written[h] # 0 => written'[h] # 0,
           GateOwned', CallIsOwn',
           Through(h)' => Released(h)' /\ LastCall(h)
    PROVE  GateInv'
  <1>1. \A k \in Hooks : LastCall(k)' <=> LastCall(k)
    BY DEF LastCall
  <1>2. ASSUME NEW k \in Hooks, Through(k)'
        PROVE  Released(k)' /\ LastCall(k)'
    <2>1. CASE k = h
      BY <1>1, <1>2, <2>1
    <2>2. CASE k # h
      BY <1>1, <1>2, <2>2 DEF GateInv, ThroughIsOver, Through, Released
    <2> QED
      BY <2>1, <2>2
  <1>3. ThroughIsOver'
    BY <1>2 DEF ThroughIsOver
  <1>4. StopsOnce'
    BY DEF GateInv, StopsOnce
  <1>5. SessionIsAsked'
    BY DEF GateInv, SessionIsAsked
  <1> QED
    BY <1>3, <1>4, <1>5 DEF GateInv

\* A step of one hook changes only its own.
LEMMA HookFrame ==
    ASSUME Types, NEW h \in Hooks, NEW from, NEW to, HookGoes(h, from, to),
           HookOnly
    PROVE  /\ hookPc[h] = from /\ hookPc'[h] = to
           /\ \A k \in Hooks \ {h} : hookPc'[k] = hookPc[k]
           /\ UNCHANGED <<parent, session, stops, stopperPc>>
  BY DEF Types, HookGoes, HookOnly, extensionVars

\* A hook before its gate leaves the gates as they are.
LEMMA BeforeGateKeeps ==
    ASSUME GateInv, NEW h \in Hooks,
           ~AtGate(h), ~AtGate(h)', UNCHANGED <<gate, parent, session, stops,
                                                stopperPc>>,
           \A k \in Hooks \ {h} : hookPc'[k] = hookPc[k]
    PROVE  GateOwned' /\ CallIsOwn'
  <1>1. \A k \in Hooks : AtGate(k)' <=> AtGate(k)
    BY DEF AtGate
  <1>2. GateOwned'
    BY <1>1 DEF GateInv, GateOwned
  <1>3. CallIsOwn'
    BY <1>1 DEF GateInv, CallIsOwn, LastCall
  <1> QED
    BY <1>2, <1>3

LEMMA OpenKeepsGateInv ==
    ASSUME QueueInv, GateInv, NEW h \in Hooks, OpenQueue(h)
    PROVE  GateInv'
  <1>1. PICK to \in {"write", "failed"} : HookGoes(h, "start", to)
    BY DEF OpenQueue
  <1>2. HookOnly /\ UNCHANGED <<gate, written>>
    BY DEF OpenQueue
  <1>3. /\ hookPc[h] = "start" /\ hookPc'[h] \in {"write", "failed"}
        /\ \A k \in Hooks \ {h} : hookPc'[k] = hookPc[k]
        /\ UNCHANGED <<parent, session, stops, stopperPc>>
    BY <1>1, <1>2, HookFrame DEF QueueInv
  <1>4. GateOwned' /\ CallIsOwn'
    BY <1>2, <1>3, BeforeGateKeeps DEF AtGate
  <1>5. LastCall(h)
    <2>1. session[h] = "none"
      BY <1>3 DEF GateInv, SessionIsAsked
    <2> QED
      BY <2>1 DEF GateInv, StopsOnce, LastCall
  <1>6. Released(h)'
    BY <1>2, <1>3 DEF QueueInv, PrintedIsWritten, Released
  <1> QED
    BY <1>2, <1>3, <1>4, <1>5, <1>6, HookKeepsGateInv

LEMMA WriteKeepsGateInv ==
    ASSUME QueueInv, GateInv, NEW h \in Hooks, WriteQueue(h)
    PROVE  GateInv'
  <1>1. PICK to \in {"write", "gate"} : HookGoes(h, "write", to)
    BY DEF WriteQueue
  <1>2. HookOnly /\ UNCHANGED gate
    BY DEF WriteQueue
  <1>3. /\ hookPc[h] = "write" /\ hookPc'[h] \in {"write", "gate"}
        /\ \A k \in Hooks \ {h} : hookPc'[k] = hookPc[k]
        /\ UNCHANGED <<parent, session, stops, stopperPc>>
    BY <1>1, <1>2, HookFrame DEF QueueInv
  <1>4. GateOwned' /\ CallIsOwn'
    BY <1>2, <1>3, BeforeGateKeeps DEF AtGate
  <1>5. /\ \A k \in Hooks \ {h} : written'[k] = written[k]
        /\ written[h] # 0 => written'[h] # 0
    <2>1. written[h] \in 0..Parts /\ Parts \in Nat
      BY WinAssumption DEF QueueInv, Types
    <2> QED
      BY <2>1 DEF WriteQueue, QueueInv, Types
  <1> QED
    BY <1>3, <1>4, <1>5, HookKeepsGateInv DEF Through

\* Who acts at a gate is the only one there.
LEMMA AloneAtGate ==
    ASSUME OneChainEach, NEW h \in Hooks, NEW k \in Hooks, Active(h),
           parent[k] = parent[h], AtGate(k)
    PROVE  k = h
  BY DEF OneChainEach, Active, AtGate

LEMMA MakeKeepsGateInv ==
    ASSUME QueueInv, GateInv, OneChainEach, NEW h \in Hooks, MakeGate(h)
    PROVE  GateInv'
  <1>1. HookOnly /\ UNCHANGED written
    BY DEF MakeGate
  <1>2. Types /\ parent[h] \in Gates
    BY ParentInGates DEF QueueInv
  <1>3. hookPc[h] = "gate"
    BY DEF MakeGate, HookGoes
  <1>4. ~gate[parent[h]].exists
    <2> SUFFICES ASSUME gate[parent[h]].exists PROVE FALSE
      OBVIOUS
    <2>1. PICK k \in Hooks : parent[k] = parent[h] /\ AtGate(k)
      BY <1>2 DEF GateInv, GateOwned
    <2>2. k = h
      BY <1>3, <2>1, AloneAtGate DEF Active
    <2> QED
      BY <1>3, <2>1, <2>2 DEF AtGate
  <1>5. HookGoes(h, "gate", "connect") /\ SetGate(parent[h], Fresh)
    BY <1>4 DEF MakeGate
  <1>6. /\ hookPc'[h] = "connect"
        /\ \A k \in Hooks \ {h} : hookPc'[k] = hookPc[k]
        /\ UNCHANGED <<parent, session, stops, stopperPc>>
    BY <1>1, <1>2, <1>5, HookFrame
  <1>7. \A g \in Gates : gate'[g] = IF g = parent[h] THEN Fresh ELSE gate[g]
    BY <1>2, <1>5 DEF SetGate, Types
  <1>8. Fresh.client = NoOne /\ Fresh.data = {}
    BY DEF Fresh, NoInstance
  <1>9. AtGate(h)' /\ \A k \in Hooks \ {h} : AtGate(k)' <=> AtGate(k)
    BY <1>6 DEF AtGate
  <1>10. GateOwned'
    BY <1>6, <1>7, <1>8, <1>9 DEF GateInv, GateOwned, AtGate
  <1>11. CallIsOwn'
    <2> SUFFICES ASSUME NEW k \in Hooks, AtGate(k)',
                        gate'[parent[k]].client # NoOne
                 PROVE  session[k] = "over" /\ LastCall(k)'
      BY <1>6 DEF CallIsOwn
    <2>1. parent[k] # parent[h] /\ parent[k] \in Gates
      BY <1>2, <1>7, <1>8, ParentInGates
    <2>2. AtGate(k) /\ gate[parent[k]].client # NoOne
      BY <1>7, <1>9, <2>1
    <2> QED
      BY <1>6, <2>2 DEF GateInv, CallIsOwn, LastCall
  <1> QED
    BY <1>1, <1>6, <1>10, <1>11, HookKeepsGateInv DEF Through

\* A hook that leaves its gate.
LEMMA LeavingKeepsGateInv ==
    ASSUME QueueInv, GateInv, OneChainEach, NEW h \in Hooks, AtGate(h),
           UNCHANGED <<written, parent, session, stops, stopperPc>>,
           \A k \in Hooks \ {h} : hookPc'[k] = hookPc[k],
           Through(h)', SetGate(parent[h], NoInstance),
           gate[parent[h]].client # NoOne
    PROVE  GateInv'
  <1>1. Types /\ parent[h] \in Gates
    BY ParentInGates DEF QueueInv
  <1>2. \A g \in Gates :
           gate'[g] = IF g = parent[h] THEN NoInstance ELSE gate[g]
    BY <1>1 DEF SetGate, Types
  <1>3. ~NoInstance.exists /\ NoInstance.client = NoOne /\ NoInstance.data = {}
    BY DEF NoInstance
  <1>4. ~AtGate(h)' /\ \A k \in Hooks \ {h} : AtGate(k)' <=> AtGate(k)
    BY DEF AtGate, Through
  <1>5. GateOwned'
    BY <1>2, <1>3, <1>4 DEF GateInv, GateOwned
  <1>6. CallIsOwn'
    <2> SUFFICES ASSUME NEW k \in Hooks, AtGate(k)',
                        gate'[parent[k]].client # NoOne
                 PROVE  session[k] = "over" /\ LastCall(k)'
      BY DEF CallIsOwn
    <2>1. parent[k] # parent[h] /\ parent[k] \in Gates
      BY <1>1, <1>2, <1>3, ParentInGates
    <2>2. AtGate(k) /\ gate[parent[k]].client # NoOne
      BY <1>2, <1>4, <2>1
    <2> QED
      BY <2>2 DEF GateInv, CallIsOwn, LastCall
  <1>7. session[h] = "over" /\ LastCall(h)
    BY DEF GateInv, CallIsOwn
  <1> QED
    BY <1>5, <1>6, <1>7, HookKeepsGateInv DEF Through, Released

LEMMA ConnectGateKeepsGateInv ==
    ASSUME QueueInv, GateInv, OneChainEach, NEW h \in Hooks, ConnectGate(h)
    PROVE  GateInv'
  <1>1. HookOnly /\ UNCHANGED written /\ Types
    BY DEF ConnectGate, QueueInv
  <1>2. CASE gate[parent[h]].client = NoOne
    <2>1. HookGoes(h, "connect", "listen") /\ UNCHANGED gate
      BY <1>2 DEF ConnectGate
    <2>2. /\ hookPc[h] = "connect" /\ hookPc'[h] = "listen"
          /\ \A k \in Hooks \ {h} : hookPc'[k] = hookPc[k]
          /\ UNCHANGED <<parent, session, stops, stopperPc>>
      BY <1>1, <2>1, HookFrame
    <2>3. \A k \in Hooks : AtGate(k)' <=> AtGate(k)
      BY <2>2 DEF AtGate
    <2>4. GateOwned' /\ CallIsOwn'
      BY <2>1, <2>2, <2>3
      DEF GateInv, GateOwned, CallIsOwn, LastCall
    <2> QED
      BY <1>1, <2>2, <2>4, HookKeepsGateInv DEF Through
  <1>3. CASE gate[parent[h]].client # NoOne
    <2>1. HookGoes(h, "connect", "failed") /\ SetGate(parent[h], NoInstance)
      BY <1>3 DEF ConnectGate
    <2>2. /\ hookPc[h] = "connect" /\ hookPc'[h] = "failed"
          /\ \A k \in Hooks \ {h} : hookPc'[k] = hookPc[k]
          /\ UNCHANGED <<parent, session, stops, stopperPc>>
      BY <1>1, <2>1, HookFrame
    <2> QED
      BY <1>1, <1>3, <2>1, <2>2, LeavingKeepsGateInv DEF AtGate, Through
  <1> QED
    BY <1>2, <1>3

LEMMA ReadGateKeepsGateInv ==
    ASSUME QueueInv, GateInv, OneChainEach, NEW h \in Hooks, ReadGate(h)
    PROVE  GateInv'
  <1>1. HookOnly /\ UNCHANGED written /\ Types
    BY DEF ReadGate, QueueInv
  <1>2. HookGoes(h, "listen", "returned") /\ SetGate(parent[h], NoInstance)
    BY DEF ReadGate
  <1>3. /\ hookPc[h] = "listen" /\ hookPc'[h] = "returned"
        /\ \A k \in Hooks \ {h} : hookPc'[k] = hookPc[k]
        /\ UNCHANGED <<parent, session, stops, stopperPc>>
    BY <1>1, <1>2, HookFrame
  <1>4. gate[parent[h]].client # NoOne
    BY <1>1, ParentInGates DEF ReadGate, GateInv, GateOwned
  <1> QED
    BY <1>1, <1>2, <1>3, <1>4, LeavingKeepsGateInv DEF AtGate, Through

-----------------------------------------------------------------------------
(* Sessions and their stops.                                               *)

LEMMA AppendFacts ==
    ASSUME Types, NEW x \in Hooks \cup {Main}, stops' = Append(stops, x)
    PROVE  /\ Len(stops) \in Nat
           /\ Len(stops') = Len(stops) + 1
           /\ \A i \in 1..Len(stops) : stops'[i] = stops[i]
           /\ stops'[Len(stops) + 1] = x
  <1>1. stops \in Seq(Hooks \cup {Main})
    BY DEF Types
  <1> QED
    BY <1>1

LEMMA AppendKeepsLastCall ==
    ASSUME Types, NEW x \in Hooks \cup {Main}, stops' = Append(stops, x),
           UNCHANGED stopperPc, NEW h, h # x, LastCall(h)
    PROVE  LastCall(h)'
  <1>1. /\ Len(stops) \in Nat
        /\ Len(stops') = Len(stops) + 1
        /\ \A i \in 1..Len(stops) : stops'[i] = stops[i]
        /\ stops'[Len(stops) + 1] = x
    BY AppendFacts
  <1>2. ASSUME NEW i \in 1..Len(stops'), stops'[i] = h
        PROVE  i = 1 /\ stopperPc' = "write"
    BY <1>1, <1>2 DEF LastCall
  <1> QED
    BY <1>2 DEF LastCall

LEMMA StartKeepsGateInv ==
    ASSUME QueueInv, GateInv, NEW h \in Hooks, OnStart(h)
    PROVE  GateInv'
  <1>1. /\ Printed(h) /\ session[h] = "none"
        /\ UNCHANGED <<gate, parent, hookPc, written, stops, stopperPc>>
    BY DEF OnStart, ExtensionOnly, hookVars
  <1>2. /\ session'[h] # "none"
        /\ \A k \in Hooks \ {h} : session'[k] = session[k]
    BY DEF OnStart, QueueInv, Types
  <1>3. hookPc[h] # "start" /\ written[h] # 0
    BY <1>1, WinAssumption DEF QueueInv, PrintedIsWritten
  <1>4. GateOwned'
    BY <1>1 DEF GateInv, GateOwned, AtGate
  <1>5. \A k \in Hooks : LastCall(k)' <=> LastCall(k)
    BY <1>1 DEF LastCall
  <1>6. CallIsOwn'
    BY <1>1, <1>2, <1>5 DEF GateInv, CallIsOwn, AtGate
  <1>7. ThroughIsOver'
    BY <1>1, <1>2, <1>3, <1>5 DEF GateInv, ThroughIsOver, Through, Released
  <1>8. StopsOnce'
    BY <1>1, <1>2 DEF GateInv, StopsOnce
  <1>9. SessionIsAsked'
    BY <1>1, <1>2, <1>3 DEF GateInv, SessionIsAsked
  <1> QED
    BY <1>4, <1>6, <1>7, <1>8, <1>9 DEF GateInv

LEMMA EndKeepsGateInv ==
    ASSUME QueueInv, GateInv, NEW h \in Hooks, SessionEnds(h)
    PROVE  GateInv'
  <1>1. /\ session[h] = "running" /\ stops' = Append(stops, h)
        /\ UNCHANGED <<gate, parent, hookPc, written, stopperPc>>
    BY DEF SessionEnds, ExtensionOnly, hookVars
  <1>2. /\ session'[h] = "over"
        /\ \A k \in Hooks \ {h} : session'[k] = session[k]
    BY DEF SessionEnds, QueueInv, Types
  <1>3. Types
    BY DEF QueueInv
  <1>4. hookPc[h] # "start" /\ written[h] # 0
    BY <1>1 DEF GateInv, SessionIsAsked
  <1>5. ~Through(h)
    BY <1>1, <1>4 DEF GateInv, ThroughIsOver, Through, Released
  <1>6. ~(AtGate(h) /\ gate[parent[h]].client # NoOne)
    BY <1>1 DEF GateInv, CallIsOwn
  <1>7. ASSUME NEW k \in Hooks, k # h, LastCall(k) PROVE LastCall(k)'
    BY <1>1, <1>3, <1>7, AppendKeepsLastCall
  <1>8. GateOwned'
    BY <1>1 DEF GateInv, GateOwned, AtGate
  <1>9. CallIsOwn'
    <2> SUFFICES ASSUME NEW k \in Hooks, AtGate(k),
                        gate[parent[k]].client # NoOne
                 PROVE  session'[k] = "over" /\ LastCall(k)'
      BY <1>1 DEF CallIsOwn, AtGate
    <2>1. k # h
      BY <1>6
    <2> QED
      BY <1>2, <1>7, <2>1 DEF GateInv, CallIsOwn
  <1>10. ThroughIsOver'
    <2> SUFFICES ASSUME NEW k \in Hooks, Through(k)
                 PROVE  Released(k)' /\ LastCall(k)'
      BY <1>1 DEF ThroughIsOver, Through
    <2>1. k # h
      BY <1>5
    <2> QED
      BY <1>1, <1>2, <1>7, <2>1 DEF GateInv, ThroughIsOver, Released
  <1>11. StopsOnce'
    <2>1. /\ Len(stops) \in Nat
          /\ Len(stops') = Len(stops) + 1
          /\ \A i \in 1..Len(stops) : stops'[i] = stops[i]
          /\ stops'[Len(stops) + 1] = h
      BY <1>1, <1>3, AppendFacts
    <2>2. \A i \in 1..Len(stops) :
             stops[i] \in Hooks => session[stops[i]] = "over"
      BY DEF GateInv, StopsOnce
    <2>3. \A i \in 1..Len(stops) : stops[i] # h
      BY <1>1, <2>2
    <2>4. \A i, j \in 1..Len(stops) :
             stops[i] \in Hooks /\ stops[i] = stops[j] => i = j
      BY DEF GateInv, StopsOnce
    <2>5. ASSUME NEW i \in 1..Len(stops'), stops'[i] \in Hooks
          PROVE  session'[stops'[i]] = "over"
      BY <1>2, <2>1, <2>2, <2>5
    <2>6. ASSUME NEW i \in 1..Len(stops'), NEW j \in 1..Len(stops'),
                 stops'[i] \in Hooks, stops'[i] = stops'[j]
          PROVE  i = j
      BY <2>1, <2>3, <2>4, <2>6
    <2> QED
      BY <2>5, <2>6 DEF StopsOnce
  <1>12. SessionIsAsked'
    BY <1>1, <1>2, <1>4 DEF GateInv, SessionIsAsked
  <1> QED
    BY <1>8, <1>9, <1>10, <1>11, <1>12 DEF GateInv

LEMMA MainKeepsGateInv ==
    ASSUME QueueInv, GateInv, MainEnds
    PROVE  GateInv'
  <1>1. /\ stops' = Append(stops, Main)
        /\ UNCHANGED <<gate, parent, hookPc, written, session, stopperPc>>
    BY DEF MainEnds, ExtensionOnly, hookVars
  <1>2. Types /\ Main \notin Hooks
    BY WinAssumption DEF QueueInv
  <1>3. ASSUME NEW k \in Hooks, LastCall(k) PROVE LastCall(k)'
    <2>1. k # Main
      BY <1>2
    <2> QED
      BY <1>1, <1>2, <1>3, <2>1, AppendKeepsLastCall
  <1>4. GateOwned'
    BY <1>1 DEF GateInv, GateOwned, AtGate
  <1>5. CallIsOwn'
    BY <1>1, <1>3 DEF GateInv, CallIsOwn, AtGate
  <1>6. ThroughIsOver'
    BY <1>1, <1>3 DEF GateInv, ThroughIsOver, Through, Released
  <1>7. StopsOnce'
    <2>1. /\ Len(stops) \in Nat
          /\ Len(stops') = Len(stops) + 1
          /\ \A i \in 1..Len(stops) : stops'[i] = stops[i]
          /\ stops'[Len(stops) + 1] = Main
      BY <1>1, <1>2, AppendFacts
    <2>2. \A i \in 1..Len(stops) :
             stops[i] \in Hooks => session[stops[i]] = "over"
      BY DEF GateInv, StopsOnce
    <2>3. \A i, j \in 1..Len(stops) :
             stops[i] \in Hooks /\ stops[i] = stops[j] => i = j
      BY DEF GateInv, StopsOnce
    <2>4. ASSUME NEW i \in 1..Len(stops'), stops'[i] \in Hooks
          PROVE  session'[stops'[i]] = "over"
      BY <1>1, <1>2, <2>1, <2>2, <2>4
    <2>5. ASSUME NEW i \in 1..Len(stops'), NEW j \in 1..Len(stops'),
                 stops'[i] \in Hooks, stops'[i] = stops'[j]
          PROVE  i = j
      BY <1>2, <2>1, <2>3, <2>5
    <2> QED
      BY <2>4, <2>5 DEF StopsOnce
  <1>8. SessionIsAsked'
    BY <1>1 DEF GateInv, SessionIsAsked
  <1> QED
    BY <1>4, <1>5, <1>6, <1>7, <1>8 DEF GateInv

\* A stop that is through leaves the queue of stops.
LEMMA PopKeepsGateInv ==
    ASSUME QueueInv, GateInv, stops # <<>>, stops' = Tail(stops),
           UNCHANGED <<parent, hookPc, written, session>>, GateOwned',
           \A h \in Hooks : gate'[parent[h]].client = gate[parent[h]].client
    PROVE  GateInv'
  <1>1. /\ Len(stops) \in Nat /\ Len(stops') = Len(stops) - 1
        /\ \A i \in 1..Len(stops') : stops'[i] = stops[i + 1]
    <2>1. stops \in Seq(Hooks \cup {Main})
      BY DEF QueueInv, Types
    <2> QED
      BY <2>1
  <1>2. ASSUME NEW h \in Hooks, LastCall(h) PROVE LastCall(h)'
    <2>1. ASSUME NEW i \in 1..Len(stops') PROVE stops'[i] # h
      <3>1. i + 1 \in 1..Len(stops) /\ i + 1 # 1
        BY <1>1
      <3> QED
        BY <1>1, <1>2, <3>1 DEF LastCall
    <2> QED
      BY <2>1 DEF LastCall
  <1>3. CallIsOwn'
    BY <1>2 DEF GateInv, CallIsOwn, AtGate
  <1>4. ThroughIsOver'
    BY <1>2 DEF GateInv, ThroughIsOver, Through, Released
  <1>5. StopsOnce'
    <2>1. \A i \in 1..Len(stops) :
             stops[i] \in Hooks => session[stops[i]] = "over"
      BY DEF GateInv, StopsOnce
    <2>2. \A i, j \in 1..Len(stops) :
             stops[i] \in Hooks /\ stops[i] = stops[j] => i = j
      BY DEF GateInv, StopsOnce
    <2>3. \A i \in 1..Len(stops') : i \in Nat /\ i + 1 \in 1..Len(stops)
      BY <1>1
    <2>4. ASSUME NEW i \in 1..Len(stops'), NEW j \in 1..Len(stops'),
                 stops'[i] \in Hooks, stops'[i] = stops'[j]
          PROVE  i = j
      <3>1. i + 1 = j + 1
        BY <1>1, <2>2, <2>3, <2>4
      <3> QED
        BY <2>3, <3>1
    <2> QED
      BY <1>1, <2>1, <2>3, <2>4 DEF StopsOnce
  <1>6. SessionIsAsked'
    BY DEF GateInv, SessionIsAsked
  <1> QED
    BY <1>3, <1>4, <1>5, <1>6 DEF GateInv

-----------------------------------------------------------------------------
(* The stopper at a gate.                                                  *)

\* Who waits where the session of the next stop has its gate is its hook.
LEMMA StopsTheRightOne ==
    ASSUME QueueInv, GateInv, OneChainEach, stops # <<>>, stopperPc = "idle",
           Head(stops) # Main, NEW h \in Hooks, AtGate(h),
           parent[h] = parent[Head(stops)]
    PROVE  h = Head(stops) /\ session[h] = "over"
  <1> DEFINE k == Head(stops)
  <1>1. stops \in Seq(Hooks \cup {Main})
    BY DEF QueueInv, Types
  <1>2. 1 \in 1..Len(stops) /\ k = stops[1] /\ k \in Hooks
    BY <1>1
  <1> HIDE DEF k
  <1>3. session[k] = "over"
    BY <1>2 DEF GateInv, StopsOnce
  <1>4. hookPc[k] # "start"
    BY <1>2, <1>3 DEF GateInv, SessionIsAsked
  <1>5. ~Through(k)
    BY <1>2 DEF GateInv, ThroughIsOver, LastCall
  <1>6. Active(k)
    BY <1>4, <1>5 DEF Active, Through
  <1>7. h = k
    BY <1>2, <1>6, AloneAtGate DEF k
  <1> QED
    BY <1>3, <1>7 DEF k

LEMMA OpenedKeepsGateInv ==
    ASSUME QueueInv, GateInv, OneChainEach, StopOpen, stopperPc' = "write"
    PROVE  GateInv'
  <1> DEFINE k == Head(stops)
  <1>1. /\ stops # <<>> /\ stopperPc = "idle"
        /\ UNCHANGED <<stops, session, parent, hookPc, written>>
    BY DEF StopOpen, ExtensionOnly, hookVars
  <1>2. k \in Hooks \cup {Main} /\ 1 \in 1..Len(stops) /\ k = stops[1]
    <2>1. stops \in Seq(Hooks \cup {Main})
      BY DEF QueueInv, Types
    <2> QED
      BY <1>1, <2>1
  <1>3. ASSUME NEW h, LastCall(h) PROVE LastCall(h)'
    BY <1>1, <1>3 DEF LastCall
  <1>4. GateOwned' /\ CallIsOwn'
    <2>1. CASE k = Main
      <3>1. UNCHANGED gate
        BY <1>1, <2>1 DEF StopOpen
      <3> QED
        BY <1>1, <1>3, <3>1 DEF GateInv, GateOwned, CallIsOwn, AtGate
    <2>2. CASE k # Main
      <3> DEFINE at == parent[k]
      <3>1. at \in Gates /\ Types
        BY <1>2, <2>2, ParentInGates DEF QueueInv
      <3>2. Offered(gate[at]) /\ SetGate(at, Accept(gate[at], Stopper))
        BY <1>1, <2>2 DEF StopOpen
      <3>3. gate[at] \in Instances
        BY <3>1 DEF Types
      <3>4. \A g \in Gates :
               gate'[g] = IF g = at THEN Accept(gate[at], Stopper) ELSE gate[g]
        BY <3>1, <3>2 DEF SetGate, Types
      <3>5. /\ Accept(gate[at], Stopper).exists = gate[at].exists
            /\ Accept(gate[at], Stopper).client = Stopper
            /\ Stopper # NoOne
        BY <3>3, WinAssumption DEF Accept, Instances
      <3> HIDE DEF at
      <3>6. GateOwned'
        BY <1>1, <3>4, <3>5 DEF GateInv, GateOwned, AtGate
      <3>7. CallIsOwn'
        <4> SUFFICES ASSUME NEW h \in Hooks, AtGate(h),
                            gate'[parent[h]].client # NoOne
                     PROVE  session[h] = "over" /\ LastCall(h)'
          BY <1>1 DEF CallIsOwn, AtGate
        <4>1. parent[h] \in Gates
          BY <3>1, ParentInGates
        <4>2. CASE parent[h] # at
          BY <1>3, <3>4, <4>1, <4>2 DEF GateInv, CallIsOwn
        <4>3. CASE parent[h] = at
          <5>1. h = k /\ session[h] = "over"
            BY <1>1, <2>2, <4>3, StopsTheRightOne DEF at
          <5>2. LastCall(h)'
            BY <1>1, <1>2, <5>1 DEF GateInv, StopsOnce, LastCall
          <5> QED
            BY <5>1, <5>2
        <4> QED
          BY <4>2, <4>3
      <3> QED
        BY <3>6, <3>7
    <2> QED
      BY <2>1, <2>2
  <1>5. ThroughIsOver'
    BY <1>1, <1>3 DEF GateInv, ThroughIsOver, Through, Released
  <1>6. StopsOnce' /\ SessionIsAsked'
    BY <1>1 DEF GateInv, StopsOnce, SessionIsAsked
  <1> QED
    BY <1>4, <1>5, <1>6 DEF GateInv

LEMMA StopperKeepsGateInv ==
    ASSUME QueueInv, GateInv, OneChainEach, StopperStep
    PROVE  GateInv'
  <1> DEFINE k == Head(stops)
  <1>1. Types /\ stops # <<>>
    BY DEF QueueInv, Types, StopperStep, StopOpen, StopWrite
  <1>2. k \in Hooks \cup {Main}
    <2>1. stops \in Seq(Hooks \cup {Main})
      BY <1>1 DEF Types
    <2> QED
      BY <1>1, <2>1
  <1>3. UNCHANGED <<session, parent, hookPc, written>>
    BY DEF StopperStep, StopOpen, StopWrite, ExtensionOnly, hookVars
  <1>4. CASE StopOpen /\ stopperPc' = "write"
    BY <1>4, OpenedKeepsGateInv
  <1>5. CASE StopOpen /\ stopperPc' # "write"
    <2>1. stops' = Tail(stops) /\ UNCHANGED gate
      BY <1>5 DEF StopOpen
    <2>2. GateOwned'
      BY <1>3, <2>1 DEF GateInv, GateOwned, AtGate
    <2> QED
      BY <1>1, <1>3, <2>1, <2>2, PopKeepsGateInv
  <1>6. CASE StopWrite
    <2>1. stops' = Tail(stops)
      BY <1>6 DEF StopWrite
    <2>2. ASSUME NEW g \in Gates
          PROVE  gate'[g] \in {gate[g], Told(gate[g])}
      <3>1. CASE k = Main
        BY <1>6, <3>1 DEF StopWrite
      <3>2. CASE k # Main
        <4>1. SetGate(parent[k], Told(gate[parent[k]]))
          BY <1>6, <3>2 DEF StopWrite
        <4> QED
          BY <1>1, <4>1 DEF SetGate, Types
      <3> QED
        BY <3>1, <3>2
    <2>3. ASSUME NEW g \in Gates
          PROVE  /\ gate'[g].client = gate[g].client
                 /\ gate'[g].exists = gate[g].exists
                 /\ gate[g].client = NoOne => gate'[g].data = gate[g].data
      <3>1. gate[g] \in Instances /\ Stopper # NoOne
        BY <1>1, WinAssumption DEF Types
      <3> QED
        BY <2>2, <3>1 DEF Told, Put, HangUp, Instances
    <2>4. GateOwned'
      BY <1>3, <2>3 DEF GateInv, GateOwned, AtGate
    <2>5. \A h \in Hooks : gate'[parent[h]].client = gate[parent[h]].client
      BY <1>1, <2>3, ParentInGates
    <2> QED
      BY <1>1, <1>3, <2>1, <2>4, <2>5, PopKeepsGateInv
  <1> QED
    BY <1>4, <1>5, <1>6 DEF StopperStep

LEMMA GateStep ==
    QueueInv /\ GateInv /\ OneChainEach /\ OneChainEach' /\ [Next]_vars
        => GateInv'
  <1> SUFFICES ASSUME QueueInv, GateInv, OneChainEach, OneChainEach',
                      [Next]_vars
               PROVE  GateInv'
    OBVIOUS
  <1>1. CASE Serve \/ UNCHANGED vars
    <2>1. UNCHANGED <<gate, parent, hookPc, written, session, stops, stopperPc>>
      BY <1>1, ServerFrame DEF vars, hookVars, extensionVars
    <2> QED
      BY <2>1, ApartKeepsGateInv
  <1>2. ASSUME NEW h \in Hooks, Kill(h) PROVE FALSE
    <2>1. hookPc'[h] = "killed"
      BY <1>2 DEF Kill, HookGoes, QueueInv, Types
    <2> QED
      BY <2>1 DEF OneChainEach
  <1>3. ASSUME NEW h \in Hooks,
               \/ OpenQueue(h) \/ HookStep(h)
               \/ OnStart(h) \/ SessionEnds(h)
        PROVE  GateInv'
    BY <1>3, OpenKeepsGateInv, WriteKeepsGateInv, MakeKeepsGateInv,
       ConnectGateKeepsGateInv, ReadGateKeepsGateInv, StartKeepsGateInv,
       EndKeepsGateInv DEF HookStep
  <1> QED
    BY <1>1, <1>2, <1>3, MainKeepsGateInv, StopperKeepsGateInv DEF Next

\* For any number of hooks and sessions: as long as the hooks under each
\* session follow one another and nobody kills one, a hook whose request went
\* out lets its debuggee go on only when its own session is over
\* (utils.cpp:189, 239-273).
THEOREM HooksNeverReturnEarly == Spec => NoEarlyReturn
  <1>1. GateInv => \A h \in Hooks : Released(h)
    <2> SUFFICES ASSUME GateInv, NEW h \in Hooks PROVE Released(h)
      OBVIOUS
    <2> QED
      BY DEF GateInv, ThroughIsOver, Through, Released
  <1>2. Spec /\ []OneChainEach => []GateInv
    BY InitGateInv, GateStep, QueueInvHolds, PTL DEF Spec
  <1> QED
    BY <1>1, <1>2, PTL DEF NoEarlyReturn

-----------------------------------------------------------------------------
(* Base64.  The digits of a group, a pad counting as zero, are those of    *)
(* three characters, a missing one counting as zero.                       *)

\* The values of a character.
Octets == 0..255

\* The values of a digit, or the pad.
Digits == 0..64

\* What the digits of r from position 4 * k on stand for.
GroupOf(r, k) ==
    /\ Digit(r[4 * k + 1]) = First(At(3 * k))
    /\ Digit(r[4 * k + 2]) = Second(At(3 * k), At(3 * k + 1))
    /\ Digit(r[4 * k + 3]) = Third(At(3 * k + 1), At(3 * k + 2))
    /\ Digit(r[4 * k + 4]) = Fourth(At(3 * k + 2))

\* That r is what Encode makes of the first p characters, turn by turn.
EncodedAs(r, p) ==
    /\ p <= Len(data) /\ p % 3 = 0
    /\ Len(r) = 4 * (p \div 3)
    /\ \A i \in 1..Len(r) : r[i] # Pad
    /\ \A k \in 0..(p \div 3) - 1 : GroupOf(r, k)

EncodeInv ==
    /\ data \in Seq(Octets) /\ Len(data) <= MaxSize
    /\ ret \in Seq(Digits)
    /\ pos \in Nat
    /\ pc \in {"loop", "done", "overrun"}
    /\ Len(data) < 2 => pc # "done" /\ (pc = "loop" => pos = 0)
    /\ Len(data) >= 2 =>
          /\ pc # "overrun"
          /\ pc = "loop" => EncodedAs(ret, pos)
          /\ pc = "done" => Decode(ret) = data

\* The number of three characters.
NumberOf(x, y, z) == x * 65536 + y * 256 + z

\* The character in a place of the three, as Decode takes it.
CharacterAt(v, e) == (v \div 2^(8 * (2 - e))) % 256

\* The subtractions in the loop do not wrap around when there is enough to
\* subtract from; otherwise they give more than zero.
LEMMA MinusFacts ==
    ASSUME NEW n \in Nat, n <= MaxSize, NEW k \in {1, 2}
    PROVE  /\ n >= k => Minus(n, k) = n - k
           /\ n < k => Minus(n, k) \in Nat /\ Minus(n, k) > 0
  <1> DEFINE W == 2^SizeBits
  <1>1. W \in Nat /\ W > n + 3
    BY Base64Assumption
  <1> HIDE DEF W
  <1>2. CASE n >= k
    <2>1. ASSUME NEW a \in Nat, a < W PROVE (a + W) % W = a
      BY <1>1, <2>1
    <2>2. n - k \in Nat /\ n - k < W /\ n + W - k = (n - k) + W
      BY <1>1, <1>2
    <2>3. ((n - k) + W) % W = n - k
      BY <2>1, <2>2
    <2> QED
      BY <1>2, <2>2, <2>3 DEF Minus, W
  <1>3. CASE n < k
    <2>1. ASSUME NEW a \in Nat, a < W PROVE a % W = a
      BY <1>1, <2>1
    <2>2. n + W - k \in Nat /\ n + W - k < W /\ n + W - k > 0
      BY <1>1, <1>3
    <2>3. (n + W - k) % W = n + W - k
      BY <2>1, <2>2
    <2> QED
      BY <1>3, <2>2, <2>3 DEF Minus, W
  <1> QED
    BY <1>2, <1>3

LEMMA AtType ==
    ASSUME data \in Seq(Octets), NEW k \in Nat
    PROVE  At(k) \in Octets
  <1>1. Len(data) \in Nat /\ 0 \in Octets
    BY DEF Octets
  <1>2. CASE k < Len(data)
    <2>1. k + 1 \in 1..Len(data)
      BY <1>1, <1>2
    <2>2. data[k + 1] \in Octets
      BY <2>1, ElementOfSeq
    <2> QED
      BY <1>2, <2>2 DEF At
  <1>3. CASE ~(k < Len(data))
    BY <1>1, <1>3 DEF At
  <1> QED
    BY <1>2, <1>3

\* Digits are below the pad.
LEMMA DigitTypes ==
    ASSUME NEW x \in Octets, NEW y \in Octets
    PROVE  /\ First(x) \in 0..63 /\ Second(x, y) \in 0..63
           /\ Third(x, y) \in 0..63 /\ Fourth(x) \in 0..63
  BY DEF Octets, First, Second, Third, Fourth

\* Four digits make three characters.
LEMMA DigitsOfThree ==
    ASSUME NEW x \in Octets, NEW y \in Octets, NEW z \in Octets
    PROVE  First(x) * 2^18 + Second(x, y) * 2^12 + Third(y, z) * 2^6
             + Fourth(z) = NumberOf(x, y, z)
  <1> DEFINE a == First(x)
             b == Second(x, y)
             c == Third(y, z)
             d == Fourth(z)
  <1>1. a * 262144 + b * 4096 + c * 64 + d = x * 65536 + y * 256 + z
    BY DEF Octets, First, Second, Third, Fourth
  <1> HIDE DEF a, b, c, d
  <1>2. 2^18 = 262144 /\ 2^12 = 4096 /\ 2^6 = 64
    OBVIOUS
  <1>3. a * 2^18 + b * 2^12 + c * 2^6 + d = x * 65536 + y * 256 + z
    BY <1>1, <1>2 DEF Octets
  <1> QED
    BY <1>3 DEF NumberOf, a, b, c, d

\* Where in its group a character is.
LEMMA PlaceInGroup ==
    ASSUME NEW m \in Nat
    PROVE  /\ m \div 3 \in Nat /\ m % 3 \in {0, 1, 2}
           /\ m % 3 = 0 => m = 3 * (m \div 3)
           /\ m % 3 = 1 => m = 3 * (m \div 3) + 1
           /\ m % 3 = 2 => m = 3 * (m \div 3) + 2
  OBVIOUS

\* The characters of the three that a number stands for.
LEMMA CharacterOf ==
    ASSUME NEW x \in Octets, NEW y \in Octets, NEW z \in Octets
    PROVE  /\ CharacterAt(NumberOf(x, y, z), 0) = x
           /\ CharacterAt(NumberOf(x, y, z), 1) = y
           /\ CharacterAt(NumberOf(x, y, z), 2) = z
  <1> DEFINE v == x * 65536 + y * 256 + z
  <1>1. v \div 65536 = x
    BY DEF Octets
  <1>2. v \div 256 = x * 256 + y
    BY DEF Octets
  <1>3. v \div 1 = v /\ v % 256 = z
    BY DEF Octets
  <1>4. x % 256 = x /\ (x * 256 + y) % 256 = y
    BY DEF Octets
  <1>5. 2^16 = 65536 /\ 2^8 = 256 /\ 2^0 = 1
    OBVIOUS
  <1>6. 8 * (2 - 0) = 16 /\ 8 * (2 - 1) = 8 /\ 8 * (2 - 2) = 0
    OBVIOUS
  <1>7. v = NumberOf(x, y, z)
    BY DEF NumberOf
  <1> HIDE DEF v
  <1>8. CharacterAt(v, 0) = x
    <2>1. (v \div 65536) % 256 = x
      BY <1>1, <1>4
    <2> QED
      BY <1>5, <1>6, <2>1 DEF CharacterAt
  <1>9. CharacterAt(v, 1) = y
    <2>1. (v \div 256) % 256 = y
      BY <1>2, <1>4
    <2> QED
      BY <1>5, <1>6, <2>1 DEF CharacterAt
  <1>10. CharacterAt(v, 2) = z
    <2>1. (v \div 1) % 256 = z
      BY <1>3
    <2> QED
      BY <1>5, <1>6, <2>1 DEF CharacterAt
  <1> QED
    BY <1>7, <1>8, <1>9, <1>10, Zenon

\* What Decode makes of a group.
LEMMA TripleOfGroup ==
    ASSUME data \in Seq(Octets), NEW k \in Nat, NEW r, GroupOf(r, k)
    PROVE  /\ CharacterAt(Triple(r, k), 0) = At(3 * k)
           /\ CharacterAt(Triple(r, k), 1) = At(3 * k + 1)
           /\ CharacterAt(Triple(r, k), 2) = At(3 * k + 2)
  <1> DEFINE x == At(3 * k)
             y == At(3 * k + 1)
             z == At(3 * k + 2)
  <1>1. x \in Octets /\ y \in Octets /\ z \in Octets
    <2>1. 3 * k \in Nat /\ 3 * k + 1 \in Nat /\ 3 * k + 2 \in Nat
      OBVIOUS
    <2> QED
      BY <2>1, AtType
  <1>2. Triple(r, k) = First(x) * 2^18 + Second(x, y) * 2^12
                         + Third(y, z) * 2^6 + Fourth(z)
    BY DEF Triple, GroupOf
  <1> HIDE DEF x, y, z
  <1>3. Triple(r, k) = NumberOf(x, y, z)
    <2>1. First(x) * 2^18 + Second(x, y) * 2^12 + Third(y, z) * 2^6
            + Fourth(z) = NumberOf(x, y, z)
      BY <1>1, DigitsOfThree
    <2> QED
      BY <1>2, <2>1, Zenon
  <1>4. /\ CharacterAt(NumberOf(x, y, z), 0) = x
        /\ CharacterAt(NumberOf(x, y, z), 1) = y
        /\ CharacterAt(NumberOf(x, y, z), 2) = z
    <2>1. CharacterAt(NumberOf(x, y, z), 0) = x
      BY <1>1, CharacterOf
    <2>2. CharacterAt(NumberOf(x, y, z), 1) = y
      BY <1>1, CharacterOf
    <2>3. CharacterAt(NumberOf(x, y, z), 2) = z
      BY <1>1, CharacterOf
    <2> QED
      BY <2>1, <2>2, <2>3
  <1> QED
    BY <1>3, <1>4 DEF x, y, z

\* What Decode makes of digits that are those of the data, group by group.
LEMMA GroupsDecode ==
    ASSUME data \in Seq(Octets), Len(data) >= 1, NEW r \in Seq(Digits),
           Len(r) = 4 * ((Len(data) + 2) \div 3),
           \A k \in 0..((Len(data) + 2) \div 3) - 1 : GroupOf(r, k),
           (IF r[Len(r)] = Pad THEN 1 ELSE 0)
             + (IF r[Len(r) - 1] = Pad THEN 1 ELSE 0)
               = 3 * ((Len(data) + 2) \div 3) - Len(data)
    PROVE  Decode(r) = data
  <1> DEFINE n == Len(data)
             groups == (n + 2) \div 3
             f == [j \in 1..n |->
                     (Triple(r, (j - 1) \div 3)
                         \div 2^(8 * (2 - ((j - 1) % 3)))) % 256]
  <1>1. n \in Nat /\ n >= 1 /\ groups \in Nat /\ groups >= 1
    OBVIOUS
  <1>2. Decode(r) = f
    <2>1. Len(r) # 0 /\ Len(r) \div 4 = groups
      BY <1>1
    <2>2. (Len(r) \div 4) * 3 - (3 * groups - n) = n
      BY <1>1, <2>1
    <2> QED
      BY <2>1, <2>2 DEF Decode
  <1>3. ASSUME NEW j \in 1..n PROVE f[j] = data[j]
    <2> DEFINE k == (j - 1) \div 3
               e == (j - 1) % 3
    <2>1. k \in 0..groups - 1 /\ k \in Nat
      BY <1>1
    <2>2. /\ CharacterAt(Triple(r, k), 0) = At(3 * k)
          /\ CharacterAt(Triple(r, k), 1) = At(3 * k + 1)
          /\ CharacterAt(Triple(r, k), 2) = At(3 * k + 2)
      BY <2>1, TripleOfGroup
    <2>3. f[j] = CharacterAt(Triple(r, k), e)
      BY Zenon DEF CharacterAt
    <2>4. At(j - 1) = data[j]
      BY <1>1 DEF At
    <2>5. j - 1 \in Nat
      BY <1>1
    <2>6. /\ e \in {0, 1, 2}
          /\ e = 0 => j - 1 = 3 * k
          /\ e = 1 => j - 1 = 3 * k + 1
          /\ e = 2 => j - 1 = 3 * k + 2
      BY <2>5, PlaceInGroup
    <2> HIDE DEF f, k, e
    <2> QED
      BY <2>2, <2>3, <2>4, <2>6, Zenon
  <1> HIDE DEF f
  <1>4. data = [j \in 1..n |-> data[j]]
    OBVIOUS
  <1>5. f = [j \in 1..n |-> f[j]]
    BY DEF f
  <1> QED
    BY <1>2, <1>3, <1>4, <1>5

\* Four more digits.
LEMMA FourMore ==
    ASSUME NEW r \in Seq(Digits), NEW a \in Digits, NEW b \in Digits,
           NEW c \in Digits, NEW d \in Digits,
           NEW s, s = r \o <<a, b, c, d>>
    PROVE  /\ s \in Seq(Digits) /\ Len(s) = Len(r) + 4
           /\ \A i \in 1..Len(r) : s[i] = r[i]
           /\ s[Len(r) + 1] = a /\ s[Len(r) + 2] = b
           /\ s[Len(r) + 3] = c /\ s[Len(r) + 4] = d
  <1>1. <<a, b, c, d>> \in Seq(Digits) /\ Len(<<a, b, c, d>>) = 4
    OBVIOUS
  <1> QED
    BY <1>1

\* A group more.
LEMMA GroupMore ==
    ASSUME data \in Seq(Octets), NEW r \in Seq(Digits), NEW p \in Nat,
           EncodedAs(r, p), NEW a \in Digits, NEW b \in Digits,
           NEW c \in Digits, NEW d \in Digits,
           Digit(a) = First(At(p)), Digit(b) = Second(At(p), At(p + 1)),
           Digit(c) = Third(At(p + 1), At(p + 2)), Digit(d) = Fourth(At(p + 2))
    PROVE  \A k \in 0..(p \div 3) : GroupOf(r \o <<a, b, c, d>>, k)
  <1> DEFINE s == r \o <<a, b, c, d>>
             q == p \div 3
  <1>1. q \in Nat /\ p = 3 * q /\ Len(r) = 4 * q
    BY DEF EncodedAs
  <1>2. /\ \A i \in 1..Len(r) : s[i] = r[i]
        /\ s[Len(r) + 1] = a /\ s[Len(r) + 2] = b
        /\ s[Len(r) + 3] = c /\ s[Len(r) + 4] = d
    <2>1. s = r \o <<a, b, c, d>>
      OBVIOUS
    <2> HIDE DEF s
    <2> QED
      BY <2>1, FourMore
  <1>3. GroupOf(s, q)
    <2>1. /\ s[4 * q + 1] = a /\ s[4 * q + 2] = b
          /\ s[4 * q + 3] = c /\ s[4 * q + 4] = d
      BY <1>1, <1>2, Zenon
    <2>2. p = 3 * q
      BY <1>1
    <2> HIDE DEF s, q
    <2> QED
      BY <2>1, <2>2, Zenon DEF GroupOf
  <1>4. ASSUME NEW k \in 0..q - 1 PROVE GroupOf(s, k)
    <2>1. GroupOf(r, k)
      BY <1>4 DEF EncodedAs
    <2>2. /\ 4 * k + 1 \in 1..Len(r) /\ 4 * k + 2 \in 1..Len(r)
          /\ 4 * k + 3 \in 1..Len(r) /\ 4 * k + 4 \in 1..Len(r)
      BY <1>1
    <2>3. /\ s[4 * k + 1] = r[4 * k + 1] /\ s[4 * k + 2] = r[4 * k + 2]
          /\ s[4 * k + 3] = r[4 * k + 3] /\ s[4 * k + 4] = r[4 * k + 4]
      BY <1>2, <2>2, Zenon
    <2> HIDE DEF s, q
    <2> QED
      BY <2>1, <2>3, Zenon DEF GroupOf
  <1> HIDE DEF s
  <1>5. \A k \in 0..q : k = q \/ k \in 0..q - 1
    <2>1. q \in Nat
      BY <1>1
    <2> HIDE DEF q
    <2> QED
      BY <2>1
  <1> HIDE DEF q
  <1>6. \A k \in 0..q : GroupOf(s, k)
    BY <1>3, <1>4, <1>5, Zenon
  <1> QED
    BY <1>6 DEF q, s

\* A turn of the loop.
LEMMA TurnMore ==
    ASSUME data \in Seq(Octets), NEW r \in Seq(Digits), NEW p \in Nat,
           EncodedAs(r, p), p + 2 < Len(data)
    PROVE  EncodedAs(r \o <<First(At(p)), Second(At(p), At(p + 1)),
                           Third(At(p + 1), At(p + 2)), Fourth(At(p + 2))>>,
                     p + 3)
  <1> DEFINE a == First(At(p))
             b == Second(At(p), At(p + 1))
             c == Third(At(p + 1), At(p + 2))
             d == Fourth(At(p + 2))
             s == r \o <<a, b, c, d>>
  <1>1. /\ At(p) \in Octets /\ At(p + 1) \in Octets
        /\ At(p + 2) \in Octets
    <2>1. p + 1 \in Nat /\ p + 2 \in Nat
      OBVIOUS
    <2> QED
      BY <2>1, AtType
  <1>2. a \in 0..63 /\ b \in 0..63 /\ c \in 0..63 /\ d \in 0..63
    BY <1>1, DigitTypes
  <1> HIDE DEF a, b, c, d
  <1>3. /\ a \in Digits /\ b \in Digits /\ c \in Digits /\ d \in Digits
        /\ a # Pad /\ b # Pad /\ c # Pad /\ d # Pad
    BY <1>2 DEF Pad, Digits
  <1>4. /\ Digit(a) = a /\ Digit(b) = b /\ Digit(c) = c /\ Digit(d) = d
    BY <1>3 DEF Digit
  <1>5. \A k \in 0..(p \div 3) : GroupOf(s, k)
    BY <1>3, <1>4, GroupMore DEF a, b, c, d
  <1>6. /\ s \in Seq(Digits) /\ Len(s) = Len(r) + 4
        /\ \A i \in 1..Len(r) : s[i] = r[i]
        /\ s[Len(r) + 1] = a /\ s[Len(r) + 2] = b
        /\ s[Len(r) + 3] = c /\ s[Len(r) + 4] = d
    <2>1. s = r \o <<a, b, c, d>>
      OBVIOUS
    <2> HIDE DEF s
    <2> QED
      BY <1>3, <2>1, FourMore
  <1> HIDE DEF s
  <1>7. /\ p + 3 <= Len(data) /\ (p + 3) % 3 = 0
        /\ (p + 3) \div 3 = p \div 3 + 1 /\ p \div 3 \in Nat
        /\ Len(r) = 4 * (p \div 3)
    BY DEF EncodedAs
  <1>8. ASSUME NEW i \in 1..Len(s) PROVE s[i] # Pad
    <2>1. \/ i \in 1..Len(r) \/ i = Len(r) + 1 \/ i = Len(r) + 2
          \/ i = Len(r) + 3 \/ i = Len(r) + 4
      BY <1>6
    <2>2. \A j \in 1..Len(r) : r[j] # Pad
      BY DEF EncodedAs
    <2> QED
      BY <1>3, <1>6, <2>1, <2>2, Zenon
  <1>9. Len(s) = 4 * ((p + 3) \div 3)
    BY <1>6, <1>7
  <1>10. 0..((p + 3) \div 3) - 1 = 0..(p \div 3)
    BY <1>7
  <1>11. EncodedAs(s, p + 3)
    <2>1. \A k \in 0..((p + 3) \div 3) - 1 : GroupOf(s, k)
      BY <1>5, <1>10, Zenon
    <2>2. \A i \in 1..Len(s) : s[i] # Pad
      BY <1>8, Zenon
    <2>3. p + 3 <= Len(data) /\ (p + 3) % 3 = 0
      BY <1>7
    <2> QED
      BY <1>9, <2>1, <2>2, <2>3, Zenon DEF EncodedAs
  <1> QED
    BY <1>11 DEF s, a, b, c, d

\* The last group, of one character or two.
LEMMA RestMore ==
    ASSUME data \in Seq(Octets), NEW r \in Seq(Digits), NEW p \in Nat,
           EncodedAs(r, p),
           NEW a \in Digits, NEW b \in Digits, NEW c \in Digits,
           Digit(a) = First(At(p)), Digit(b) = Second(At(p), At(p + 1)),
           Digit(c) = Third(At(p + 1), At(p + 2)), 0 = Fourth(At(p + 2)),
           \/ p = Len(data) - 1 /\ c = Pad
           \/ p = Len(data) - 2 /\ c # Pad
    PROVE  /\ r \o <<a, b, c, Pad>> \in Seq(Digits)
           /\ Decode(r \o <<a, b, c, Pad>>) = data
  <1> DEFINE s == r \o <<a, b, c, Pad>>
             q == p \div 3
             n == Len(data)
  <1>1. /\ q \in Nat /\ p = 3 * q /\ Len(r) = 4 * q
        /\ n \in Nat /\ n >= 1 /\ (n + 2) \div 3 = q + 1
    BY DEF EncodedAs
  <1>2. Pad \in Digits /\ Digit(Pad) = 0
    BY DEF Pad, Digits, Digit
  <1>3. \A k \in 0..q : GroupOf(s, k)
    BY <1>2, GroupMore
  <1>4. /\ s \in Seq(Digits) /\ Len(s) = Len(r) + 4
        /\ s[Len(r) + 3] = c /\ s[Len(r) + 4] = Pad
    <2>1. s = r \o <<a, b, c, Pad>>
      OBVIOUS
    <2> HIDE DEF s
    <2> QED
      BY <1>2, <2>1, FourMore
  <1> HIDE DEF s, q
  <1>5. Len(s) = 4 * ((n + 2) \div 3)
    <2>1. Len(s) = 4 * (q + 1)
      BY <1>1, <1>4
    <2> QED
      BY <1>1, <2>1, Zenon
  <1>6. \A k \in 0..((n + 2) \div 3) - 1 : GroupOf(s, k)
    <2>1. ((n + 2) \div 3) - 1 = q
      BY <1>1
    <2> QED
      BY <1>3, <2>1, Zenon
  <1>7. s[Len(s)] = Pad /\ s[Len(s) - 1] = c
    <2>1. Len(s) = Len(r) + 4 /\ Len(s) - 1 = Len(r) + 3
      BY <1>1, <1>4
    <2> QED
      BY <1>4, <2>1, Zenon
  <1>8. (IF s[Len(s)] = Pad THEN 1 ELSE 0)
          + (IF s[Len(s) - 1] = Pad THEN 1 ELSE 0)
            = 3 * ((n + 2) \div 3) - n
    <2>1. CASE p = n - 1 /\ c = Pad
      <3>1. 3 * ((n + 2) \div 3) - n = 2
        BY <1>1, <2>1
      <3> QED
        BY <1>7, <2>1, <3>1
    <2>2. CASE p = n - 2 /\ c # Pad
      <3>1. 3 * ((n + 2) \div 3) - n = 1
        BY <1>1, <2>2
      <3> QED
        BY <1>7, <2>2, <3>1
    <2> QED
      BY <2>1, <2>2
  <1>9. Decode(s) = data
    BY <1>1, <1>4, <1>5, <1>6, <1>8, GroupsDecode
  <1> QED
    BY <1>4, <1>9 DEF s

\* No rest.
LEMMA NoRest ==
    ASSUME data \in Seq(Octets), NEW r \in Seq(Digits), Len(data) >= 2,
           EncodedAs(r, Len(data))
    PROVE  Decode(r) = data
  <1> DEFINE n == Len(data)
             q == n \div 3
  <1>1. /\ n \in Nat /\ n = 3 * q /\ q \in Nat /\ q >= 1
        /\ Len(r) = 4 * q /\ (n + 2) \div 3 = q
    <2>1. n \in Nat /\ n >= 2
      OBVIOUS
    <2>2. n % 3 = 0 /\ Len(r) = 4 * q
      BY Zenon DEF EncodedAs
    <2> HIDE DEF n
    <2> QED
      BY <2>1, <2>2
  <1>2. \A k \in 0..q - 1 : GroupOf(r, k)
    BY Zenon DEF EncodedAs
  <1>3. r[Len(r)] # Pad /\ r[Len(r) - 1] # Pad
    <2>1. Len(r) \in 1..Len(r) /\ Len(r) - 1 \in 1..Len(r)
      BY <1>1
    <2> QED
      BY <2>1, Zenon DEF EncodedAs
  <1>4. (IF r[Len(r)] = Pad THEN 1 ELSE 0)
          + (IF r[Len(r) - 1] = Pad THEN 1 ELSE 0)
            = 3 * ((n + 2) \div 3) - n
    <2>1. 3 * ((n + 2) \div 3) - n = 0
      BY <1>1
    <2> QED
      BY <1>3, <2>1
  <1>5. Len(r) = 4 * ((n + 2) \div 3)
    BY <1>1
  <1>6. \A k \in 0..((n + 2) \div 3) - 1 : GroupOf(r, k)
    BY <1>1, <1>2, Zenon
  <1> HIDE DEF q
  <1> QED
    BY <1>1, <1>4, <1>5, <1>6, GroupsDecode

LEMMA EncodeInitInv == EncodeInit => EncodeInv
  <1> SUFFICES ASSUME EncodeInit PROVE EncodeInv
    OBVIOUS
  <1>1. data \in Seq(Octets) /\ Len(data) <= MaxSize
    <2>1. PICK m \in 0..MaxSize : data \in [1..m -> Bytes]
      BY DEF EncodeInit, BoundedSeq, SeqOf
    <2>2. m \in Nat /\ m <= MaxSize
      BY <2>1, Base64Assumption
    <2>3. Bytes \subseteq Octets
      BY Base64Assumption DEF Octets
    <2>4. data \in [1..m -> Octets]
      BY <2>1, <2>3
    <2>5. data \in Seq(Octets) /\ Len(data) = m
      BY <2>2, <2>4
    <2> QED
      BY <2>2, <2>5
  <1>2. ret = <<>> /\ ret \in Seq(Digits) /\ Len(ret) = 0
    BY DEF EncodeInit
  <1>3. EncodedAs(ret, 0)
    BY <1>1, <1>2 DEF EncodedAs
  <1> QED
    BY <1>1, <1>2, <1>3 DEF EncodeInit, EncodeInv

\* What a step adds to ret are digits.
LEMMA StepDigits ==
    ASSUME data \in Seq(Octets), NEW p \in Nat
    PROVE  /\ First(At(p)) \in Digits /\ Second(At(p), 0) \in Digits
           /\ Second(At(p), At(p + 1)) \in Digits
           /\ Third(At(p + 1), 0) \in Digits /\ Third(At(p + 1), 0) # Pad
           /\ Third(At(p + 1), At(p + 2)) \in Digits
           /\ Fourth(At(p + 2)) \in Digits
           /\ Digit(First(At(p))) = First(At(p))
           /\ Digit(Second(At(p), 0)) = Second(At(p), 0)
           /\ Digit(Second(At(p), At(p + 1))) = Second(At(p), At(p + 1))
           /\ Digit(Third(At(p + 1), 0)) = Third(At(p + 1), 0)
  <1> DEFINE x == At(p)
             y == At(p + 1)
             z == At(p + 2)
  <1>1. x \in Octets /\ y \in Octets /\ z \in Octets /\ 0 \in Octets
    <2>1. p + 1 \in Nat /\ p + 2 \in Nat /\ 0 \in Octets
      BY DEF Octets
    <2> QED
      BY <2>1, AtType
  <1> HIDE DEF x, y, z
  <1>2. ASSUME NEW d \in 0..63 PROVE d \in Digits /\ Digit(d) = d /\ d # Pad
    BY <1>2 DEF Digits, Digit, Pad
  <1>3. First(x) \in 0..63
    BY <1>1, DigitTypes
  <1>4. Second(x, 0) \in 0..63 /\ Second(x, y) \in 0..63
    BY <1>1, DigitTypes
  <1>5. Third(y, 0) \in 0..63 /\ Third(y, z) \in 0..63
    BY <1>1, DigitTypes
  <1>6. Fourth(z) \in 0..63
    BY <1>1, DigitTypes
  <1> QED
    BY <1>2, <1>3, <1>4, <1>5, <1>6 DEF x, y, z

LEMMA EncodeTripleInv ==
    ASSUME EncodeInv, EncodeTriple
    PROVE  EncodeInv'
  <1> DEFINE s == ret \o <<First(At(pos)), Second(At(pos), At(pos + 1)),
                           Third(At(pos + 1), At(pos + 2)),
                           Fourth(At(pos + 2))>>
  <1>1. /\ data \in Seq(Octets) /\ Len(data) \in Nat /\ Len(data) <= MaxSize
        /\ ret \in Seq(Digits) /\ pos \in Nat /\ pc = "loop"
    BY DEF EncodeInv, EncodeTriple, LoopGoes
  <1>2. /\ data' = data /\ pos' = pos + 3 /\ ret' = s
        /\ pc' = IF InBounds THEN "loop" ELSE "overrun"
        /\ pos < Minus(Len(data), 2)
    BY DEF EncodeTriple, LoopGoes
  <1>3. s \in Seq(Digits)
    <2>1. /\ First(At(pos)) \in Digits
          /\ Second(At(pos), At(pos + 1)) \in Digits
          /\ Third(At(pos + 1), At(pos + 2)) \in Digits
          /\ Fourth(At(pos + 2)) \in Digits
      BY <1>1, StepDigits
    <2> QED
      BY <1>1, <2>1, FourMore
  <1>4. CASE Len(data) < 2
    <2>1. pos = 0
      BY <1>1, <1>4 DEF EncodeInv
    <2>2. ~InBounds
      BY <1>1, <1>4, <2>1 DEF InBounds
    <2> HIDE DEF s
    <2> QED
      BY <1>1, <1>2, <1>3, <1>4, <2>2 DEF EncodeInv
  <1>5. CASE ~(Len(data) < 2)
    <2>1. EncodedAs(ret, pos)
      BY <1>1, <1>5 DEF EncodeInv
    <2>2. pos + 2 < Len(data)
      <3>1. Minus(Len(data), 2) = Len(data) - 2
        BY <1>1, <1>5, MinusFacts
      <3> QED
        BY <1>1, <1>2, <3>1
    <2>3. EncodedAs(s, pos + 3)
      BY <1>1, <2>1, <2>2, TurnMore
    <2>4. InBounds
      <3>1. Len(ret) = 4 * (pos \div 3) /\ pos % 3 = 0
        BY <2>1, Zenon DEF EncodedAs
      <3>2. Len(ret) + 4 <= 4 * ((Len(data) + 2) \div 3)
        BY <1>1, <2>2, <3>1
      <3>3. pos + 2 <= Len(data)
        BY <1>1, <2>2
      <3> QED
        BY <3>2, <3>3, Zenon DEF InBounds
    <2>5. pc' = "loop"
      BY <1>2, <2>4, Zenon
    <2> HIDE DEF s
    <2>6. EncodedAs(ret, pos)'
      BY <1>2, <2>3, Zenon DEF EncodedAs, GroupOf, At
    <2>7. pos' \in Nat
      BY <1>1, <1>2
    <2> QED
      BY <1>1, <1>2, <1>3, <1>5, <2>5, <2>6, <2>7 DEF EncodeInv
  <1> QED
    BY <1>4, <1>5

LEMMA EncodeRestInv ==
    ASSUME EncodeInv, EncodeRest
    PROVE  EncodeInv'
  <1> DEFINE n == Len(data)
  <1>1. /\ data \in Seq(Octets) /\ n \in Nat /\ n <= MaxSize
        /\ ret \in Seq(Digits) /\ pos \in Nat /\ pc = "loop"
    BY DEF EncodeInv, EncodeRest, LoopGoes
  <1>2. /\ data' = data /\ pos' = pos /\ pc' = "done"
        /\ pos >= Minus(n, 2)
    BY DEF EncodeRest, LoopGoes
  <1>3. n >= 2
    <2>1. CASE n < 2
      <3>1. pos = 0
        BY <1>1, <2>1 DEF EncodeInv
      <3>2. Minus(n, 2) \in Nat /\ Minus(n, 2) > 0
        BY <1>1, <2>1, MinusFacts
      <3> QED
        BY <1>2, <3>1, <3>2
    <2> QED
      BY <1>1, <2>1
  <1>4. EncodedAs(ret, pos) /\ pos <= n
    BY <1>1, <1>3 DEF EncodeInv, EncodedAs
  <1>5. Minus(n, 2) = n - 2 /\ Minus(n, 1) = n - 1
    BY <1>1, <1>3, MinusFacts
  <1>6. ret' \in Seq(Digits) /\ Decode(ret') = data
    <2>1. CASE pos = n
      <3>1. ret' = ret \o <<>>
        BY <1>1, <2>1 DEF EncodeRest
      <3>2. ret' = ret
        BY <1>1, <3>1
      <3>3. Decode(ret) = data
        BY <1>1, <1>3, <1>4, <2>1, NoRest
      <3> QED
        BY <1>1, <3>2, <3>3
    <2>2. CASE pos = n - 1
      <3> DEFINE a == First(At(pos))
                 b == Second(At(pos), 0)
      <3>1. ret' = ret \o <<a, b, Pad, Pad>>
        BY <1>1, <1>5, <2>2 DEF EncodeRest
      <3>2. At(pos + 1) = 0 /\ At(pos + 2) = 0
        BY <1>1, <2>2 DEF At
      <3>3. Third(0, 0) = 0 /\ Fourth(0) = 0
        BY DEF Third, Fourth
      <3>4. Pad \in Digits /\ Digit(Pad) = 0
        BY DEF Pad, Digits, Digit
      <3>5. a \in Digits /\ b \in Digits
        BY <1>1, StepDigits
      <3>6. Digit(a) = First(At(pos)) /\ Digit(b) = Second(At(pos), At(pos + 1))
        BY <1>1, <3>2, StepDigits
      <3>7. /\ Digit(Pad) = Third(At(pos + 1), At(pos + 2))
            /\ 0 = Fourth(At(pos + 2))
        BY <3>2, <3>3, <3>4, Zenon
      <3> HIDE DEF a, b
      <3> QED
        BY <1>1, <1>4, <2>2, <3>1, <3>4, <3>5, <3>6, <3>7, RestMore
    <2>3. CASE pos = n - 2
      <3> DEFINE a == First(At(pos))
                 b == Second(At(pos), At(pos + 1))
                 c == Third(At(pos + 1), 0)
      <3>1. ret' = ret \o <<a, b, c, Pad>>
        BY <1>1, <1>5, <2>3 DEF EncodeRest
      <3>2. At(pos + 2) = 0
        BY <1>1, <2>3 DEF At
      <3>3. Fourth(0) = 0
        BY DEF Fourth
      <3>4. a \in Digits /\ b \in Digits /\ c \in Digits /\ c # Pad
        BY <1>1, StepDigits
      <3>5. Digit(a) = First(At(pos)) /\ Digit(b) = Second(At(pos), At(pos + 1))
        BY <1>1, StepDigits
      <3>6. Digit(c) = Third(At(pos + 1), At(pos + 2))
        BY <1>1, <3>2, StepDigits
      <3>7. 0 = Fourth(At(pos + 2))
        BY <3>2, <3>3, Zenon
      <3> HIDE DEF a, b, c
      <3> QED
        BY <1>1, <1>4, <2>3, <3>1, <3>4, <3>5, <3>6, <3>7, RestMore
    <2> QED
      BY <1>1, <1>2, <1>4, <1>5, <2>1, <2>2, <2>3
  <1>7. (Decode(ret) = data)'
    BY <1>2, <1>6 DEF Decode, Triple, Digit
  <1> QED
    BY <1>1, <1>2, <1>3, <1>6, <1>7 DEF EncodeInv

\* Base64 (utils.cpp:27-126): a text of two characters or more is encoded
\* within its bounds and comes back from its digits, whatever its bytes; one
\* of one character, or none, is never encoded within them.
THEOREM LongTextsComeBack == EncodeSpec => []LongEnoughIsRestored
  <1>1. EncodeInv /\ UNCHANGED encodeVars => EncodeInv'
    BY DEF EncodeInv, encodeVars, EncodedAs, GroupOf, At, Decode, Triple
  <1>2. EncodeInv /\ [EncodeNext]_encodeVars => EncodeInv'
    BY <1>1, EncodeTripleInv, EncodeRestInv DEF EncodeNext
  <1>3. EncodeInv => LongEnoughIsRestored
    BY DEF EncodeInv, LongEnoughIsRestored
  <1> QED
    BY EncodeInitInv, <1>2, <1>3, PTL DEF EncodeSpec
=============================================================================
