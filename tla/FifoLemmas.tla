----------------------------- MODULE FifoLemmas -----------------------------
(***************************************************************************)
(* What each operation does to the fields of a fifo, and that it yields a  *)
(* fifo again: all that proofs about fifos need, with the operators of     *)
(* Fifo left unexpanded.                                                   *)
(***************************************************************************)
EXTENDS Fifo, TLAPS

LEMMA FifoEmpty ==
    ASSUME NEW Procs, NEW Pieces
    PROVE  /\ EmptyFifo \in FifoType(Procs, Pieces)
           /\ EmptyFifo.readers = {} /\ EmptyFifo.writers = {}
           /\ EmptyFifo.met = {} /\ EmptyFifo.data = {}
  BY DEF EmptyFifo, FifoType

LEMMA FifoFields ==
    ASSUME NEW Procs, NEW Pieces, NEW f \in FifoType(Procs, Pieces)
    PROVE  /\ f.readers \subseteq Procs /\ f.writers \subseteq Procs
           /\ f.met \subseteq Procs /\ f.data \subseteq Pieces
  BY DEF FifoType

LEMMA FifoOpenForReading ==
    ASSUME NEW Procs, NEW Pieces, NEW f \in FifoType(Procs, Pieces),
           NEW p \in Procs
    PROVE  LET g == OpenForReading(f, p) IN
           /\ g \in FifoType(Procs, Pieces)
           /\ g.readers = f.readers \cup {p}
           /\ g.writers = f.writers
           /\ g.data = f.data
           /\ f.writers = {} => g.met = f.met
           /\ f.writers # {} => g.met = f.met \cup f.writers \cup {p}
  BY DEF OpenForReading, FifoType

LEMMA FifoOpenForWriting ==
    ASSUME NEW Procs, NEW Pieces, NEW f \in FifoType(Procs, Pieces),
           NEW p \in Procs
    PROVE  LET g == OpenForWriting(f, p) IN
           /\ g \in FifoType(Procs, Pieces)
           /\ g.readers = f.readers
           /\ g.writers = f.writers \cup {p}
           /\ g.data = f.data
           /\ f.readers = {} => g.met = f.met
           /\ f.readers # {} => g.met = f.met \cup f.readers \cup {p}
  BY DEF OpenForWriting, FifoType

LEMMA FifoWritePiece ==
    ASSUME NEW Procs, NEW Pieces, NEW f \in FifoType(Procs, Pieces),
           NEW piece \in Pieces
    PROVE  LET g == WritePiece(f, piece) IN
           /\ g \in FifoType(Procs, Pieces)
           /\ g.readers = f.readers
           /\ g.writers = f.writers
           /\ g.met = f.met
           /\ g.data = f.data \cup {piece}
  BY DEF WritePiece, FifoType

LEMMA FifoTakeAll ==
    ASSUME NEW Procs, NEW Pieces, NEW f \in FifoType(Procs, Pieces)
    PROVE  LET g == TakeAll(f) IN
           /\ g \in FifoType(Procs, Pieces)
           /\ g.readers = f.readers
           /\ g.writers = f.writers
           /\ g.met = f.met
           /\ g.data = {}
  BY DEF TakeAll, FifoType

LEMMA FifoCloseEnd ==
    ASSUME NEW Procs, NEW Pieces, NEW f \in FifoType(Procs, Pieces), NEW p
    PROVE  LET g == CloseEnd(f, p) IN
           /\ g \in FifoType(Procs, Pieces)
           /\ g.readers = f.readers \ {p}
           /\ g.writers = f.writers \ {p}
           /\ g.met = f.met \ {p}
           /\ g.data \in {{}, f.data}
           /\ g.readers \cup g.writers # {} => g.data = f.data
  BY DEF CloseEnd, FifoType
=============================================================================
