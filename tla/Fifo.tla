-------------------------------- MODULE Fifo --------------------------------
(***************************************************************************)
(* A named pipe (mkfifo) as the shell scripts of the repository use it.    *)
(* The kernel is not part of the repository: these operators are what      *)
(* hook.sh, python_driver.sh and server.sh rely on.                        *)
(*                                                                         *)
(* A fifo is a record:                                                     *)
(*   readers, writers  processes that hold, or are blocked opening, an end *)
(*   met               processes whose open() has found a partner and has  *)
(*                     therefore returned                                  *)
(*   data              the pieces written and not read yet.  A set: pipes  *)
(*                     keep the order of one writer's pieces and nothing   *)
(*                     in the project depends on the order between two     *)
(*                     writers, only on which pieces are read together.    *)
(***************************************************************************)

EmptyFifo == [readers |-> {}, writers |-> {}, met |-> {}, data |-> {}]

FifoType(Procs, Pieces) ==
    [readers : SUBSET Procs, writers : SUBSET Procs,
     met : SUBSET Procs, data : SUBSET Pieces]

\* open(O_RDONLY): blocks until there is a writer, whom it unblocks.
OpenForReading(f, p) ==
    [f EXCEPT !.readers = @ \cup {p},
              !.met = IF f.writers = {} THEN @ ELSE @ \cup f.writers \cup {p}]

\* open(O_WRONLY): blocks until there is a reader, whom it unblocks.
OpenForWriting(f, p) ==
    [f EXCEPT !.writers = @ \cup {p},
              !.met = IF f.readers = {} THEN @ ELSE @ \cup f.readers \cup {p}]

\* write(2) with a reader present; without one the writer gets SIGPIPE.
WritePiece(f, piece) == [f EXCEPT !.data = @ \cup {piece}]

TakeAll(f) == [f EXCEPT !.data = {}]

\* read(2) returns 0 only when nothing is left and no writer holds the pipe.
AtEof(f) == f.data = {} /\ f.writers = {}

\* close(2), or the end of the process.  What is still in the pipe is
\* discarded when nobody holds it any more.
CloseEnd(f, p) ==
    LET rs == f.readers \ {p}
        ws == f.writers \ {p}
    IN  [readers |-> rs, writers |-> ws, met |-> f.met \ {p},
         data |-> IF rs \cup ws = {} THEN {} ELSE f.data]
=============================================================================
