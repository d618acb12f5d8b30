-------------------------------- MODULE Inbox --------------------------------
(***************************************************************************)
(* How the extension takes requests from its launcher server: server.sh    *)
(* prints a line "start|REQUEST|end" per request (server.sh:79), node      *)
(* hands the bytes over in chunks of its own choosing, and onMessage       *)
(* (deepDebug.ts:364-382) puts them together again.                        *)
(*                                                                         *)
(* onMessage looks for the end marker at the end of the chunk, not of what *)
(* it has gathered, and then takes the first request of all it gathered.   *)
(* So a chunk that ends inside an end marker is not seen as an end, and    *)
(* requests that arrive together with an earlier one are dropped.          *)
(*                                                                         *)
(* The stream is abstracted to what these rules tell apart.  A line is     *)
(* three pieces: all before its end marker "|end", the first bytes of the  *)
(* marker, and the rest of it.  A position in the stream is a number of    *)
(* pieces, and a line is known by the position where it starts.            *)
(*                                                                         *)
(* What becomes of the requests depends on two things the code does not    *)
(* control, which are drawn at the start of a behaviour: whether chunks    *)
(* end inside end markers, and whether a request comes only after the one  *)
(* before was started, as it does from a program with one process chain.   *)
(***************************************************************************)
EXTENDS Integers, Sequences

CONSTANT MaxLines    \* requests the server prints

ASSUME InboxAssumption == MaxLines \in Nat

VARIABLES
    printed,     \* where the server's output ends
    received,    \* where the chunks handed to onMessage end
    responce,    \* where the text gathered in the member responce starts
    started,     \* the requests given to onStart, in order
    cut,         \* can a chunk end inside an end marker; never changes
    paced        \* do requests come one at a time; never changes

drawn == <<cut, paced>>
vars == <<printed, received, responce, started, drawn>>

LinePieces == 3

Lines == {LinePieces * (k - 1) : k \in 1..MaxLines}

AtLineStart(pos) == pos % LinePieces = 0

InMarker(pos) == pos % LinePieces = 2

IsPrinted(ln) == ln + LinePieces <= printed

IsStarted(ln) == \E i \in 1..Len(started) : started[i] = ln

-----------------------------------------------------------------------------
\* printf "%s" "start|${LINE}|end": any number of write(2) calls.
PrintLine ==
    /\ printed < LinePieces * MaxLines
    /\ paced /\ AtLineStart(printed) =>
          printed = 0 \/ IsStarted(printed - LinePieces)
    /\ printed' = printed + 1
    /\ UNCHANGED <<received, responce, started, drawn>>

\* Mutant of EndsWithMarker: the marker may be anywhere in the chunk.
HoldsMarker(from, to) == \E end \in (from + 2)..to : AtLineStart(end)

\* commandString.endsWith('|end'), for the chunk between two positions: it
\* ends a line and holds the whole of that line's end marker.
EndsWithMarker(from, to) == AtLineStart(to) /\ to - from >= 2

\* Mutant of Take: the gathered text is not cleared.
TakeAndKeep(to) ==
    /\ started' = IF AtLineStart(responce) THEN Append(started, responce)
                                           ELSE started
    /\ UNCHANGED responce

\* this.responce = ''; split and take the first request.  Without "start" in
\* front nothing is taken.
Take(to) ==
    /\ responce' = to
    /\ started' = IF AtLineStart(responce) THEN Append(started, responce)
                                           ELSE started

\* Mutant of OnMessage: a chunk without an end marker is forgotten.
OnMessageForgets(to) ==
    /\ received < to
    /\ received' = to
    /\ IF EndsWithMarker(received, to)
         THEN Take(to)
         ELSE responce' = to /\ UNCHANGED started
    /\ UNCHANGED <<printed, drawn>>

OnMessage(to) ==
    /\ received < to
    /\ received' = to
    /\ IF EndsWithMarker(received, to)
         THEN Take(to)
         ELSE UNCHANGED <<responce, started>>
    /\ UNCHANGED <<printed, drawn>>

-----------------------------------------------------------------------------
Init ==
    /\ printed = 0 /\ received = 0 /\ responce = 0 /\ started = <<>>
    /\ cut \in BOOLEAN
    /\ paced \in BOOLEAN

Data == \E to \in 1..printed : (InMarker(to) => cut) /\ OnMessage(to)

Next == PrintLine \/ Data

Spec == Init /\ [][Next]_vars

-----------------------------------------------------------------------------
\* However the stream is cut into chunks, the gathered text starts with the
\* start of a line: onMessage never takes the tail of a request for one.
FrameAligned == AtLineStart(responce)

\* The inbox is a channel that may lose requests but never repeats, invents
\* or truncates one.
Channel == INSTANCE RequestChannel WITH
    Messages <- Lines,
    Requests <- Lines,
    sent <- {ln \in Lines : IsPrinted(ln)},
    got <- started

IsRequestChannel == Channel!Spec
=============================================================================
