------------------------------- MODULE Base64 -------------------------------
(***************************************************************************)
(* Base64 of the Windows programs (utils.cpp:27-126): Encode turn by turn, *)
(* with the arithmetic of size_t in its loop, and Decode as a function.    *)
(* cConfig::makeConfig encodes every part of a request with it             *)
(* (utils.cpp:143-197), and the extension decodes it.                      *)
(*                                                                         *)
(* A digit is its index in sEncodingTable, which kDecodingTable inverts.   *)
(***************************************************************************)
EXTENDS Naturals, SequencesExt

CONSTANTS
    Bytes,         \* values of the characters that are tried
    MaxSize,       \* bound of this model: characters
    SizeBits       \* width of size_t; 64 in the code

ASSUME Base64Assumption ==
    /\ Bytes \subseteq 0..255
    /\ MaxSize \in Nat /\ SizeBits \in Nat /\ 2^SizeBits \in Nat
    /\ MaxSize < 2^SizeBits - 3

VARIABLES
    data,          \* the characters; never changes
    pos,           \* i, the characters encoded
    ret,           \* the digits
    pc             \* where Encode is

encodeVars == <<data, pos, ret, pc>>

\* The equals sign, which is no digit
Pad == 64

\* The characters are terminated by a zero, which may be read, too.
At(k) == IF k < Len(data) THEN data[k + 1] ELSE 0

First(x) == x \div 4
Second(x, y) == (x % 4) * 16 + y \div 16
Third(y, z) == (y % 16) * 4 + z \div 64
Fourth(z) == z % 64

\* in_len - 2 and in_len - 1, which wrap around below zero
Minus(n, k) == (n + 2^SizeBits - k) % 2^SizeBits

-----------------------------------------------------------------------------
LoopGoes(from, to) == pc = from /\ pc' = to

\* The four digits and three characters of a turn may be beyond the ends of ret
\* and data; then anything may happen, and this model stops.
InBounds == pos + 2 <= Len(data) /\ Len(ret) + 4 <= 4 * ((Len(data) + 2) \div 3)

\* Mutant of EncodeTriple: the loop ends a triple early.
EncodeTripleEarly ==
    /\ pos < Minus(Len(data), 3)
    /\ LoopGoes("loop", IF InBounds THEN "loop" ELSE "overrun")
    /\ pos' = pos + 3
    /\ ret' = ret \o <<First(At(pos)), Second(At(pos), At(pos + 1)),
                       Third(At(pos + 1), At(pos + 2)), Fourth(At(pos + 2))>>
    /\ UNCHANGED data

EncodeTriple ==
    /\ pos < Minus(Len(data), 2)
    /\ LoopGoes("loop", IF InBounds THEN "loop" ELSE "overrun")
    /\ pos' = pos + 3
    /\ ret' = ret \o <<First(At(pos)), Second(At(pos), At(pos + 1)),
                       Third(At(pos + 1), At(pos + 2)), Fourth(At(pos + 2))>>
    /\ UNCHANGED data

\* What is left over is one character, two or none.
EncodeRest ==
    /\ pos >= Minus(Len(data), 2)
    /\ LoopGoes("loop", "done")
    /\ ret' = ret \o
         IF pos >= Len(data) THEN <<>>
         ELSE IF pos = Minus(Len(data), 1)
                THEN <<First(At(pos)), Second(At(pos), 0), Pad, Pad>>
                ELSE <<First(At(pos)), Second(At(pos), At(pos + 1)),
                       Third(At(pos + 1), 0), Pad>>
    /\ UNCHANGED <<data, pos>>

EncodeInit ==
    /\ data \in BoundedSeq(Bytes, MaxSize)
    /\ pos = 0
    /\ ret = <<>>
    /\ pc = "loop"

EncodeNext == EncodeTriple \/ EncodeRest

EncodeSpec == EncodeInit /\ [][EncodeNext]_encodeVars

-----------------------------------------------------------------------------
Digit(x) == IF x = Pad THEN 0 ELSE x

\* The number of the four digits from the k-th group on
Triple(input, k) ==
    Digit(input[4 * k + 1]) * 2^18 + Digit(input[4 * k + 2]) * 2^12
        + Digit(input[4 * k + 3]) * 2^6 + Digit(input[4 * k + 4])

\* The error for other sizes is not modelled.
Decode(input) ==
    LET n == Len(input)
        pads == IF n = 0 THEN 0
                ELSE (IF input[n] = Pad THEN 1 ELSE 0)
                         + (IF input[n - 1] = Pad THEN 1 ELSE 0)
    IN  [j \in 1..(n \div 4) * 3 - pads |->
            (Triple(input, (j - 1) \div 3) \div 2^(8 * (2 - ((j - 1) % 3))))
                % 256]

\* A text of two characters or more is never read or written beyond its ends,
\* and comes back from the digits; shorter ones overrun, since in_len - 2
\* (utils.cpp:47) wraps around.
LongEnoughIsRestored ==
    IF Len(data) >= 2
      THEN pc # "overrun" /\ (pc = "done" => Decode(ret) = data)
      ELSE pc # "done"
=============================================================================
