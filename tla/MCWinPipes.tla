----------------------------- MODULE MCWinPipes -----------------------------
(* Values of the constants of WinPipes for TLC. *)
EXTENDS WinPipes, TLC

CONSTANTS h1, h2

TwoHooks == {h1, h2}
Hook1 == {h1}

\* Both hooks under one session, or each under its own.
Together == h1 :> "s1" @@ h2 :> "s1"
Apart == h1 :> "s1" @@ h2 :> "s2"
TogetherOrApart == {Together, Apart}
=============================================================================
