-------------------------- MODULE MCServerLifecycle --------------------------
(* Values of the constants of ServerLifecycle for TLC. *)
EXTENDS ServerLifecycle, TLC

CONSTANTS k1, k2, h1, h2

TwoLaunches == {k1, k2}
TwoHooks == {h1, h2}
HooksOf1And2 == h1 :> k1 @@ h2 :> k2

Own == k1 :> "q1" @@ k2 :> "q2"
One == k1 :> "q1" @@ k2 :> "q1"

Setting(nameOf, hooks, quiet, regular) ==
    [nameOf |-> nameOf, hooks |-> hooks, quiet |-> quiet, prompt |-> regular,
     settled |-> regular]

\* The settings the properties ask for, with random names and with a fixed one,
\* and one where anything may happen.
FourSettings ==
    {Setting(Own, TwoHooks, FALSE, TRUE), Setting(Own, TwoHooks, TRUE, TRUE),
     Setting(One, TwoHooks, TRUE, TRUE), Setting(One, {h1}, FALSE, FALSE)}
=============================================================================
