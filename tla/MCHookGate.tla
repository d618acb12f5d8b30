----------------------------- MODULE MCHookGate -----------------------------
(* Values of the constants of HookGate for TLC. *)
EXTENDS HookGate, TLC

CONSTANTS h1, h2, e1

TwoHooks == {h1, h2}
Hook1 == {h1}
OneEarlier == {e1}
HeirIsHook1 == e1 :> h1
=============================================================================
