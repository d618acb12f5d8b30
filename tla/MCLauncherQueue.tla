--------------------------- MODULE MCLauncherQueue ---------------------------
(* Values of the constants of LauncherQueue for TLC. *)
EXTENDS LauncherQueue

CONSTANTS h1, h2, h3

ThreeHooks == {h1, h2, h3}
Hooks12 == {h1, h2}
=============================================================================
