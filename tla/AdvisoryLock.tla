---------------------------- MODULE AdvisoryLock ----------------------------
(***************************************************************************)
(* What the lock directories of the repository amount to: a mark that      *)
(* nobody waits for.  Entering sets the mark, leaving clears it, whoever   *)
(* else is inside.  Modules that use a lock model it with these steps.     *)
(* A careless user may enter without the mark, and set it at any later     *)
(* time, inside or not.                                                    *)
(***************************************************************************)
CONSTANTS Users, Careless

VARIABLES
    lockDir,     \* the mark
    inside       \* users between lock and release

lockVars == <<lockDir, inside>>

Init == lockDir = FALSE /\ inside = {}

Enter(u) ==
    /\ u \in Users \ inside
    /\ lockDir' = TRUE
    /\ inside' = inside \cup {u}

Leave(u) ==
    /\ u \in inside
    /\ lockDir' = FALSE
    /\ inside' = inside \ {u}

EnterUnmarked(u) ==
    /\ u \in Careless \ inside
    /\ inside' = inside \cup {u}
    /\ UNCHANGED lockDir

Mark(u) == u \in Careless /\ lockDir' = TRUE /\ UNCHANGED inside

\* The user dies inside.
Vanish(u) ==
    /\ u \in inside
    /\ inside' = inside \ {u}
    /\ UNCHANGED lockDir

\* release_lock by somebody who did not lock, "just in case".
Clear == lockDir' = FALSE /\ UNCHANGED inside

Next ==
    \/ Clear
    \/ \E u \in Users :
          Enter(u) \/ EnterUnmarked(u) \/ Mark(u) \/ Leave(u) \/ Vanish(u)

Spec == Init /\ [][Next]_lockVars
=============================================================================
