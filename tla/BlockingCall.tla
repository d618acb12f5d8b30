----------------------------- MODULE BlockingCall -----------------------------
(***************************************************************************)
(* What a hook promises the program it stands in front of: it asks for a   *)
(* debug session and returns only after that session was there and is      *)
(* over.  The program goes on in between at most as a debuggee.  It may    *)
(* wait for ever: a request can be lost, refused or swallowed.             *)
(***************************************************************************)
CONSTANT Callers

VARIABLE call

CallState == {"idle", "waiting", "debugged", "over", "returned"}

Goes(c, from, to) == call[c] = from /\ call' = [call EXCEPT ![c] = to]

Init == call = [c \in Callers |-> "idle"]

Ask(c) == Goes(c, "idle", "waiting")

Start(c) == Goes(c, "waiting", "debugged")

End(c) == Goes(c, "debugged", "over")

Return(c) == Goes(c, "over", "returned")

Next == \E c \in Callers : Ask(c) \/ Start(c) \/ End(c) \/ Return(c)

Spec == Init /\ [][Next]_call
=============================================================================
