--------------------------- MODULE RequestChannel ---------------------------
(***************************************************************************)
(* What the path of a debug-session request promises, seen from its two    *)
(* ends: a request arrives at most once, and only if it was sent whole.    *)
(* It may be lost, it may be overtaken, and what arrives may also be       *)
(* garbage that no hook sent and that does not parse.  Both halves of the  *)
(* path implement this: the launcher queue (LauncherQueue, hook to         *)
(* server.sh) and the extension's inbox (Inbox, server.sh to onStart).     *)
(***************************************************************************)
EXTENDS Sequences

CONSTANTS
    Messages,    \* everything that can come out
    Requests     \* those a sender may put in

VARIABLES
    sent,        \* requests put in
    got          \* messages that came out, in order

chanVars == <<sent, got>>

Seen(m) == \E i \in DOMAIN got : got[i] = m

Init == sent = {} /\ got = <<>>

Send(r) ==
    /\ r \in Requests \ sent
    /\ sent' = sent \cup {r}
    /\ UNCHANGED got

Deliver(r) ==
    /\ r \in sent
    /\ ~Seen(r)
    /\ got' = Append(got, r)
    /\ UNCHANGED sent

Garbage(m) ==
    /\ m \in Messages \ Requests
    /\ got' = Append(got, m)
    /\ UNCHANGED sent

Next ==
    \/ \E r \in Requests : Send(r) \/ Deliver(r)
    \/ \E m \in Messages : Garbage(m)

Spec == Init /\ [][Next]_chanVars
=============================================================================
