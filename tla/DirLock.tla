------------------------------- MODULE DirLock -------------------------------
(***************************************************************************)
(* The lock directories NAME.lock: lock and release_lock of the shell      *)
(* scripts (hook.sh:9-18, server.sh:24-33, python_driver.sh:8-17), getLock *)
(* and releaseLock of the extension (common.ts:30-49).                     *)
(*                                                                         *)
(* Locking is "mkdir -p", two system calls: mkdir(2), and if that fails    *)
(* because the name exists, stat(2) to see that it is a directory.  The    *)
(* loop around it goes round only when the directory vanishes between the  *)
(* two, so it is no mutual exclusion; what it costs and what it leaves     *)
(* behind is the subject here.                                             *)
(*                                                                         *)
(* getLock is an async function that nobody awaits (deepDebug.ts:82 and    *)
(* 111, python.ts:120): when its first try fails the caller goes on        *)
(* without the directory, and the retry happens in the background later.   *)
(***************************************************************************)
EXTENDS Naturals

CONSTANTS
    Users,       \* processes and threads that use one lock
    Unawaited,   \* those that call the extension's getLock
    Mortal,      \* those somebody may kill
    MaxVisits    \* times each locks

ASSUME DirLockAssumption ==
    /\ Unawaited \subseteq Users
    /\ Mortal \subseteq Users
    /\ MaxVisits \in Nat

VARIABLES
    lockDir,     \* NAME.lock, by who made it: "none", "user", "background"
    at,          \* "idle", "mkdir", "stat", "in" or "killed"
    visits,      \* times each user has begun to lock
    late         \* users whose getLock still retries in the background

lockVars == <<lockDir, at, visits, late>>

Exists == lockDir # "none"

Moves(u, from, to) == at[u] = from /\ at' = [at EXCEPT ![u] = to]

-----------------------------------------------------------------------------
BeginLock(u) ==
    /\ visits[u] < MaxVisits
    /\ Moves(u, "idle", "mkdir")
    /\ visits' = [visits EXCEPT ![u] = @ + 1]
    /\ UNCHANGED <<lockDir, late>>

\* Mutant of Mkdir: mkdir without -p.
MkdirPlain(u) ==
    /\ ~Exists
    /\ Moves(u, "mkdir", "in")
    /\ lockDir' = "user"
    /\ UNCHANGED <<visits, late>>

\* mkdir(2) makes the directory or finds the name taken.
Mkdir(u) ==
    /\ Moves(u, "mkdir", IF Exists THEN "stat" ELSE "in")
    /\ lockDir' = IF Exists THEN lockDir ELSE "user"
    /\ UNCHANGED <<visits, late>>

\* Mutant of Stat: a vanished directory is taken for success.
StatBlind(u) == Moves(u, "stat", "in") /\ UNCHANGED <<lockDir, visits, late>>

\* stat(2): the directory is there, whoever made it, and the user is in; or it
\* has vanished, and the loop sleeps and goes round, which in getLock happens
\* behind the back of its caller.
Stat(u) ==
    /\ \/ /\ Exists
          /\ Moves(u, "stat", "in")
          /\ UNCHANGED late
       \/ /\ ~Exists
          /\ u \notin Unawaited
          /\ Moves(u, "stat", "mkdir")
          /\ UNCHANGED late
       \/ /\ ~Exists
          /\ u \in Unawaited
          /\ Moves(u, "stat", "in")
          /\ late' = late \cup {u}
    /\ UNCHANGED <<lockDir, visits>>

\* The try of a background getLock that succeeds; nobody releases what it made.
LateMkdir(u) ==
    /\ u \in late
    /\ late' = late \ {u}
    /\ lockDir' = IF Exists THEN lockDir ELSE "background"
    /\ UNCHANGED <<at, visits>>

\* Mutant of Release: the directory stays.
ReleaseNot(u) == Moves(u, "in", "idle") /\ UNCHANGED <<lockDir, visits, late>>

\* rm -rf NAME.lock, rmdirSync: no matter who made it.
Release(u) ==
    /\ Moves(u, "in", "idle")
    /\ lockDir' = "none"
    /\ UNCHANGED <<visits, late>>

\* The launcher server and the extension release a lock before they take it
\* (server.sh:64, deepDebug.ts:81).
ReleaseJustInCase(u) ==
    /\ at[u] = "idle"
    /\ lockDir' = "none"
    /\ UNCHANGED <<at, visits, late>>

KillUser(u) ==
    /\ u \in Mortal
    /\ at[u] # "killed"
    /\ at' = [at EXCEPT ![u] = "killed"]
    /\ late' = late \ {u}
    /\ UNCHANGED <<lockDir, visits>>

-----------------------------------------------------------------------------
LockInit ==
    /\ lockDir = "none"
    /\ at = [u \in Users |-> "idle"]
    /\ visits = [u \in Users |-> 0]
    /\ late = {}

Step(u) == Mkdir(u) \/ Stat(u) \/ LateMkdir(u) \/ Release(u)

LockNext ==
    \E u \in Users :
        BeginLock(u) \/ Step(u) \/ ReleaseJustInCase(u) \/ KillUser(u)

LockSpec == LockInit /\ [][LockNext]_lockVars

\* Every process runs; whether it locks again is its own affair.
FairLockSpec == LockSpec /\ \A u \in Users : WF_lockVars(Step(u))

-----------------------------------------------------------------------------
\* The lock never blocks: a user who died inside, or a directory a background
\* retry left behind, keeps nobody out.
LockerGetsIn == \A u \in Users : at[u] = "mkdir" ~> at[u] \in {"in", "killed"}

\* When all are through and nobody died inside, the directory is gone, unless a
\* retry in the background made it anew: those of getLock nobody removes.
CleanWhenIdle == (\A u \in Users : at[u] = "idle") => lockDir # "user"

\* The two system calls make one atomic step of the lock that the other modules
\* assume: a shell enters by setting the mark, and may lose it to anybody's
\* release; a caller of getLock may enter without, and set it later.
Advisory == INSTANCE AdvisoryLock WITH
    Careless <- Unawaited,
    lockDir <- Exists,
    inside <- {u \in Users : at[u] = "in"}

IsAdvisoryLock == Advisory!Spec
=============================================================================
