---------------------------- MODULE MCDriverCache ----------------------------
(* Values of the constants of DriverCache for TLC. *)
EXTENDS DriverCache, TLC

CONSTANTS l1, l2, l3, py38, py39, venv1, venv2, pypy, copy

ThreeLaunches == {l1, l2, l3}
TwoKillable == {l1, l2}
SixInterpreters == {py38, py39, venv1, venv2, pypy, copy}
VenvsOfPy38 ==
    [i \in SixInterpreters |-> IF i \in {venv1, venv2} THEN py38 ELSE i]
TheCopy == {copy}
FiveDirs == {"python", "venv1", "venv2", "pypy", "tmp"}
TheirPlaces ==
    py38 :> "python" @@ py39 :> "python" @@ venv1 :> "venv1"
        @@ venv2 :> "venv2" @@ pypy :> "pypy" @@ copy :> "tmp"
=============================================================================
