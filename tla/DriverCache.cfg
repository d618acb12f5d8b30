\* Two interpreters in one directory, two environments of one of them as on
\* Windows, an interpreter elsewhere, and a copy of the driver configured as an
\* interpreter; two launches may be killed.
CONSTANTS
    l1 = l1
    l2 = l2
    l3 = l3
    py38 = py38
    py39 = py39
    venv1 = venv1
    venv2 = venv2
    pypy = pypy
    copy = copy
    Launches <- ThreeLaunches
    Interpreters <- SixInterpreters
    Base <- VenvsOfPy38
    Dirs <- FiveDirs
    Place <- TheirPlaces
    Cached <- TheCopy
    Unset = Unset
    Nothing = Nothing
    Broken = Broken
    Killable <- TwoKillable
    MaxBuilds = 2
SPECIFICATION Spec
PROPERTY BrokenOnlyByOthers
 
CHECK_DEADLOCK FALSE
