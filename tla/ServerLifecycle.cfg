\* Two launches, a hook each, under four settings.
CONSTANTS
    k1 = k1
    k2 = k2
    h1 = h1
    h2 = h2
    Stopper = stopper
    Launches <- TwoLaunches
    Hooks <- TwoHooks
    LaunchOf <- HooksOf1And2
    Names = {"q1", "q2"}
    Settings <- FourSettings
SPECIFICATION FairSpec
INVARIANTS NoRepeat OneReader NoPipeLeft
PROPERTY MainEndStopsServer
CHECK_DEADLOCK FALSE
