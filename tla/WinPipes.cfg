\* Two hooks, under one session or two; one may be killed.
CONSTANTS
    h1 = h1
    h2 = h2
    Hooks <- TwoHooks
    Parents <- TogetherOrApart
    Main = Main
    Stopper = Stopper
    NoOne = NoOne
    Parts = 2
    MaxInstances = 2
    Killable <- Hook1
SPECIFICATION FairSpec
INVARIANT LinesCostInstances
PROPERTIES IsRequestChannel AcceptedIsPrinted NoEarlyReturn
PROPERTY SessionEndReleasesHook
CHECK_DEADLOCK FALSE
