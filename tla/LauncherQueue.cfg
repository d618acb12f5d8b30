\* Three hooks, two of which may be killed while they send.
CONSTANTS
    h1 = h1
    h2 = h2
    h3 = h3
    Server = Server
    Hooks <- ThreeHooks
    Parts = 2
    Killable <- Hooks12
SPECIFICATION FairSpec
INVARIANTS RequestInOneLine TornOnlyIfKilled
PROPERTIES IsRequestChannel SendingEnds
PROPERTY OneChainDelivers
CHECK_DEADLOCK FALSE
