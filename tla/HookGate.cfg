\* Every interleaving of two hooks; for one there may be a leftover gate, and an
\* earlier session of its pid.  Any of the two may be killed.
CONSTANTS
    h1 = h1
    h2 = h2
    e1 = e1
    Hooks <- TwoHooks
    Stopper = Stopper
    Killable <- TwoHooks
    Leftover <- Hook1
    Earlier <- OneEarlier
    Heir <- HeirIsHook1
SPECIFICATION FairSpec
INVARIANTS NoEarlyReturn NoResidue
PROPERTIES ExtensionUnblocked SessionEndReleasesHook
CHECK_DEADLOCK FALSE
