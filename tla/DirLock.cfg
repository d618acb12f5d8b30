\* Two shells, one of which may be killed, and the extension at one lock.
CONSTANTS
    Users = {hook1, hook2, extension}
    Unawaited = {extension}
    Mortal = {hook1}
    MaxVisits = 2
SPECIFICATION FairLockSpec
INVARIANT CleanWhenIdle
PROPERTIES LockerGetsIn IsAdvisoryLock
CHECK_DEADLOCK FALSE
