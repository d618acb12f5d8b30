\* Up to four arguments; all files with up to two of them; all environments of
\* up to four lines and all interpreters with none.
CONSTANTS
    Words = {"word"}
    MaxArgs = 4
    MaxVaried = 2
    MaxLines = 4
SPECIFICATION StartSpec
INVARIANTS ArgsRestored LauncherGetsArgs
INVARIANTS StartedIfPlain EnvironmentRestored InterpreterKept
CHECK_DEADLOCK FALSE
