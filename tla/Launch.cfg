\* Two sessions; launch.json with one name is edited up to twice.
SPECIFICATION LaunchFairSpec
CONSTANTS
    Sessions = {s1, s2}
    Names = {"app"}
    MaxEdits = 2
PROPERTIES LaunchedAsChecked LaunchAnswered
CHECK_DEADLOCK FALSE
