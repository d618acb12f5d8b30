SPECIFICATION HandshakeSpec
CONSTANT Sessions = {s1}
INVARIANT LaunchedConfigured
CHECK_DEADLOCK FALSE
