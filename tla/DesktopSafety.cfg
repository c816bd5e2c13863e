\* Two sessions of one user, with a worker whose queue holds two commands.
SPECIFICATION Spec
CONSTANTS
    MaxSessions = 2
    MaxQueue = 2
    Modes = {1}
    Scopes <- MCScopes
INVARIANT DevicesAgree
PROPERTIES StoppedSessionsReturn ConnectSettles ImplementsSessionLife CapsResolvedOnce
CHECK_DEADLOCK FALSE
