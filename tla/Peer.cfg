SPECIFICATION FairSpec
CONSTANT Worlds <- MCWorlds
INVARIANTS KeepAliveArmed ListenersAgree ConnectedOnce HandshakeComplete
PROPERTIES HandshakeEnds
