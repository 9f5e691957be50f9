\* Three sockets, two commands, two attempts per reconnect.
CONSTANTS
  MaxConns = 3
  MaxCmds = 2
  MaxAttempts = 2
SPECIFICATION FairSpec
INVARIANT TransportIsSound
PROPERTIES EveryCommandEnds LossIsNoticed ImplementsCommandReplies
CHECK_DEADLOCK FALSE
