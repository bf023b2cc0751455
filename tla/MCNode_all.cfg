SPECIFICATION FairSpec
CONSTANTS
  Peer = {1, 3}
  OurId = 2
  MaxToken = 3
  UsizeMax = 7
  MaxPosted = 1
  MaxSockets = 2
  UserOps = {"connect", "disconnect", "send", "start_bootstrap", "stop_bootstrap"}
  Admitted = {}
INVARIANTS
  HandshakesCounted
  EntryHasOwner
  ChosenConnectionUnique
  FamiliesAgree
  EventsMatchConnections
  BootstrapHasOneOutcome
  TimersMatchStates
PROPERTY
  AttemptsEnd
