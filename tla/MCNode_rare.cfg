SPECIFICATION Spec
CONSTANTS
  Peer = {3}
  OurId = 2
  MaxToken = 3
  UsizeMax = 4
  MaxPosted = 1
  MaxSockets = 1
  UserOps = {"connect", "disconnect", "start_bootstrap"}
  Admitted = {"register", "set_timeout", "both_fail", "known_bootstrap",
              "second_request"}
INVARIANTS
  TypeOK
  ActiveTokenIsLive
  PostedTokenIsOwn
PROPERTY
  TokensMoveForward
