SPECIFICATION TopicsSpec
CONSTANTS
  Discovery = {"static", "mdns"}
  G = 1
  MaxSweeps = 1
  MaxCommands = 1
INVARIANTS
  TypeOK
  SingleClient
  StrandedByMdns
  TopicsTypeOK
  NoOldState
PROPERTIES
  Answered
  CatchesUp
