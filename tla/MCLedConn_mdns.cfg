SPECIFICATION TopicsSpec
CONSTANTS
  Discovery = {"mdns"}
  G = 1
  MaxSweeps = 0
  MaxCommands = 0
PROPERTY
  ComesOnline
