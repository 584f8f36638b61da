SPECIFICATION Spec
CONSTANTS
  Clients = {"peer", "stranger"}
  Own <- MCOwn
  Segments <- MCSegments
INVARIANTS OnlyGenuine GetsThrough OneClient
