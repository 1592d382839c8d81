SPECIFICATION Spec
CONSTANTS
  Backends = {"a", "b"}
  Names = {"a", "b", ""}
  NoName = ""
  Hosts = {"h"}
  NoHost = ""
  Chars = {"a", "b", "x", "_"}
  Prefix <- MCPrefix
  Tools <- MCTools
  Requests = {r1, r2}
  Documents <- MCDocuments
INVARIANTS TypeOK Accepted ReadySettled CallsReachOwner NoneLeftAfterDrain
PROPERTIES ToolsOnlyAdded ReadyDespiteConsent OnlyConsentsHoldExit ServingEnds ImplementsLife
