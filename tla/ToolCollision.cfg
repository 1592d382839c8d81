SPECIFICATION CatalogSpec
CONSTANTS
  Backends = {"a", "a_", "a__b"}
  Chars = {"a", "b", "x", "_"}
  Prefix <- MCPrefix
  Tools <- MCTools
INVARIANT CallsReachOwner
CHECK_DEADLOCK FALSE
