CONSTANTS
  Uris <- MCUris
SPECIFICATION Spec
INVARIANTS
  ServedIsAsked
PROPERTIES
  ArgsReachOneScript
