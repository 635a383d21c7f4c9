\* One policy checks more often than the other.
CONSTANTS
  Namespaces <- MCNamespaces
  Patterns <- MCPatterns
  Language <- MCLanguage
  Malformed <- MCMalformed
  MaxTTL = 2
  Policies = {"short", "long"}
  TTL <- MCTTL
  Starts <- MCStartsApart
  Pods = {"a", "b"}
  Namespace <- MCNamespace
  Labelled = {"b"}
  Nobody = "nobody"
  MaxInFlight = 2
  MaxChanges = 0
  MaxFaults = 0
  MaxLag = 0
SPECIFICATION FairSpec
PROPERTIES
  NotStarved
