\* Two policies with different intervals, a change of the cluster, a fault, and
\* caches that may be one version behind.
CONSTANTS
  Namespaces <- MCNamespaces
  Patterns <- MCPatterns
  Language <- MCLanguage
  Malformed <- MCMalformed
  MaxTTL = 2
  Policies = {"short", "long"}
  TTL <- MCTTL
  Starts <- MCStarts
  Pods = {"a", "b"}
  Namespace <- MCNamespace
  Labelled = {"b"}
  Nobody = "nobody"
  MaxInFlight = 2
  MaxChanges = 1
  MaxFaults = 1
  MaxLag = 1
SPECIFICATION FairSpec
INVARIANTS
  TypeOK
  ReportsAgree
PROPERTIES
  NoBlindRetry
  MarkJustified
  RecoversInTime
  SelectsExactly
  Recovers
  ReportsSettle
