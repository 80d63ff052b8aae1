SPECIFICATION ReflectSpec
CONSTANTS
  T = T
  U = U
  R = R
  S = S
  Names <- MCNames
  Types <- MCTypes
  Services <- MCServices
  Corpora <- MCCorpora
INVARIANTS CrawlIsClosed PoolSetIsSettled SchemaIsClosed
CONSTRAINT OlderServers
CHECK_DEADLOCK FALSE
