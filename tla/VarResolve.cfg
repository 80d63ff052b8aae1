SPECIFICATION Spec
CONSTANTS
  Names <- MCNames
  Builtins <- MCBuiltins
  Scopes <- MCScopes
  Requests <- MCRequests
  Auths <- MCAuths
  Envs <- MCEnvs
  MAX_PASSES = 2
INVARIANTS
  VerdictIsRight
CHECK_DEADLOCK FALSE
