SPECIFICATION Spec
CONSTANTS
  ArgvRefused <- Refused
  WithBashNoprofile <- Rewritten
  Denied <- McDenied
  Dotted <- McDotted
  EnvNames <- McEnvNames
  DeniedNames <- McDeniedNames
  Loaders <- McLoaders
  Callers <- McCallers
  ChildCodes <- McChildCodes
  Vocabulary <- McWords
  MaxWords <- McMaxWords
INVARIANTS StatusIsTrue ChecksAgree EnvIsAsAsked BashReadsNoFiles
CHECK_DEADLOCK FALSE
