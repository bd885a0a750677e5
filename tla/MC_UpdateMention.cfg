CONSTANTS
  Unparseable   = Unparseable
  MCUnparseable = Unparseable
  ParsedVersion <- MCParsedVersion
  InitDocs      <- MCMentionDocs
  EOLs          = {TRUE}
  NewVersions   <- MCMentionNewVersions
  MaxCalls      <- MCMaxCalls
  SemverOf      <- MCSemverOf
SPECIFICATION Spec
\* The releases of a run are done after MaxCalls calls of update_changelog.
CHECK_DEADLOCK FALSE
PROPERTY
  ImplementsInsertContract
