CONSTANTS
  Unparseable   = Unparseable
  MCUnparseable = Unparseable
  ParsedVersion <- MCParsedVersion
  InitDocs      <- MCInitDocs
  EOLs          = {TRUE}
  NewVersions   <- MCNewVersions
  MaxCalls      <- MCMaxCalls
  SemverOf      <- MCSemverOf
SPECIFICATION Spec
\* The releases of a run are done after MaxCalls calls of update_changelog.
CHECK_DEADLOCK FALSE
INVARIANT
  VersionsDescending
