CONSTANTS
  Titles       <- MCTitles
  HeadingTexts <- MCHeadingTexts
  EntryTexts   <- MCEntryTexts
  PlainTexts   <- MCPlainTexts
  MaxLines     <- MCMaxLines
SPECIFICATION Spec
\* validate_release_notes returns: a run ends in pc = "done".
CHECK_DEADLOCK FALSE
INVARIANTS
  TypeOK
  ScanMatchesReference
PROPERTY
  ContractSteps
