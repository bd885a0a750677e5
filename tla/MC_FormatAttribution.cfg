CONSTANTS
  Numbers       <- MCNumbers
  Bodies        <- MCBodies
  EntryMentions <- MCEntryMentions
  MaxPRs        <- MCMaxPRs
SPECIFICATION Spec
\* format_changelog_from_prs returns: a run ends in pc = "done".
CHECK_DEADLOCK FALSE
INVARIANT
  EntriesAttributedToTheirPR
