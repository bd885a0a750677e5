----------------------- MODULE MC_ValidateReleaseNotes -----------------------
(***************************************************************************)
(* Bodies of up to 5 lines over: the "Release Notes" title and one other    *)
(* "## " title, two valid categories and one misspelt one, one entry text   *)
(* (and the empty bullet), "none" and prose, and the comment markers.       *)
(* Five lines are enough for a heading, an invalid heading, a bullet and a  *)
(* comment around or across the section boundary.                           *)
(***************************************************************************)
EXTENDS ValidateReleaseNotes

MCTitles       == {"Release Notes", "Summary"}
MCHeadingTexts == {"Fixed", "Added", "Fixes"}
MCEntryTexts   == {"e1"}
MCPlainTexts   == {"none", "prose"}
MCMaxLines     == 5

=============================================================================
