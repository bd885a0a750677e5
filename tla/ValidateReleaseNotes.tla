------------------------ MODULE ValidateReleaseNotes ------------------------
(***************************************************************************)
(* validate_release_notes of .github/scripts/release-notes.py, one step    *)
(* per call it makes and one step per line of the category scan:           *)
(*                                                                         *)
(*   "extract"  extract_release_notes_section(pr_body)                     *)
(*   "opt_out"  is_opt_out(release_notes), and on False the start of       *)
(*              parse_release_notes (clean_content, categories = {},       *)
(*              current_category = None)                                   *)
(*   "parse"    one iteration of the `for line in cleaned` loop, then the  *)
(*              checks on the returned categories                          *)
(*   "done"     the (is_valid, message, categories) tuple is returned      *)
(*                                                                         *)
(* The PR body is any sequence of at most MaxLines lines built from the    *)
(* constants below, chosen in Init.                                        *)
(***************************************************************************)
EXTENDS ReleaseNotesOps

CONSTANTS
  Titles,        \* texts of "## " lines ("Release Notes" and another title)
  HeadingTexts,  \* texts of "### " lines (valid categories and invalid ones)
  EntryTexts,    \* texts of bullets ("" is always added: an empty bullet)
  PlainTexts,    \* texts of other lines (e.g. "NONE" and prose)
  MaxLines       \* bound on the number of lines of a PR body

ASSUME MaxLines \in Nat

BodyLine ==
       {Line("h2", t) : t \in Titles}
  \cup {Line("h3", t) : t \in HeadingTexts}
  \cup {Line("bullet", t) : t \in EntryTexts \cup {""}}
  \cup {Line("plain", t) : t \in PlainTexts}
  \cup {CommentOpen, CommentClose, Blank}

Message == {"pending", "not_found", "opted_out", "no_categories",
            "empty_categories", "valid"}

VARIABLES
  body,     \* pr_body, as lines
  eol,      \* whether the text of pr_body ends with a newline
  pc,       \* where validate_release_notes is
  section,  \* release_notes, the extracted section
  lines,    \* cleaned.split('\n') inside parse_release_notes
  i,        \* index of the next line of the scan
  st,       \* current_category and the categories dict
  result    \* the returned tuple

vars == <<body, eol, pc, section, lines, i, st, result>>

\* The categories dict as returned: its keys in order and their lists.
Dict(s) == [keys |-> s.keys, entries |-> s.entries]

Finish(valid, msg, empty, hasCats) ==
  /\ result' = [valid   |-> valid,
                msg     |-> msg,
                empty   |-> empty,
                hasCats |-> hasCats,
                cats    |-> IF hasCats THEN Dict(st) ELSE Dict(ParseInit)]
  /\ pc' = "done"

Init ==
  /\ body \in BoundedSeq(BodyLine, MaxLines)
  /\ eol \in BOOLEAN
  /\ pc = "extract"
  /\ section = <<>>
  /\ lines = <<>>
  /\ i = 1
  /\ st = ParseInit
  /\ result = [valid |-> FALSE, msg |-> "pending", empty |-> <<>>,
               hasCats |-> FALSE, cats |-> Dict(ParseInit)]

\* release_notes = extract_release_notes_section(pr_body); return if None.
ExtractSection ==
  /\ pc = "extract"
  /\ LET x == ExtractReleaseNotesSection(body, eol)
     IN  \/ /\ ~x.found
            /\ Finish(FALSE, "not_found", <<>>, FALSE)
            /\ UNCHANGED <<section, lines, i>>
         \/ /\ x.found
            /\ section' = x.section
            /\ pc' = "opt_out"
            /\ UNCHANGED <<result, lines, i>>
  /\ UNCHANGED <<body, eol, st>>

\* if is_opt_out(release_notes): return; else parse_release_notes starts.
CheckOptOut ==
  /\ pc = "opt_out"
  /\ \/ /\ IsOptOut(section)
        /\ Finish(TRUE, "opted_out", <<>>, FALSE)
        /\ UNCHANGED <<lines, i, st>>
     \/ /\ ~IsOptOut(section)
        /\ lines' = CleanContent(section)
        /\ i' = 1
        /\ st' = ParseInit
        /\ pc' = "parse"
        /\ UNCHANGED result
  /\ UNCHANGED <<body, eol, section>>

\* One iteration of the scan over the cleaned lines.
ParseStep ==
  /\ pc = "parse"
  /\ i <= Len(lines)
  /\ st' = ParseLine(st, lines[i])
  /\ i' = i + 1
  /\ UNCHANGED <<body, eol, pc, section, lines, result>>

\* Mutant of CheckCategories: only the category read last is tested for
\* entries.
CheckCategoriesLastOnly ==
  /\ pc = "parse"
  /\ i > Len(lines)
  /\ LET empty == SelectSeq(st.keys, LAMBDA c : c = st.cur /\ st.entries[c] = <<>>)
     IN  \/ /\ st.keys = <<>>
            /\ Finish(FALSE, "no_categories", <<>>, FALSE)
         \/ /\ st.keys # <<>>
            /\ empty # <<>>
            /\ Finish(FALSE, "empty_categories", empty, FALSE)
         \/ /\ st.keys # <<>>
            /\ empty = <<>>
            /\ Finish(TRUE, "valid", <<>>, TRUE)
  /\ UNCHANGED <<body, eol, section, lines, i, st>>

\* The scan is over: the checks on the returned categories.
CheckCategories ==
  /\ pc = "parse"
  /\ i > Len(lines)
  /\ LET empty == SelectSeq(st.keys, LAMBDA c : st.entries[c] = <<>>)
     IN  \/ /\ st.keys = <<>>
            /\ Finish(FALSE, "no_categories", <<>>, FALSE)
         \/ /\ st.keys # <<>>
            /\ empty # <<>>
            /\ Finish(FALSE, "empty_categories", empty, FALSE)
         \/ /\ st.keys # <<>>
            /\ empty = <<>>
            /\ Finish(TRUE, "valid", <<>>, TRUE)
  /\ UNCHANGED <<body, eol, section, lines, i, st>>

Next ==
  \/ ExtractSection
  \/ CheckOptOut
  \/ ParseStep
  \/ CheckCategories

Spec == Init /\ [][Next]_vars


-----------------------------------------------------------------------------
(* Type invariant: current_category is None or one of VALID_CATEGORIES,   *)
(* and the scan index stays within the cleaned lines.                       *)
TypeOK ==
  /\ body \in Seq(BodyLine)
  /\ eol \in BOOLEAN
  /\ pc \in {"extract", "opt_out", "parse", "done"}
  /\ section \in Seq(BodyLine)
  /\ lines \in Seq(BodyLine)
  /\ i \in 1..(MaxLines + 1)
  /\ st.cur \in ValidCategory \cup {NoCategory}
  /\ result.msg \in Message

(***************************************************************************)
(* The scan keeps one variable, current_category, instead of asking of     *)
(* each bullet which heading governs it.  At every step of the loop the    *)
(* dict built so far, and current_category, equal what the stateless      *)
(* reference gives for the lines read so far: no bullet is attributed to   *)
(* a category whose heading was followed by an invalid one, and a repeated *)
(* heading adds to the list it first created.                             *)
(***************************************************************************)
ScanMatchesReference ==
  pc = "parse" => st = RefParse(SubSeq(lines, 1, i - 1))

Contract == INSTANCE ValidateContract WITH Lines <- BodyLine

(***************************************************************************)
(* validate_release_notes implements its contract (spec 4.5): with the     *)
(* scan unrolled into steps, every step of a call either leaves the result *)
(* pending or returns exactly the verdict the contract computes from the   *)
(* body without a scan: the right message, the reference categories when   *)
(* valid, and when it rejects empty categories every one of them in the    *)
(* order they appeared.  The mapping is the identity: result stays pending *)
(* until the call returns.                                                 *)
(***************************************************************************)
ContractSteps == Contract!Init /\ [][Contract!Decide]_(Contract!avars)

(***************************************************************************)
(* Spec 3: a heading that is not one of the six categories "is invalid and *)
(* must be rejected (not silently passed through)".  A PR whose notes have *)
(* such a heading is never reported valid.                                 *)
(***************************************************************************)
InvalidHeadingRejected ==
  (pc = "done" /\ result.valid) =>
    \A j \in DOMAIN CleanContent(section) :
      LET l == CleanContent(section)[j]
      IN  l.kind = "h3" => l.text \in ValidCategory

=============================================================================
