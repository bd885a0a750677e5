-------------------------- MODULE ReleaseNotesOps --------------------------
(***************************************************************************)
(* The text functions of .github/scripts/release-notes.py, at the level of *)
(* lines.  A PR body is a sequence of lines; each line is a record whose   *)
(* kind is what the code's regular expressions and prefix tests see in it: *)
(*                                                                         *)
(*   "h2"      a line "## <text>"  (text "Release Notes" or another title) *)
(*   "h3"      a line "### <text>"                                         *)
(*   "bullet"  a line "- <text>" or "* <text>" (text may be empty)         *)
(*   "plain"   any other non-blank line, e.g. "NONE" or prose              *)
(*   "open"    a line "<!--"   (an HTML comment that opens)                *)
(*   "close"   a line "-->"    (an HTML comment that closes)               *)
(*   "blank"   an empty or whitespace-only line                            *)
(*                                                                         *)
(* The wording of a line is abstracted to a member of a small set; the     *)
(* control of every function (which line ends a section, which comment is *)
(* removed, which bullet goes to which category) is kept.                  *)
(***************************************************************************)
EXTENDS Naturals, Sequences, SequencesExt

Line(k, t) == [kind |-> k, text |-> t]
CommentOpen  == Line("open", "<!--")
CommentClose == Line("close", "-->")
Blank        == Line("blank", "")

\* VALID_CATEGORIES, in the code's (and the rendered changelog's) order.
VALID_CATEGORIES == <<"Added", "Changed", "Deprecated", "Removed", "Fixed", "Security">>
ValidCategory == ToSet(VALID_CATEGORIES)

\* current_category = None
NoCategory == "None"

\* The spellings of the "Release Notes" title the IGNORECASE pattern accepts.
ReleaseNotesTitles == {"Release Notes", "release notes", "RELEASE NOTES"}

\* The plain lines whose .upper() is "NONE".
NoneWords == {"NONE", "none", "NoNe"}

-----------------------------------------------------------------------------
(* extract_release_notes_section: the first "## Release Notes" line that   *)
(* the pattern matches, up to the next "## " line or the end of the body.  *)
(* The pattern needs one whitespace character after "Notes", so a heading  *)
(* that is the last line of a body without a final newline does not match; *)
(* eol says whether the body text ends with a newline.                     *)
(***************************************************************************)
IsReleaseNotesHeading(body, eol, r) ==
  /\ body[r].kind = "h2"
  /\ body[r].text \in ReleaseNotesTitles
  /\ r < Len(body) \/ eol

ExtractReleaseNotesSection(body, eol) ==
  LET starts == {r \in DOMAIN body : IsReleaseNotesHeading(body, eol, r)}
      r      == Min(starts)
      ends   == {e \in DOMAIN body : e > r /\ body[e].kind = "h2"}
      e      == IF ends = {} THEN Len(body) + 1 ELSE Min(ends)
  IN  IF starts = {}
      THEN [found |-> FALSE, section |-> <<>>]
      ELSE [found |-> TRUE,  section |-> SubSeq(body, r + 1, e - 1)]

-----------------------------------------------------------------------------
(* clean_content: re.sub('<!--.*?-->', '', DOTALL) removes, left to right, *)
(* each "<!--" with the first "-->" after it; an unclosed "<!--" stays.    *)
(* What is left of the lines around a removed comment is blank.  Trimming  *)
(* every line, collapsing blank runs and stripping the whole text leaves   *)
(* exactly the non-blank lines.                                            *)
(***************************************************************************)
RECURSIVE StripComments(_)
StripComments(ls) ==
  LET opens  == {o \in DOMAIN ls : ls[o].kind = "open"}
      o      == Min(opens)
      closes == {c \in DOMAIN ls : c > o /\ ls[c].kind = "close"}
  IN  IF opens = {} \/ closes = {}
      THEN ls
      ELSE SubSeq(ls, 1, o - 1) \o <<Blank>>
             \o StripComments(SubSeq(ls, Min(closes) + 1, Len(ls)))

CleanContent(ls) == SelectSeq(StripComments(ls), LAMBDA l : l.kind # "blank")

\* is_opt_out: the cleaned content, upper-cased, is exactly "NONE".
IsOptOut(ls) ==
  LET cleaned == CleanContent(ls)
  IN  Len(cleaned) = 1 /\ cleaned[1].kind = "plain" /\ cleaned[1].text \in NoneWords

-----------------------------------------------------------------------------
(* parse_release_notes: one pass over the cleaned lines, keeping           *)
(* current_category.  The dict `categories` is the pair keys (insertion    *)
(* order, as a Python dict keeps it) and entries.                          *)
(***************************************************************************)
\* line.startswith('-') or line.startswith('*'); a left-over "-->" is one.
IsListItem(l) == l.kind \in {"bullet", "close"}

\* line[1:].strip(): the text after the marker ("-->" leaves "->").
EntryText(l) == IF l.kind = "close" THEN "->" ELSE l.text

ParseInit ==
  [cur     |-> NoCategory,
   keys    |-> <<>>,
   entries |-> [c \in ValidCategory |-> <<>>]]

\* Mutant of ParseLine: an invalid heading leaves current_category as it was.
ParseLineKeepCategory(st, l) ==
  CASE l.kind = "h3" /\ l.text \in ValidCategory ->
         [st EXCEPT !.cur  = l.text,
                    !.keys = IF Contains(@, l.text) THEN @ ELSE Append(@, l.text)]
    [] IsListItem(l) /\ st.cur # NoCategory /\ EntryText(l) # "" ->
         [st EXCEPT !.entries[st.cur] = Append(@, EntryText(l))]
    [] OTHER -> st

\* Mutant of ParseLine: the heading text is taken without the validity test.
ParseLineAnyHeading(st, l) ==
  CASE l.kind = "h3" /\ l.text \in ValidCategory ->
         [st EXCEPT !.cur  = l.text,
                    !.keys = IF Contains(@, l.text) THEN @ ELSE Append(@, l.text)]
    [] l.kind = "h3" ->
         [st EXCEPT !.cur = l.text]
    [] IsListItem(l) /\ st.cur # NoCategory /\ EntryText(l) # "" ->
         [st EXCEPT !.entries[st.cur] = Append(@, EntryText(l))]
    [] OTHER -> st

ParseLine(st, l) ==
  CASE l.kind = "h3" /\ l.text \in ValidCategory ->
         [st EXCEPT !.cur  = l.text,
                    !.keys = IF Contains(@, l.text) THEN @ ELSE Append(@, l.text)]
    [] l.kind = "h3" ->
         [st EXCEPT !.cur = NoCategory]
    [] IsListItem(l) /\ st.cur # NoCategory /\ EntryText(l) # "" ->
         [st EXCEPT !.entries[st.cur] = Append(@, EntryText(l))]
    [] OTHER -> st

ParseReleaseNotes(ls) == FoldLeft(ParseLine, ParseInit, CleanContent(ls))

-----------------------------------------------------------------------------
(* Reference definitions of what parsing promises (spec 4.4 and 9),       *)
(* stated without a scan: a bullet belongs to the category named by the    *)
(* nearest "###" line above it, and to none when that name is not valid.   *)
(***************************************************************************)
GoverningCategory(ls, j) ==
  LET hs == {k \in 1..(j - 1) : ls[k].kind = "h3"}
  IN  IF hs = {} \/ ls[Max(hs)].text \notin ValidCategory
      THEN NoCategory
      ELSE ls[Max(hs)].text

\* The valid headings, each once, in the order of their first occurrence.
RefKeys(ls) ==
  LET firsts == {j \in DOMAIN ls :
                   /\ ls[j].kind = "h3" /\ ls[j].text \in ValidCategory
                   /\ \A k \in 1..(j - 1) : ls[k] # ls[j]}
      idx    == SetToSortSeq(firsts, <)
  IN  [n \in DOMAIN idx |-> ls[idx[n]].text]

RefEntries(ls, c) ==
  LET kept == SelectSeq([j \in DOMAIN ls |-> j],
                        LAMBDA j : /\ IsListItem(ls[j])
                                   /\ EntryText(ls[j]) # ""
                                   /\ GoverningCategory(ls, j) = c)
  IN  [n \in DOMAIN kept |-> EntryText(ls[kept[n]])]

\* The parse state after reading all of ls, as the reference defines it.
RefParse(ls) ==
  [cur     |-> GoverningCategory(ls, Len(ls) + 1),
   keys    |-> RefKeys(ls),
   entries |-> [c \in ValidCategory |-> RefEntries(ls, c)]]

=============================================================================
