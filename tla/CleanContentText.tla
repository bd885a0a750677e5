------------------------- MODULE CleanContentText -------------------------
(***************************************************************************)
(* clean_content of .github/scripts/release-notes.py at the level of       *)
(* characters, one step per statement of the function:                     *)
(*                                                                         *)
(*   "comments"  re.sub(r'<!--.*?-->', '', content, flags=re.DOTALL)       *)
(*   "lines"     '\n'.join(line.strip() for line in content.split('\n'))   *)
(*   "blanks"    re.sub(r'\n\s*\n', '\n', content)                         *)
(*   "strip"     return content.strip()                                    *)
(*                                                                         *)
(* A text is a sequence of one-character strings.  The only characters     *)
(* that matter to the patterns are those of "<!--" and "-->", the newline  *)
(* and whitespace; every other character is "x".                           *)
(***************************************************************************)
EXTENDS ReleaseNotesOps

CONSTANT Inputs   \* the section texts clean_content may be called with

OpenChars  == <<"<", "!", "-", "-">>
CloseChars == <<"-", "-", ">">>
NL         == "\n"
Whitespace == {" ", NL}

\* The pattern p occurs in s at position i.
OccursAt(s, p, i) == i + Len(p) - 1 <= Len(s) /\ SubSeq(s, i, i + Len(p) - 1) = p

\* Mutant of RemoveComments: the greedy pattern '<!--.*-->'.
RECURSIVE RemoveCommentsGreedy(_)
RemoveCommentsGreedy(s) ==
  LET closes(i) == {k \in (i + 4)..Len(s) : OccursAt(s, CloseChars, k)}
      opens     == {i \in DOMAIN s : OccursAt(s, OpenChars, i) /\ closes(i) # {}}
  IN  IF opens = {} THEN s
      ELSE LET i == Min(opens)
           IN  SubSeq(s, 1, i - 1)
                 \o RemoveCommentsGreedy(SubSeq(s, Max(closes(i)) + 3, Len(s)))

(* re.sub with the lazy DOTALL pattern: the leftmost "<!--" that some      *)
(* "-->" follows is removed together with the first such "-->"; the scan   *)
(* goes on after the removed text.  An unclosed "<!--" is left alone.      *)
RECURSIVE RemoveComments(_)
RemoveComments(s) ==
  LET closes(i) == {k \in (i + 4)..Len(s) : OccursAt(s, CloseChars, k)}
      opens     == {i \in DOMAIN s : OccursAt(s, OpenChars, i) /\ closes(i) # {}}
  IN  IF opens = {} THEN s
      ELSE LET i == Min(opens)
           IN  SubSeq(s, 1, i - 1)
                 \o RemoveComments(SubSeq(s, Min(closes(i)) + 3, Len(s)))

\* content.split('\n')
RECURSIVE SplitLines(_)
SplitLines(s) ==
  LET nls == {i \in DOMAIN s : s[i] = NL}
  IN  IF nls = {} THEN <<s>>
      ELSE <<SubSeq(s, 1, Min(nls) - 1)>> \o SplitLines(SubSeq(s, Min(nls) + 1, Len(s)))

\* '\n'.join(ls)
JoinLines(ls) ==
  FlattenSeq([j \in DOMAIN ls |-> IF j = 1 THEN ls[j] ELSE <<NL>> \o ls[j]])

\* str.strip()
Trim(s) ==
  LET keep == {i \in DOMAIN s : s[i] \notin Whitespace}
  IN  IF keep = {} THEN <<>> ELSE SubSeq(s, Min(keep), Max(keep))

StripLines(s) ==
  LET ls == SplitLines(s) IN JoinLines([j \in DOMAIN ls |-> Trim(ls[j])])

(* re.sub(r'\n\s*\n', '\n'): from the leftmost newline that a whitespace   *)
(* run joins to another newline, \s* is greedy, so the match ends at the   *)
(* last newline of that run; the scan goes on after the match.             *)
RECURSIVE CollapseBlankLines(_)
CollapseBlankLines(s) ==
  LET ends(i) == {j \in (i + 1)..Len(s) :
                    s[j] = NL /\ \A q \in (i + 1)..(j - 1) : s[q] \in Whitespace}
      starts  == {i \in DOMAIN s : s[i] = NL /\ ends(i) # {}}
  IN  IF starts = {} THEN s
      ELSE LET i == Min(starts)
           IN  SubSeq(s, 1, i - 1) \o <<NL>>
                 \o CollapseBlankLines(SubSeq(s, Max(ends(i)) + 1, Len(s)))

CleanText(s) == Trim(CollapseBlankLines(StripLines(RemoveComments(s))))

-----------------------------------------------------------------------------
VARIABLES
  input,    \* the content argument
  content,  \* the local variable content after each statement
  pc        \* the next statement

vars == <<input, content, pc>>

Init ==
  /\ input \in Inputs
  /\ content = input
  /\ pc = "comments"

RemoveHTMLComments ==
  /\ pc = "comments"
  /\ content' = RemoveComments(content)
  /\ pc' = "lines"
  /\ UNCHANGED input

StripEachLine ==
  /\ pc = "lines"
  /\ content' = StripLines(content)
  /\ pc' = "blanks"
  /\ UNCHANGED input

CollapseNewlines ==
  /\ pc = "blanks"
  /\ content' = CollapseBlankLines(content)
  /\ pc' = "strip"
  /\ UNCHANGED input

StripAll ==
  /\ pc = "strip"
  /\ content' = Trim(content)
  /\ pc' = "done"
  /\ UNCHANGED input

Next == RemoveHTMLComments \/ StripEachLine \/ CollapseNewlines \/ StripAll

Spec == Init /\ [][Next]_vars

-----------------------------------------------------------------------------
(* The line kinds ReleaseNotesOps gives a line of text: a line that is     *)
(* exactly "<!--" or "-->", a blank line, or another (stripped) line.       *)
AsLine(l) ==
  CASE Trim(l) = <<>>   -> Blank
    [] l = OpenChars    -> CommentOpen
    [] l = CloseChars   -> CommentClose
    [] OTHER            -> Line("plain", Trim(l))

AsLines(s) == LET ls == SplitLines(s) IN [j \in DOMAIN ls |-> AsLine(ls[j])]

(***************************************************************************)
(* The other modules read a section as lines and clean it with the         *)
(* line-level CleanContent.  For every section whose comment markers are   *)
(* lines of their own, the text clean_content returns, split into lines,   *)
(* is exactly what CleanContent gives: a comment spanning lines vanishes   *)
(* with them, the first "-->" closes it, an unclosed "<!--" and a stray    *)
(* "-->" stay, and no blank line is left.                                  *)
(***************************************************************************)
LineModelFaithful ==
  pc = "done" =>
    IF content = <<>> THEN CleanContent(AsLines(input)) = <<>>
                      ELSE AsLines(content) = CleanContent(AsLines(input))

(***************************************************************************)
(* Spec 8: "Cleaning is idempotent: cleaning already-cleaned content       *)
(* yields the same content."  Removing one comment can join the text       *)
(* around it into a new "<!--...-->", which a second call removes.         *)
(***************************************************************************)
CleaningIdempotent ==
  pc = "done" => CleanText(content) = content

=============================================================================
